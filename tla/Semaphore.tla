------------------------------ MODULE Semaphore ------------------------------
(***************************************************************************)
(* The semaphores of thread.c and semTest: thread 0 runs producer, thread  *)
(* 1 runs consumer, over slot[] with the index idx.  Nothing is locked:    *)
(* every load and every store of a shared int is a step of its own where a *)
(* tick can come between.                                                  *)
(***************************************************************************)
EXTENDS Client

CONSTANTS
  Places,  \* size of slot[], and the initial count of s_emp; 5 in the code
  Rounds   \* iterations of each thread; 100 in the code

ASSUME PlacesAssumption == Places \in Nat \ {0}
ASSUME RoundsAssumption == Rounds \in Nat \ {0}

VARIABLES
  count,  \* count of s_emp and s_full
  cv,     \* the field cv of thrqueue[i]
  idx,
  full,   \* slot[], the places that hold 1
  reg,    \* the value each thread has loaded and not stored yet
  round   \* iterations each thread has finished

vars == <<machine, pc, made, count, cv, idx, full, reg, round>>

Sem == {"s_emp", "s_full"}

PC == {"start", "test", "park", "load", "store", "put", "loadidx", "storeidx", "clear",
       "print", "printing", "up", "upstore", "wake", "exit", "left"}

Producer(t) == t = 0

\* What thread t takes with thrSemDown and gives with thrSemUp.
Takes(t) == IF Producer(t) THEN "s_emp" ELSE "s_full"
Gives(t) == IF Producer(t) THEN "s_full" ELSE "s_emp"

Init ==
  /\ ClientInit
  /\ count = [s \in Sem |-> IF s = "s_emp" THEN Places ELSE 0]
  /\ cv = [t \in Slot |-> "none"]
  /\ idx = 0
  /\ full = {}
  /\ reg = [t \in Slot |-> 0]
  /\ round = [t \in Slot |-> 0]

\* A step of the thread's own code, which leaves the machine alone.
Own(p, q) == At(p) /\ Goto(q) /\ UNCHANGED <<kept, intr, mode, spin, made>>

------------------------------------------------------------------------------
(* thrSemDown *)

\* Mutant of Enough: the boundary is off by one.
EnoughOrNone(n) == n >= 0

Enough(n) == n > 0

DownTest ==
  /\ At("start") \/ At("test")
  /\ Goto(IF Enough(count[Takes(cur)]) THEN "load" ELSE "park")
  /\ UNCHANGED <<kept, status, intr, mode, spin, made, count, cv, idx, full, reg, round>>

\* The body of the loop: the thread marks itself and goes on testing.
DownPark ==
  /\ Own("park", "test")
  /\ status' = [status EXCEPT ![cur] = "SLEEPING"]
  /\ cv' = [cv EXCEPT ![cur] = Takes(cur)]
  /\ UNCHANGED <<count, idx, full, reg, round>>

DownLoad ==
  /\ Own("load", "store")
  /\ reg' = [reg EXCEPT ![cur] = count[Takes(cur)]]
  /\ UNCHANGED <<status, count, cv, idx, full, round>>

DownStore ==
  /\ Own("store", IF Producer(cur) THEN "put" ELSE "loadidx")
  /\ count' = [count EXCEPT ![Takes(cur)] = reg[cur] - 1]
  /\ UNCHANGED <<status, cv, idx, full, reg, round>>

------------------------------------------------------------------------------
(* producer: slot[idx] = 1; idx++.  consumer: slot[--idx] = 0 *)

Put1 ==
  /\ Own("put", "loadidx") /\ Producer(cur)
  /\ full' = full \cup {idx}
  /\ UNCHANGED <<status, count, cv, idx, reg, round>>

LoadIdx ==
  /\ Own("loadidx", "storeidx")
  /\ reg' = [reg EXCEPT ![cur] = idx]
  /\ UNCHANGED <<status, count, cv, idx, full, round>>

StoreIdx ==
  /\ Own("storeidx", IF Producer(cur) THEN "print" ELSE "clear")
  /\ idx' = IF Producer(cur) THEN reg[cur] + 1 ELSE reg[cur] - 1
  /\ UNCHANGED <<status, count, cv, full, reg, round>>

Clear ==
  /\ Own("clear", "print") /\ ~Producer(cur)
  /\ full' = full \ {idx}
  /\ UNCHANGED <<status, count, cv, idx, reg, round>>

Report == Printf("print", "printing", "up") /\ UNCHANGED <<count, cv, idx, full, reg, round>>

------------------------------------------------------------------------------
(* thrSemUp *)

UpLoad ==
  /\ Own("up", "upstore")
  /\ reg' = [reg EXCEPT ![cur] = count[Gives(cur)]]
  /\ UNCHANGED <<status, count, cv, idx, full, round>>

UpStore ==
  /\ Own("upstore", "wake")
  /\ count' = [count EXCEPT ![Gives(cur)] = reg[cur] + 1]
  /\ UNCHANGED <<status, cv, idx, full, reg, round>>

\* Mutant of Again: one iteration too many.
AgainAtBound(n) == n <= Rounds

\* The loop condition of producer and consumer.
Again(n) == n < Rounds

\* The scan for sleepers.
UpWake ==
  /\ At("wake")
  /\ LET woken == {t \in Slot : status[t] = "SLEEPING" /\ cv[t] = Gives(cur)} IN
       /\ status' = [t \in Slot |-> IF t \in woken THEN "READY" ELSE status[t]]
       /\ cv' = [t \in Slot |-> IF t \in woken THEN "none" ELSE cv[t]]
  /\ round' = [round EXCEPT ![cur] = @ + 1]
  /\ Goto(IF Again(round'[cur]) THEN "test" ELSE "exit")
  /\ UNCHANGED <<kept, intr, mode, spin, made, count, idx, full, reg>>

Step == ClientStep /\ UNCHANGED <<count, cv, idx, full, reg, round>>

Next == \/ DownTest \/ DownPark \/ DownLoad \/ DownStore
        \/ Put1 \/ LoadIdx \/ StoreIdx \/ Clear \/ Report
        \/ UpLoad \/ UpStore \/ UpWake \/ Step

Spec == Init /\ [][Next]_vars

------------------------------------------------------------------------------
TypeOK == /\ MachineTypeOK
          /\ pc \in [Slot -> PC]
          /\ made \in 0 .. THRQUESIZE
          /\ DOMAIN count = Sem
          /\ cv \in [Slot -> Sem \cup {"none"}]
          /\ round \in [Slot -> 0 .. Rounds]

(***************************************************************************)
(* A count is never negative, although the test, the load and the store of *)
(* thrSemDown are separate: each semaphore has one thread that takes from  *)
(* it (thrSemDown, thrSemUp, producer, consumer).                          *)
(***************************************************************************)
CountsNotNegative == \A s \in Sem : count[s] >= 0

(***************************************************************************)
(* Nobody but thr_current is ever SLEEPING on a semaphore: the tick that   *)
(* takes the CPU from a sleeper makes it READY.  A sleeper therefore needs *)
(* no wake-up, and the scan of thrSemUp never wakes another thread         *)
(* (thrSemDown, thrSemUp, thrYeild).                                       *)
(***************************************************************************)
SleeperHasCpu == \A t \in Slot : status[t] = "SLEEPING" => t = cur

==============================================================================
