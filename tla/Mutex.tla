-------------------------------- MODULE Mutex --------------------------------
(***************************************************************************)
(* The mutex of thread.c and mtxTest: every thread runs mfunc, which       *)
(* increments globalTestVar in a load and a store under the mutex gm.      *)
(***************************************************************************)
EXTENDS CondVar, FiniteSets

CONSTANT Rounds  \* iterations of the loop of mfunc; 100 in the code

ASSUME RoundsAssumption == Rounds \in Nat \ {0}

VARIABLES
  held,   \* gm.lock
  local,  \* the variable local of each mfunc
  round   \* iterations each mfunc has finished

vars == <<machine, pc, made, cv, held, globalTestVar, local, round>>

data == <<globalTestVar, local, round>>

PC == {"start", "test", "wait", "mark", "sleep", "call", "waiting", "load",
       "store", "print", "printing", "unlock", "free", "exit", "left"}

Init == /\ CvInit
        /\ held = 0
        /\ local = [s \in Slot |-> 0]
        /\ round = [s \in Slot |-> 0]

\* thrMutexLock: the first half takes gm.lk, the second looks at gm.lock.
MutexEnter ==
  /\ At("start") /\ Lock("gm.lk") /\ Goto("test")
  /\ UNCHANGED <<kept, status, made, cv, held, data>>

\* Mutant of MutexTake: gm.lock is not set.
MutexTakeNothing ==
  /\ At("test") /\ held = 0
  /\ Unlock("gm.lk") /\ Goto("load")
  /\ UNCHANGED <<kept, status, mode, made, cv, held, data>>

MutexTake ==
  /\ At("test") /\ held = 0
  /\ held' = 1 /\ Unlock("gm.lk") /\ Goto("load")
  /\ UNCHANGED <<kept, status, mode, made, cv, data>>

MutexBusy ==
  /\ At("test") /\ held = 1 /\ Goto("wait")
  /\ UNCHANGED <<kept, status, intr, mode, spin, made, cv, held, data>>

Wait == CondWait("gm", "gm.lk") /\ UNCHANGED <<held, local, round>>

\* local = globalTestVar
Load ==
  /\ At("load") /\ local' = [local EXCEPT ![cur] = globalTestVar] /\ Goto("store")
  /\ UNCHANGED <<kept, status, intr, mode, spin, made, cv, held, globalTestVar, round>>

\* local++; globalTestVar = local
Store ==
  /\ At("store") /\ Goto("print")
  /\ local' = [local EXCEPT ![cur] = @ + 1] /\ globalTestVar' = local'[cur]
  /\ UNCHANGED <<kept, status, intr, mode, spin, made, cv, held, round>>

Report == Printf("print", "printing", "unlock") /\ UNCHANGED <<cv, held, data>>

\* thrMutexUnlock
MutexLeave ==
  /\ At("unlock") /\ Lock("gm.lk") /\ Goto("free")
  /\ UNCHANGED <<kept, status, made, cv, held, data>>

\* Mutant of Again: one iteration too many.
AgainAtBound(n) == n <= Rounds

\* The loop condition of mfunc.
Again(n) == n < Rounds

MutexFree ==
  /\ At("free") /\ held' = 0 /\ Broadcast("gm") /\ Unlock("gm.lk")
  /\ round' = [round EXCEPT ![cur] = @ + 1]
  /\ Goto(IF Again(round'[cur]) THEN "start" ELSE "exit")
  /\ UNCHANGED <<kept, mode, made, cv, globalTestVar, local>>

Step == ClientStep /\ UNCHANGED <<cv, held, data>>

Next == \/ MutexEnter \/ MutexTake \/ MutexBusy \/ Wait
        \/ Load \/ Store \/ Report \/ MutexLeave \/ MutexFree \/ Step

Spec == Init /\ [][Next]_vars

------------------------------------------------------------------------------
TypeOK == /\ CvTypeOK
          /\ pc \in [Slot -> PC]
          /\ made \in 0 .. THRQUESIZE
          /\ held \in {0, 1}
          /\ round \in [Slot -> 0 .. Rounds]
          /\ globalTestVar \in Start .. Start + Rounds * THRQUESIZE
          /\ local \in [Slot -> 0 .. Start + Rounds * THRQUESIZE]

Critical(s) == pc[s] \in {"load", "store", "print", "printing", "unlock", "free"}

(***************************************************************************)
(* gm.lock is set exactly while one thread is between thrMutexLock and the *)
(* store of thrMutexUnlock, and no two threads are (thrMutexLock,          *)
(* thrMutexUnlock).                                                        *)
(***************************************************************************)
MutualExclusion ==
  /\ held = 1 <=> \E s \in Slot : Critical(s)
  /\ \A s, u \in Slot : Critical(s) /\ Critical(u) => s = u

(***************************************************************************)
(* No increment is lost, although the load and the store of mfunc are two  *)
(* steps and ticks come between: every iteration of every thread that has  *)
(* stored counts once (mfunc).                                             *)
(***************************************************************************)
Increments(s) ==
  round[s] + IF pc[s] \in {"print", "printing", "unlock", "free"} THEN 1 ELSE 0

Done == {d \in Slot \X (0 .. Rounds - 1) : d[2] < Increments(d[1])}

NoLostUpdate == globalTestVar = Start + Cardinality(Done)

(***************************************************************************)
(* The spin lock inside the mutex is held only by thr_current with         *)
(* interrupts off, so it is never found taken (thrMutexLock).              *)
(***************************************************************************)
InnerLockSafe ==
  spin["gm.lk"] = 1 /\ mode # "hang" =>
    mode = "thread" /\ ~intr /\ pc[cur] \in {"test", "wait", "free"}
==============================================================================
