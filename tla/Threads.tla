------------------------------- MODULE Threads -------------------------------
(***************************************************************************)
(* The thread package of thread.c on the machine of Machine.tla, used in   *)
(* every way its interface allows by threads that print (spinlockLock and  *)
(* spinlockUnlock of the console lock), create threads, kill threads and   *)
(* exit.  The repository's own client, thrTest, is one behaviour of it.    *)
(***************************************************************************)
EXTENDS Machine

CONSTANT Spawners  \* who calls thrCreate; in the repository only the boot code

ASSUME SpawnersAssumption == Spawners \subseteq Thr

VARIABLES
  pc,    \* where the code of each thread is
  pend   \* the slot thrAlloc has returned to a thread inside thrCreate

vars == <<machine, pc, pend>>

PC == {"run", "printf", "create", "exit"}

\* thr_current's own code is executing, at p.
At(p) == mode = "thread" /\ pc[cur] = p

Goto(p) == pc' = [pc EXCEPT ![cur] = p]

Init ==
  /\ MachineInit
  /\ pc = [t \in Thr |-> "run"]
  /\ pend = [t \in Thr |-> NULL]

------------------------------------------------------------------------------
(***************************************************************************)
(* thrCreate.  thrAlloc only looks at the slots; the slot is taken when    *)
(* its status is stored, and a tick may come between.  A call that finds   *)
(* no slot returns -1 and changes nothing.                                 *)
(***************************************************************************)
Free(s) == status[s] = "UNUSED"

CreateScan ==
  /\ At("run") /\ cur \in Spawners
  /\ \E s \in Slot :
       /\ Free(s) /\ \A u \in Slot : Free(u) => s <= u
       /\ pend' = [pend EXCEPT ![cur] = s]
  /\ Goto("create")
  /\ UNCHANGED machine

CreateCommit ==
  /\ At("create")
  /\ LET s == pend[cur] IN
       /\ Create(s)
       /\ pc' = [pc EXCEPT ![cur] = "run", ![s] = "run"]
  /\ pend' = [pend EXCEPT ![cur] = NULL]
  /\ UNCHANGED <<cur, intr, mode, loop, sctx, last, spin>>

\* thrKill of a thread that was created.
Kill ==
  /\ At("run")
  /\ \E v \in Slot : status[v] # "UNUSED" /\ status' = [status EXCEPT ![v] = "ZOMBIE"]
  /\ UNCHANGED <<counter, ctx, cur, intr, mode, loop, sctx, last, spin, pc, pend>>

(***************************************************************************)
(* thrExit: the status store and the switch are two steps.  A thread that  *)
(* a tick catches between them becomes READY again, and makes the switch   *)
(* when it next runs.                                                      *)
(***************************************************************************)
ExitMark ==
  /\ At("run") /\ cur \in Slot
  /\ Die
  /\ Goto("exit")
  /\ UNCHANGED <<counter, ctx, cur, intr, mode, loop, sctx, last, spin, pend>>

ExitSwitch ==
  /\ At("exit")
  /\ Leave("exited")
  /\ UNCHANGED <<pc, pend>>

\* printf holds cslLock, with interrupts off, and turns interrupts on when
\* it releases it.
BeginPrintf ==
  /\ At("run")
  /\ Lock("cslLock")
  /\ Goto("printf")
  /\ UNCHANGED <<status, counter, ctx, cur, loop, sctx, last, pend>>

EndPrintf ==
  /\ At("printf")
  /\ Unlock("cslLock")
  /\ Goto("run")
  /\ UNCHANGED <<status, counter, ctx, cur, mode, loop, sctx, last, pend>>

\* The boot code has nothing more to do.
BootHalt ==
  /\ At("run") /\ cur = NULL
  /\ Stop
  /\ UNCHANGED <<status, counter, ctx, cur, loop, sctx, last, spin, pc, pend>>

Timer == (Tick \/ TickInSavedLoop) /\ UNCHANGED <<pc, pend>>

Schedule == Dispatch /\ UNCHANGED <<pc, pend>>

Next == \/ CreateScan \/ CreateCommit
        \/ Kill \/ ExitMark \/ ExitSwitch
        \/ BeginPrintf \/ EndPrintf
        \/ BootHalt
        \/ Timer \/ Schedule

Spec == Init /\ [][Next]_vars

(***************************************************************************)
(* Fairness.  The CPU keeps executing, and the threads keep printing, as   *)
(* func does.  A tick that arrives while interrupts are off is kept by the *)
(* interrupt controller and taken when they are on again: strong fairness. *)
(***************************************************************************)
Fairness == /\ WF_vars(BeginPrintf) /\ WF_vars(EndPrintf)
            /\ WF_vars(ExitSwitch) /\ WF_vars(CreateCommit)
            /\ WF_vars(Schedule)
            /\ SF_vars(Tick /\ UNCHANGED <<pc, pend>>)

FairSpec == Spec /\ Fairness

------------------------------------------------------------------------------
(* Properties *)

TypeOK == /\ MachineTypeOK
          /\ pc \in [Thr -> PC]
          /\ pend \in [Thr -> Thr]

(***************************************************************************)
(* At most one thread is RUNNING, and it is thr_current.  A thread that    *)
(* was made READY inside thrExit and later completed its exit keeps the    *)
(* status RUNNING without the CPU (thrExit, thrYeild, thrSched).           *)
(***************************************************************************)
OneRunning ==
  \A s \in Slot : status[s] = "RUNNING" /\ ctx[s] # "exited" => s = cur

(***************************************************************************)
(* The console lock is only ever held by thr_current inside printf with    *)
(* interrupts off, so nobody spins on it for ever and no tick moves its    *)
(* holder off the CPU (spinlockLock, spinlockUnlock, printf).              *)
(***************************************************************************)
ConsoleLockSafe ==
  /\ mode # "hang"
  /\ spin["cslLock"] = 1 => mode = "thread" /\ pc[cur] = "printf" /\ ~intr
  /\ \A t \in Thr : pc[t] = "printf" => t = cur /\ spin["cslLock"] = 1

\* The threads that compete for the CPU.
Alive == {s \in Slot : status[s] = "READY" \/ (mode = "thread" /\ s = cur)}

(***************************************************************************)
(* Round robin: the ticks left to any two competing threads differ by at   *)
(* most one, until all but the current one have none left (thrYeild,       *)
(* thrSched).                                                              *)
(***************************************************************************)
FairShare ==
  mode # "wild" =>
    \/ \A u, v \in Alive : counter[u] <= counter[v] + 1
    \/ \A u \in Alive \ {cur} : counter[u] = 0

(***************************************************************************)
(* Kills, exits, prints, interrupts and contexts do not disturb the        *)
(* sharing of the CPU: the package implements RoundRobin (thrCreate,       *)
(* thrYeild, thrSched, thrExit, thrKill).                                  *)
(***************************************************************************)
Lost == mode \in {"wild", "halt", "hang"}

Waiting == {s \in Slot : status[s] = "READY"}

Sharing == INSTANCE RoundRobin WITH
  Threads <- Slot, Nobody <- NULL, Quantum <- DEFAULT_COUNTER,
  Least <- INT_MIN, Most <- INT_MAX,
  phase  <- IF Lost THEN "lost" ELSE IF cur = NULL THEN "boot" ELSE "up",
  runner <- IF mode = "thread" THEN cur ELSE NULL,
  ready  <- IF Lost THEN {} ELSE Waiting,
  left   <- [s \in Slot |-> IF ~Lost /\ s \in Alive THEN counter[s] ELSE 0]

ImplementsRoundRobin == Sharing!AbsSpec

(***************************************************************************)
(* A thread that was killed, or that exited, and is not thr_current stays  *)
(* dead: no tick and no choice of the scheduler brings it back, while the  *)
(* machine runs the threads as written (thrKill, thrExit, thrSched).       *)
(***************************************************************************)
StayDead == \A s \in Slot : status[s] = "ZOMBIE" /\ s # cur => status'[s] = "ZOMBIE"

DeadStaysDead == [][StayDead]_vars

(***************************************************************************)
(* Every created thread gets the CPU, unless it is killed or the machine   *)
(* is lost, once the boot code has been left (thrSched, thrYeild).         *)
(***************************************************************************)
Served ==
  \A s \in Slot :
    (status[s] = "READY" /\ counter[s] = DEFAULT_COUNTER /\ cur # NULL)
      ~> (cur = s \/ status[s] = "ZOMBIE" \/ mode = "wild")

==============================================================================
