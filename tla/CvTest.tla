-------------------------------- MODULE CvTest --------------------------------
(***************************************************************************)
(* cvTest: some threads run gfunc0, which changes globalTestVar under      *)
(* gtLock and signals, the others gfunc1, which waits for the change.  In  *)
(* the repository thread 0 runs gfunc0 and thread 1 gfunc1.                *)
(***************************************************************************)
EXTENDS CondVar, FiniteSets

CONSTANT Changers  \* the slots that run gfunc0

ASSUME ChangersAssumption == Changers \subseteq Slot

testvars == <<machine, pc, made, cv, globalTestVar>>

Label == {"start", "add", "unlock", "signal", "exit", "left",
          "test", "wait", "mark", "sleep", "call", "waiting", "print", "printing"}

TestInit == CvInit

\* Both functions begin with spinlockLock(&gtLock).
Enter ==
  /\ At("start") /\ Lock("gtLock")
  /\ Goto(IF cur \in Changers THEN "add" ELSE "test")
  /\ UNCHANGED <<kept, status, made, cv, globalTestVar>>

\* Mutant of Change: the wrong increment.
ChangeByOne ==
  /\ At("add") /\ globalTestVar' = globalTestVar + 1 /\ Goto("unlock")
  /\ UNCHANGED <<kept, status, intr, mode, spin, made, cv>>

Change ==
  /\ At("add") /\ globalTestVar' = globalTestVar + 10 /\ Goto("unlock")
  /\ UNCHANGED <<kept, status, intr, mode, spin, made, cv>>

\* Mutant of Test: the condition of the while is inverted.
TestInverted ==
  /\ At("test") /\ Goto(IF globalTestVar = Start THEN "print" ELSE "wait")
  /\ UNCHANGED <<kept, status, intr, mode, spin, made, cv, globalTestVar>>

Test ==
  /\ At("test") /\ Goto(IF globalTestVar = Start THEN "wait" ELSE "print")
  /\ UNCHANGED <<kept, status, intr, mode, spin, made, cv, globalTestVar>>

\* printf inside the critical section: its unlock turns interrupts on.
PrintChange == Printf("print", "printing", "unlock") /\ UNCHANGED <<cv, globalTestVar>>

Release ==
  /\ At("unlock") /\ Unlock("gtLock")
  /\ Goto(IF cur \in Changers THEN "signal" ELSE "exit")
  /\ UNCHANGED <<kept, status, mode, made, cv, globalTestVar>>

Notify ==
  /\ At("signal") /\ Signal("globalTestVar") /\ Goto("exit")
  /\ UNCHANGED <<kept, intr, mode, spin, made, cv, globalTestVar>>

WaitForChange == CondWait("globalTestVar", "gtLock")

TestStep == ClientStep /\ UNCHANGED <<cv, globalTestVar>>

TestNext == \/ Enter \/ Change \/ Test \/ PrintChange \/ Release \/ Notify
            \/ WaitForChange \/ TestStep

TestSpec == TestInit /\ [][TestNext]_testvars

------------------------------------------------------------------------------
TestTypeOK == /\ CvTypeOK
              /\ pc \in [Slot -> Label]
              /\ made \in 0 .. THRQUESIZE
              /\ globalTestVar \in {Start + 10 * n : n \in 0 .. THRQUESIZE}

(***************************************************************************)
(* gtLock is taken exactly while one thread is between its lock and its    *)
(* unlock, also where the printf in between has turned interrupts on, and  *)
(* while thrCondWait has it released (gfunc0, gfunc1, thrCondWait).        *)
(***************************************************************************)
Inside(s) == pc[s] \in {"add", "test", "wait", "print", "printing", "unlock"}

OneInside ==
  mode # "hang" =>
    /\ spin["gtLock"] = 1 <=> \E s \in Slot : Inside(s)
    /\ \A s, u \in Slot : Inside(s) /\ Inside(u) => s = u

(***************************************************************************)
(* A thread gets past the wait only when globalTestVar has changed, it     *)
(* prints all the changes there are, and nobody changes globalTestVar in   *)
(* the meantime (gfunc0, gfunc1).                                          *)
(***************************************************************************)
Changed == {u \in Changers : pc[u] \notin {"start", "add"}}

PrintsTheChange ==
  \A s \in Slot \ Changers : pc[s] \in {"print", "printing"} =>
    /\ Changed # {} /\ globalTestVar = Start + 10 * Cardinality(Changed)
    /\ \A u \in Changers : pc[u] # "add"
==============================================================================
