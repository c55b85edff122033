-------------------------------- MODULE Client --------------------------------
(***************************************************************************)
(* What the repository's test programs share: the boot code creates one    *)
(* thread for every slot, in order, and returns to the loader; the threads *)
(* leave with thrExit; the timer ticks.  CondVar and Semaphore extend it.  *)
(***************************************************************************)
EXTENDS Machine

VARIABLES
  pc,    \* where the code of each thread is
  made   \* how many threads the boot code has created

\* The part of the machine that code between two switches leaves alone.
kept == <<counter, ctx, cur, loop, sctx, last>>

At(p) == mode = "thread" /\ cur # NULL /\ pc[cur] = p

Goto(p) == pc' = [pc EXCEPT ![cur] = p]

ClientInit == MachineInit /\ pc = [s \in Slot |-> "start"] /\ made = 0

\* The tick that takes the CPU from the boot code for the first thread is
\* the last the boot code sees of it: threads not created by then never are.
BootCreate ==
  /\ mode = "thread" /\ cur = NULL /\ made < THRQUESIZE
  /\ Create(made)
  /\ made' = made + 1
  /\ UNCHANGED <<cur, intr, mode, loop, sctx, last, spin, pc>>

BootReturn ==
  /\ mode = "thread" /\ cur = NULL /\ made = THRQUESIZE
  /\ Stop
  /\ UNCHANGED <<kept, status, spin, pc, made>>

ExitMark ==
  /\ At("exit") /\ Die /\ Goto("left")
  /\ UNCHANGED <<kept, intr, mode, spin, made>>

ExitSwitch == At("left") /\ Leave("exited") /\ UNCHANGED <<pc, made>>

Timer == (Tick \/ TickInLoop) /\ UNCHANGED <<pc, made>>

Schedule == Dispatch /\ UNCHANGED <<pc, made>>

ClientStep == BootCreate \/ BootReturn \/ ExitMark \/ ExitSwitch \/ Timer \/ Schedule

\* A printf between the labels p, q and r.
Printf(p, q, r) ==
  \/ At(p) /\ Lock("cslLock") /\ Goto(q) /\ UNCHANGED <<kept, status, made>>
  \/ At(q) /\ Unlock("cslLock") /\ Goto(r) /\ UNCHANGED <<kept, status, mode, made>>
==============================================================================
