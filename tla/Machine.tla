------------------------------- MODULE Machine -------------------------------
(***************************************************************************)
(* The single CPU under the thread package of thread.c: the interrupt      *)
(* flag, the spin locks of concurrency.c, ctxSwitch of switch.s, the       *)
(* scheduler loop of thrSched and the timer tick that calls thrYeild.      *)
(*                                                                         *)
(* The module has no Spec of its own.  Threads, CondVar and Semaphore      *)
(* extend it and add the programs that run on the CPU.                     *)
(*                                                                         *)
(* Granularity.  Nothing but the timer tick interleaves with running code, *)
(* so code that runs with interrupts off is one step, and code that runs   *)
(* with interrupts on is split where a tick makes a difference.  ctxSwitch *)
(* is one step.                                                            *)
(***************************************************************************)
EXTENDS Integers

CONSTANTS
  THRQUESIZE,       \* number of slots of thrqueue
  DEFAULT_COUNTER,  \* timer ticks a new thread is given
  INT_MIN, INT_MAX  \* range of the C int that holds a counter

ASSUME SlotsAssumption == THRQUESIZE \in Nat \ {0}
ASSUME IntAssumption == /\ INT_MIN \in Int /\ INT_MIN < 0
                        /\ INT_MAX \in Nat
                        /\ DEFAULT_COUNTER \in 1..INT_MAX

Slot == 0 .. THRQUESIZE - 1

(***************************************************************************)
(* thr_scheduler and the initial thr_current are both a null pointer, and  *)
(* the kernel runs with address 0 mapped and writable.  NULL is therefore  *)
(* the "thread" whose code is the boot sequence, and also the owner of the *)
(* scheduler loop that thrInit prepares (the home loop).                   *)
(***************************************************************************)
NULL == -1

\* The local t of a thrSched that was called, not switched to, before its
\* first assignment.
UNINIT == -2

Thr == Slot \cup {NULL}

Status == {"UNUSED", "READY", "RUNNING", "SLEEPING", "ZOMBIE"}

(***************************************************************************)
(* What the saved stack pointer thrqueue[i].ctx leads to: nothing yet, the *)
(* first instruction of a new thread, the return path of a timer tick, a   *)
(* timer tick that hit the thread inside its own call of thrSched, the     *)
(* instruction after the ctxSwitch of thrExit, or stack contents that have *)
(* been popped and reused since.                                           *)
(***************************************************************************)
Context == {"none", "fresh", "trap", "loop", "exited", "stale"}

SpinLocks == {"cslLock", "thrque_lock", "gtLock", "gm.lk"}

(***************************************************************************)
(* What the CPU does: it runs the code of thr_current; it runs a scheduler *)
(* loop; it has executed cli and hlt; it spins on a lock with interrupts   *)
(* off, so that nobody can ever release it; or it has popped a context     *)
(* that is not one and runs no program as written any more.                *)
(***************************************************************************)
Mode == {"thread", "sched", "halt", "hang", "wild"}

VARIABLES
  status, counter,  \* fields of thrqueue[i]
  ctx,              \* field ctx of thrqueue[i], by what it leads to
  cur,              \* thr_current
  intr,             \* the interrupt flag of the CPU
  mode,             \* what the CPU does
  loop,             \* the scheduler loop that runs, while mode = "sched"
  sctx,             \* the scheduler loop saved in thr_scheduler->ctx
  last,             \* the local t of each scheduler loop
  spin              \* the lock word of each spin lock

machine == <<status, counter, ctx, cur, intr, mode, loop, sctx, last, spin>>

MachineTypeOK ==
  /\ status \in [Slot -> Status]
  /\ counter \in [Slot -> INT_MIN .. INT_MAX]
  /\ ctx \in [Slot -> Context]
  /\ cur \in Thr
  /\ intr \in BOOLEAN
  /\ mode \in Mode
  /\ loop \in Thr
  /\ sctx \in Thr
  /\ last \in [Thr -> Thr \cup {UNINIT}]
  /\ spin \in [SpinLocks -> {0, 1}]

\* The machine when thrInit has returned to the boot sequence.
MachineInit ==
  /\ status = [s \in Slot |-> "UNUSED"]
  /\ counter = [s \in Slot |-> 0]
  /\ ctx = [s \in Slot |-> "none"]
  /\ cur = NULL
  /\ intr = TRUE
  /\ mode = "thread"
  /\ loop = NULL
  /\ sctx = NULL
  /\ last = [t \in Thr |-> IF t = NULL THEN NULL ELSE UNINIT]
  /\ spin = [l \in SpinLocks |-> 0]

Put(f, t, v) == IF t = NULL THEN f ELSE [f EXCEPT ![t] = v]

------------------------------------------------------------------------------
(* Interrupt flag and spin locks *)

\* Mutant of Lock: without cli.
LockWithoutCli(l) == /\ spin' = [spin EXCEPT ![l] = 1]
                     /\ mode' = IF spin[l] = 0 THEN mode ELSE "hang"
                     /\ UNCHANGED intr

Lock(l) == /\ spin' = [spin EXCEPT ![l] = 1]
           /\ intr' = FALSE
           /\ mode' = IF spin[l] = 0 THEN mode ELSE "hang"

Unlock(l) == /\ spin' = [spin EXCEPT ![l] = 0]
             /\ intr' = TRUE

------------------------------------------------------------------------------
(* The scheduler loop *)

\* Mutant of Eligible: a dead thread with ticks left is eligible.
EligibleEvenDead(st, ctr, s) == st[s] \in {"READY", "ZOMBIE"} /\ ctr[s] > 0

Eligible(st, ctr, s) == st[s] = "READY" /\ ctr[s] > 0

\* Mutant of Best: the first ready thread with ticks left.
BestByIndex(st, ctr, s) ==
  Eligible(st, ctr, s) /\ \A u \in Slot : Eligible(st, ctr, u) => s <= u

Best(st, ctr, s) ==
  /\ Eligible(st, ctr, s)
  /\ \A u \in Slot : Eligible(st, ctr, u) =>
       ctr[u] < ctr[s] \/ (ctr[u] = ctr[s] /\ s <= u)

(***************************************************************************)
(* The pointer t at line 113 of one round of loop lp, as a set with one    *)
(* element: the ready thread with the most ticks left, the first of them   *)
(* on a tie; if no ready thread has ticks left, t keeps its old value.     *)
(***************************************************************************)
Choice(lp, st, ctr) ==
  IF \E s \in Slot : Eligible(st, ctr, s)
  THEN {s \in Slot : Best(st, ctr, s)}
  ELSE {last[lp]}

(***************************************************************************)
(* Loop lp gives the CPU to t: it saves itself in thr_scheduler->ctx and   *)
(* pops the context of t.  A new thread starts with the interrupt flag the *)
(* loop had; a thread that a tick interrupted returns through trapret,     *)
(* which executes sti.                                                     *)
(***************************************************************************)
Run(lp, t, st, cx, if) ==
  /\ sctx' = lp
  /\ last' = [last EXCEPT ![lp] = t]
  /\ cur' = IF t = UNINIT THEN cur ELSE t
  /\ \/ /\ t = NULL
        /\ mode' = "thread" /\ loop' = NULL /\ intr' = TRUE
        /\ status' = st /\ ctx' = cx
     \/ /\ t = UNINIT
        /\ mode' = "wild" /\ loop' = NULL /\ intr' = FALSE
        /\ status' = st /\ ctx' = cx
     \/ /\ t \in Slot
        /\ status' = [st EXCEPT ![t] = "RUNNING"]
        /\ ctx' = [cx EXCEPT ![t] = "stale"]
        /\ \/ /\ cx[t] = "fresh"
              /\ mode' = "thread" /\ loop' = NULL /\ intr' = if
           \/ /\ cx[t] = "trap"
              /\ mode' = "thread" /\ loop' = NULL /\ intr' = TRUE
           \/ /\ cx[t] = "loop"
              /\ mode' = "sched" /\ loop' = t /\ intr' = TRUE
           \/ /\ cx[t] \in {"none", "stale", "exited"}
              /\ mode' = "wild" /\ loop' = NULL /\ intr' = FALSE

\* One round of the loop that runs.
Dispatch ==
  /\ mode = "sched"
  /\ \E t \in Choice(loop, status, counter) : Run(loop, t, status, ctx, intr)
  /\ UNCHANGED <<counter, spin>>

\* Code of thr_current switches to the scheduler and leaves its own stack
\* at a place described by c.
Leave(c) ==
  /\ ctx' = Put(ctx, cur, c)
  /\ mode' = "sched"
  /\ loop' = sctx
  /\ UNCHANGED <<status, counter, cur, intr, sctx, last, spin>>

\* thrExit up to its ctxSwitch.
Die == status' = [status EXCEPT ![cur] = "ZOMBIE"]

\* thrCreate, from the slot it has found: a new stack, and the status last.
Create(s) == /\ ctx' = [ctx EXCEPT ![s] = "fresh"]
             /\ counter' = [counter EXCEPT ![s] = DEFAULT_COUNTER]
             /\ status' = [status EXCEPT ![s] = "READY"]

\* kernelMain returns to the loader, which executes cli and hlt.
Stop == mode' = "halt" /\ intr' = FALSE

------------------------------------------------------------------------------
(* The timer tick *)

\* Mutants of Charge: a tick that costs nothing, a counter without width.
ChargeNothing(t) == counter
ChargeUnbounded(t) ==
  IF t = NULL THEN counter ELSE [counter EXCEPT ![t] = counter[t] - 1]

\* counter--, in an int that wraps around.
Charge(t) ==
  IF t = NULL THEN counter
  ELSE [counter EXCEPT ![t] = IF counter[t] = INT_MIN THEN INT_MAX
                                                      ELSE counter[t] - 1]

\* Mutant of Yielded: the status store of thrYeild is missing.
StillRunning == status

\* thr_current->status = THR_READY
Yielded == Put(status, cur, "READY")

(***************************************************************************)
(* A tick interrupts thr_current.  It makes it READY whatever its status   *)
(* was, charges it a tick, and resumes the saved loop, which chooses the   *)
(* next thread; all of it with interrupts off.                             *)
(***************************************************************************)
Tick ==
  /\ mode = "thread" /\ intr
  /\ counter' = Charge(cur)
  /\ LET st == Yielded
         cx == Put(ctx, cur, "trap")
     IN  \E t \in Choice(sctx, st, Charge(cur)) : Run(sctx, t, st, cx, FALSE)
  /\ UNCHANGED spin

(***************************************************************************)
(* A tick interrupts a scheduler loop, which runs with interrupts on when  *)
(* a thread entered it by thrExit or by thrCondWait.                       *)
(*                                                                         *)
(* If the loop is the one that thr_scheduler->ctx was popped from, the     *)
(* frames the tick pushed have overwritten what that pointer leads to.     *)
(* thr_current is the thread that left, or already the one chosen.         *)
(***************************************************************************)
TickInSavedLoop ==
  /\ mode = "sched" /\ intr /\ loop = sctx
  /\ \E t \in ({cur} \cup Choice(loop, status, counter)) \ {UNINIT} :
       /\ cur' = t
       /\ status' = Put(status, t, "READY")
       /\ counter' = Charge(t)
  /\ mode' = "wild" /\ intr' = FALSE /\ loop' = NULL
  /\ UNCHANGED <<ctx, sctx, last, spin>>

(***************************************************************************)
(* If it is another loop, called by a thread, the tick is taken on the     *)
(* stack of that thread and the saved loop goes on.  Before line 113       *)
(* thr_current still is the owner of the loop, which the tick makes READY. *)
(***************************************************************************)
TickInCalledLoop ==
  /\ mode = "sched" /\ intr /\ loop # sctx
  /\ counter' = Charge(cur)
  /\ LET st == Yielded
         cx == Put(ctx, cur, "loop")
     IN  \E t \in Choice(sctx, st, Charge(cur)) : Run(sctx, t, st, cx, FALSE)
  /\ UNCHANGED spin

(***************************************************************************)
(* After line 113 thr_current is the thread the loop has chosen: the tick  *)
(* saves the stack of the loop's owner as the context of that thread.      *)
(***************************************************************************)
TickInCalledLoopLate ==
  /\ mode = "sched" /\ intr /\ loop # sctx
  /\ \E c \in Choice(loop, status, counter) \ {UNINIT, NULL} :
       /\ counter' = Charge(c)
       /\ LET st == [status EXCEPT ![c] = "READY"]
              cx == [ctx EXCEPT ![c] = "stale"]
          IN  \E t \in Choice(sctx, st, Charge(c)) : Run(sctx, t, st, cx, FALSE)
  /\ UNCHANGED spin

TickInLoop == TickInSavedLoop \/ TickInCalledLoop \/ TickInCalledLoopLate

==============================================================================
