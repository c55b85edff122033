----------------------------- MODULE ClientProofs -----------------------------
(***************************************************************************)
(* What every proof about a client of the machine needs: the steps of the  *)
(* machine and of Client keep the types, and what they leave alone.  Unlike*)
(* in ThreadsProofs, threads may call the scheduler, so there are several  *)
(* scheduler loops and the chosen thread may be UNINIT.                    *)
(***************************************************************************)
EXTENDS Client, TLAPS

USE DEF Thr, NULL, UNINIT

ClientTypeOK(Labels) == /\ MachineTypeOK
                        /\ pc \in [Slot -> Labels]
                        /\ made \in 0 .. THRQUESIZE

LEMMA ClientInitType ==
  ASSUME NEW Labels, "start" \in Labels, ClientInit
  PROVE  ClientTypeOK(Labels)
BY SlotsAssumption, IntAssumption
DEF ClientInit, MachineInit, ClientTypeOK, MachineTypeOK, Status, Context, Mode, Slot

\* thr_current is a thread while its code runs.
LEMMA AtSlot ==
  ASSUME MachineTypeOK, NEW p, At(p)
  PROVE  cur \in Slot /\ pc[cur] = p /\ mode = "thread"
BY DEF MachineTypeOK, At

LEMMA LockType ==
  ASSUME MachineTypeOK, NEW l \in SpinLocks, Lock(l)
  PROVE  /\ spin' \in [SpinLocks -> {0, 1}] /\ intr' \in BOOLEAN /\ mode' \in Mode
         /\ spin'[l] = 1 /\ ~intr' /\ mode' \in {mode, "hang"}
         /\ \A k \in SpinLocks \ {l} : spin'[k] = spin[k]
BY DEF MachineTypeOK, Lock, Mode

LEMMA UnlockType ==
  ASSUME MachineTypeOK, NEW l \in SpinLocks, Unlock(l)
  PROVE  /\ spin' \in [SpinLocks -> {0, 1}] /\ intr' \in BOOLEAN
         /\ spin'[l] = 0
         /\ \A k \in SpinLocks \ {l} : spin'[k] = spin[k]
BY DEF MachineTypeOK, Unlock

LEMMA ChoiceType ==
  ASSUME MachineTypeOK, NEW lp \in Thr, NEW st, NEW ctr, NEW t \in Choice(lp, st, ctr)
  PROVE  t \in Thr \cup {UNINIT}
BY DEF MachineTypeOK, Choice, Best, Eligible

LEMMA ChargeType ==
  ASSUME MachineTypeOK, NEW t \in Thr
  PROVE  Charge(t) \in [Slot -> INT_MIN .. INT_MAX]
BY IntAssumption DEF MachineTypeOK, Charge

\* Giving the CPU to whatever the loop has chosen keeps the types; only that
\* thread changes its status; and nobody spins (thrSched, ctxSwitch).
LEMMA RunType ==
  ASSUME MachineTypeOK, NEW lp \in Thr, NEW t \in Thr \cup {UNINIT},
         NEW st \in [Slot -> Status], NEW cx \in [Slot -> Context], NEW if \in BOOLEAN,
         Run(lp, t, st, cx, if)
  PROVE  /\ status' \in [Slot -> Status] /\ ctx' \in [Slot -> Context]
         /\ cur' \in Thr /\ intr' \in BOOLEAN /\ mode' \in {"thread", "sched", "wild"}
         /\ loop' \in Thr /\ sctx' \in Thr
         /\ last' \in [Thr -> Thr \cup {UNINIT}]
         /\ \A s \in Slot : status'[s] \in {st[s], "RUNNING"}
<1>1. CASE t \in Slot
  BY <1>1 DEF Run, MachineTypeOK, Status, Context, Slot
<1>2. CASE t = NULL
  BY <1>2 DEF Run, MachineTypeOK, Slot
<1>3. CASE t = UNINIT
  <2>1. t \notin Slot /\ t # NULL
    BY <1>3 DEF Slot
  <2>2. /\ mode' = "wild" /\ loop' = NULL /\ intr' = FALSE /\ status' = st /\ ctx' = cx
        /\ sctx' = lp /\ last' = [last EXCEPT ![lp] = t] /\ cur' = cur
    BY <1>3, <2>1 DEF Run
  <2> QED
    BY <2>2 DEF MachineTypeOK
<1> QED
  BY <1>1, <1>2, <1>3

\* A tick, and a round of a loop: nobody falls asleep, and a tick leaves
\* nobody asleep who had the CPU.
LEMMA DispatchType ==
  ASSUME MachineTypeOK, Dispatch
  PROVE  /\ MachineTypeOK' /\ mode' # "hang"
         /\ \A s \in Slot : status'[s] = "SLEEPING" => status[s] = "SLEEPING"
<1>1. PICK t \in Choice(loop, status, counter) : Run(loop, t, status, ctx, intr)
  BY DEF Dispatch
<1>2. t \in Thr \cup {UNINIT}
  BY <1>1, ChoiceType DEF MachineTypeOK
<1>3. /\ status' \in [Slot -> Status] /\ ctx' \in [Slot -> Context]
      /\ cur' \in Thr /\ intr' \in BOOLEAN /\ mode' \in {"thread", "sched", "wild"}
      /\ loop' \in Thr /\ sctx' \in Thr
      /\ last' \in [Thr -> Thr \cup {UNINIT}]
      /\ \A s \in Slot : status'[s] \in {status[s], "RUNNING"}
  <2>1. /\ loop \in Thr /\ status \in [Slot -> Status] /\ ctx \in [Slot -> Context]
        /\ intr \in BOOLEAN
    BY DEF MachineTypeOK
  <2> HIDE DEF Thr, UNINIT, NULL
  <2> QED
    BY <1>1, <1>2, <2>1, RunType
<1>4. UNCHANGED <<counter, spin>>
  BY DEF Dispatch
<1> QED
  BY <1>3, <1>4 DEF MachineTypeOK, Mode

\* The part of a tick that is common to its three places.
LEMMA PreemptType ==
  ASSUME MachineTypeOK, NEW c \in Thr, NEW x \in {"trap", "loop", "stale"},
         NEW t \in Choice(sctx, Put(status, c, "READY"), Charge(c)),
         Run(sctx, t, Put(status, c, "READY"), Put(ctx, c, x), FALSE),
         counter' = Charge(c), UNCHANGED spin
  PROVE  /\ MachineTypeOK' /\ mode' # "hang"
         /\ \A s \in Slot : status'[s] = "SLEEPING" => status[s] = "SLEEPING" /\ s # c
<1> DEFINE st == Put(status, c, "READY")
           cx == Put(ctx, c, x)
<1>1. /\ st \in [Slot -> Status] /\ cx \in [Slot -> Context]
      /\ \A s \in Slot : st[s] = "SLEEPING" => status[s] = "SLEEPING" /\ s # c
  <2>1. CASE c = NULL
    BY <2>1 DEF Put, MachineTypeOK, Slot
  <2>2. CASE c \in Slot
    <3>1. st = [status EXCEPT ![c] = "READY"] /\ cx = [ctx EXCEPT ![c] = x]
      BY <2>2 DEF Put, Slot
    <3> QED
      BY <2>2, <3>1 DEF MachineTypeOK, Status, Context
  <2> QED
    BY <2>1, <2>2
<1>2. t \in Thr \cup {UNINIT}
  BY ChoiceType DEF MachineTypeOK
<1>3. /\ status' \in [Slot -> Status] /\ ctx' \in [Slot -> Context]
      /\ cur' \in Thr /\ intr' \in BOOLEAN /\ mode' \in {"thread", "sched", "wild"}
      /\ loop' \in Thr /\ sctx' \in Thr
      /\ last' \in [Thr -> Thr \cup {UNINIT}]
      /\ \A s \in Slot : status'[s] \in {st[s], "RUNNING"}
  <2>1. sctx \in Thr
    BY DEF MachineTypeOK
  <2> HIDE DEF Thr, UNINIT, NULL
  <2> QED
    BY <1>1, <1>2, <2>1, RunType
<1> HIDE DEF st, cx
<1>4. counter' \in [Slot -> INT_MIN .. INT_MAX]
  BY ChargeType
<1> QED
  BY <1>1, <1>3, <1>4 DEF MachineTypeOK, Mode

LEMMA TickType ==
  ASSUME MachineTypeOK, Tick
  PROVE  /\ MachineTypeOK' /\ mode' # "hang"
         /\ \A s \in Slot : status'[s] = "SLEEPING" => status[s] = "SLEEPING" /\ s # cur
<1>1. PICK t \in Choice(sctx, Put(status, cur, "READY"), Charge(cur)) :
         Run(sctx, t, Put(status, cur, "READY"), Put(ctx, cur, "trap"), FALSE)
  BY DEF Tick, Yielded
<1>2. counter' = Charge(cur) /\ UNCHANGED spin /\ cur \in Thr
  BY DEF Tick, MachineTypeOK
<1> QED
  BY <1>1, <1>2, PreemptType

LEMMA TickInLoopType ==
  ASSUME MachineTypeOK, TickInLoop
  PROVE  /\ MachineTypeOK' /\ mode' # "hang"
         /\ \A s \in Slot : status'[s] = "SLEEPING" => status[s] = "SLEEPING"
<1>1. CASE TickInSavedLoop
  <2>1. PICK t \in ({cur} \cup Choice(loop, status, counter)) \ {UNINIT} :
           cur' = t /\ status' = Put(status, t, "READY") /\ counter' = Charge(t)
    BY <1>1 DEF TickInSavedLoop
  <2>2. t \in Thr
    BY <2>1, ChoiceType DEF MachineTypeOK
  <2>3. counter' \in [Slot -> INT_MIN .. INT_MAX]
    BY <2>1, <2>2, ChargeType
  <2>4. /\ status' \in [Slot -> Status]
        /\ \A s \in Slot : status'[s] = "SLEEPING" => status[s] = "SLEEPING"
    BY <2>1, <2>2 DEF Put, MachineTypeOK, Status
  <2> QED
    BY <1>1, <2>1, <2>2, <2>3, <2>4 DEF TickInSavedLoop, MachineTypeOK, Mode
<1>2. CASE TickInCalledLoop
  <2>1. PICK t \in Choice(sctx, Put(status, cur, "READY"), Charge(cur)) :
           Run(sctx, t, Put(status, cur, "READY"), Put(ctx, cur, "loop"), FALSE)
    BY <1>2 DEF TickInCalledLoop, Yielded
  <2>2. counter' = Charge(cur) /\ UNCHANGED spin /\ cur \in Thr
    BY <1>2 DEF TickInCalledLoop, MachineTypeOK
  <2> QED
    BY <2>1, <2>2, PreemptType
<1>3. CASE TickInCalledLoopLate
  <2>1. PICK c \in Choice(loop, status, counter) \ {UNINIT, NULL} :
           /\ counter' = Charge(c)
           /\ \E t \in Choice(sctx, [status EXCEPT ![c] = "READY"], Charge(c)) :
                Run(sctx, t, [status EXCEPT ![c] = "READY"], [ctx EXCEPT ![c] = "stale"], FALSE)
    BY <1>3 DEF TickInCalledLoopLate
  <2>2. c \in Thr /\ UNCHANGED spin
    <3>1. loop \in Thr /\ UNCHANGED spin
      BY <1>3 DEF MachineTypeOK, TickInCalledLoopLate
    <3> QED
      BY <2>1, <3>1, ChoiceType
  <2>3. PICK t \in Choice(sctx, Put(status, c, "READY"), Charge(c)) :
           Run(sctx, t, Put(status, c, "READY"), Put(ctx, c, "stale"), FALSE)
    BY <2>1 DEF Put
  <2> QED
    BY <2>1, <2>2, <2>3, PreemptType
<1> QED
  BY <1>1, <1>2, <1>3 DEF TickInLoop

\* Nobody falls asleep in a step.
NoneFallsAsleep == \A s \in Slot : status'[s] = "SLEEPING" => status[s] = "SLEEPING"

LEMMA TimerType ==
  ASSUME NEW Labels, ClientTypeOK(Labels), Timer
  PROVE  /\ ClientTypeOK(Labels)' /\ UNCHANGED <<pc, made, spin>> /\ mode' # "hang"
         /\ NoneFallsAsleep
         /\ \/ mode = "sched"
            \/ mode = "thread" /\ intr /\ (cur \in Slot => status'[cur] # "SLEEPING")
<1>1. MachineTypeOK' /\ mode' # "hang" /\ NoneFallsAsleep
  BY TickType, TickInLoopType DEF Timer, ClientTypeOK, NoneFallsAsleep
<1>2. UNCHANGED <<pc, made, spin>>
  BY DEF Timer, Tick, TickInLoop, TickInSavedLoop, TickInCalledLoop, TickInCalledLoopLate
<1>3. \/ mode = "sched"
      \/ mode = "thread" /\ intr /\ (cur \in Slot => status'[cur] # "SLEEPING")
  <2>1. CASE Tick
    <3>1. mode = "thread" /\ intr
      BY <2>1 DEF Tick
    <3> QED
      BY <2>1, <3>1, TickType DEF ClientTypeOK
  <2>2. CASE TickInLoop
    BY <2>2 DEF TickInLoop, TickInSavedLoop, TickInCalledLoop, TickInCalledLoopLate
  <2> QED
    BY <2>1, <2>2 DEF Timer
<1> QED
  BY <1>1, <1>2, <1>3 DEF ClientTypeOK

LEMMA ScheduleType ==
  ASSUME NEW Labels, ClientTypeOK(Labels), Schedule
  PROVE  /\ ClientTypeOK(Labels)' /\ UNCHANGED <<pc, made, spin>> /\ mode' # "hang"
         /\ NoneFallsAsleep /\ mode = "sched"
<1>1. MachineTypeOK' /\ mode' # "hang" /\ NoneFallsAsleep
  BY DispatchType DEF Schedule, ClientTypeOK, NoneFallsAsleep
<1>2. UNCHANGED <<pc, made, spin>> /\ mode = "sched"
  BY DEF Schedule, Dispatch
<1> QED
  BY <1>1, <1>2 DEF ClientTypeOK

LEMMA BootType ==
  ASSUME NEW Labels, ClientTypeOK(Labels), BootCreate \/ BootReturn
  PROVE  /\ ClientTypeOK(Labels)' /\ UNCHANGED <<pc, spin>> /\ mode' # "hang"
         /\ NoneFallsAsleep /\ mode = "thread" /\ cur = NULL
<1> USE DEF ClientTypeOK, MachineTypeOK, NoneFallsAsleep
<1>1. CASE BootCreate
  <2>1. made \in Slot /\ made' \in 0 .. THRQUESIZE
    BY <1>1, SlotsAssumption DEF BootCreate, Slot
  <2>2. DEFAULT_COUNTER \in INT_MIN .. INT_MAX
    BY IntAssumption
  <2> QED
    BY <1>1, <2>1, <2>2 DEF BootCreate, Create, Status, Context
<1>2. CASE BootReturn
  BY <1>2 DEF BootReturn, Stop, kept, Mode
<1> QED
  BY <1>1, <1>2

LEMMA ExitType ==
  ASSUME NEW Labels, "left" \in Labels, ClientTypeOK(Labels), ExitMark \/ ExitSwitch
  PROVE  /\ ClientTypeOK(Labels)' /\ UNCHANGED <<spin, made, cur>> /\ mode' # "hang"
         /\ NoneFallsAsleep
         /\ \/ /\ At("exit") /\ pc' = [pc EXCEPT ![cur] = "left"] /\ mode' = mode
               /\ status'[cur] # "SLEEPING"
            \/ At("left") /\ pc' = pc
<1> USE DEF ClientTypeOK, MachineTypeOK, NoneFallsAsleep
<1>1. CASE ExitMark
  <2>1. cur \in Slot
    BY <1>1, AtSlot DEF ExitMark
  <2> QED
    BY <1>1, <2>1 DEF ExitMark, Die, Goto, kept, Status, At
<1>2. CASE ExitSwitch
  <2>1. cur \in Slot
    BY <1>2, AtSlot DEF ExitSwitch
  <2> QED
    BY <1>2, <2>1 DEF ExitSwitch, Leave, Put, Context, Mode, At
<1> QED
  BY <1>1, <1>2

\* No step of the clients' common code takes or frees a lock, or spins, or
\* puts a thread to sleep; and the code of a thread only gets from "exit" to
\* "left".
LEMMA ClientStepType ==
  ASSUME NEW Labels, "left" \in Labels, ClientTypeOK(Labels), ClientStep
  PROVE  /\ ClientTypeOK(Labels)' /\ UNCHANGED spin /\ mode' # "hang"
         /\ NoneFallsAsleep
         /\ \/ mode = "sched" /\ pc' = pc
            \/ mode = "thread" /\ cur = NULL /\ pc' = pc
            \/ /\ mode = "thread" /\ intr /\ pc' = pc
               /\ cur \in Slot => status'[cur] # "SLEEPING"
            \/ At("left") /\ pc' = pc /\ cur' = cur
            \/ /\ At("exit") /\ pc' = [pc EXCEPT ![cur] = "left"] /\ cur' = cur
               /\ mode' = mode /\ status'[cur] # "SLEEPING"
<1>1. CASE BootCreate \/ BootReturn
  BY <1>1, BootType
<1>2. CASE ExitMark \/ ExitSwitch
  BY <1>2, ExitType
<1>3. CASE Timer
  BY <1>3, TimerType
<1>4. CASE Schedule
  BY <1>4, ScheduleType
<1> QED
  BY <1>1, <1>2, <1>3, <1>4 DEF ClientStep
==============================================================================
