---------------------------- MODULE ThreadsProofs ----------------------------
(***************************************************************************)
(* Theorems about Threads, for any number of slots, any quantum and any    *)
(* width of the counters.                                                  *)
(***************************************************************************)
EXTENDS Threads, TLAPS

(***************************************************************************)
(* Only the home loop exists: no client of Threads calls thrSched.         *)
(***************************************************************************)
HomeLoop == /\ loop = NULL /\ sctx = NULL
            /\ last[NULL] \in Thr
            /\ \A s \in Slot : ctx[s] # "loop"

Typed == TypeOK /\ HomeLoop

USE DEF Thr, NULL, UNINIT

\* The scheduler loop chooses a ready thread with the most ticks left, or
\* keeps its old choice when no ready thread has any (thrSched).
LEMMA ChoiceIsFair ==
  ASSUME NEW lp, NEW st, NEW ctr \in [Slot -> Int], NEW t \in Choice(lp, st, ctr)
  PROVE  \/ /\ t \in Slot /\ st[t] = "READY" /\ ctr[t] > 0
            /\ \A u \in Slot : st[u] = "READY" => ctr[u] <= ctr[t]
         \/ /\ t = last[lp]
            /\ \A u \in Slot : st[u] = "READY" => ctr[u] <= 0
BY DEF Choice, Best, Eligible, Slot

\* A charged counter stays an int (thrYeild).
LEMMA ChargeType ==
  ASSUME counter \in [Slot -> INT_MIN .. INT_MAX], NEW t \in Thr
  PROVE  Charge(t) \in [Slot -> INT_MIN .. INT_MAX]
BY IntAssumption, SlotsAssumption DEF Charge, Slot

\* Giving the CPU to a thread keeps the types (ctxSwitch, thrSched).
LEMMA RunType ==
  ASSUME Typed,
         NEW t \in Thr, NEW st \in [Slot -> Status], NEW cx \in [Slot -> Context],
         NEW if \in BOOLEAN,
         \A s \in Slot : cx[s] # "loop",
         Run(NULL, t, st, cx, if)
  PROVE  /\ status' \in [Slot -> Status] /\ ctx' \in [Slot -> Context]
         /\ cur' \in Thr /\ intr' \in BOOLEAN /\ mode' \in Mode
         /\ last' \in [Thr -> Thr \cup {UNINIT}]
         /\ HomeLoop'
<1>1. last \in [Thr -> Thr \cup {UNINIT}] /\ NULL \in Thr
  BY DEF Typed, TypeOK, MachineTypeOK
<1>2. t # UNINIT
  BY SlotsAssumption DEF Slot
<1>3. cur' = t /\ sctx' = NULL /\ last' = [last EXCEPT ![NULL] = t]
  BY <1>2 DEF Run
<1>4. last' \in [Thr -> Thr \cup {UNINIT}] /\ last'[NULL] \in Thr
  BY <1>1, <1>3
<1>5. loop' = NULL /\ mode' \in Mode /\ intr' \in BOOLEAN
  BY <1>2 DEF Run, Mode
<1>6. \/ status' = st /\ ctx' = cx
      \/ t \in Slot /\ status' = [st EXCEPT ![t] = "RUNNING"] /\ ctx' = [cx EXCEPT ![t] = "stale"]
  BY <1>2 DEF Run
<1>7. "RUNNING" \in Status /\ "stale" \in Context /\ "stale" # "loop"
  BY DEF Status, Context
<1>8. status' \in [Slot -> Status] /\ ctx' \in [Slot -> Context] /\ \A s \in Slot : ctx'[s] # "loop"
  BY <1>6, <1>7
<1> QED
  BY <1>3, <1>4, <1>5, <1>8 DEF HomeLoop

LEMMA TypedInit == Init => Typed
BY SlotsAssumption, IntAssumption
DEF Init, MachineInit, Typed, TypeOK, MachineTypeOK, HomeLoop, Status, Context,
    Mode, PC, Slot

LEMMA TypedNext == Typed /\ [Next]_vars => Typed'
<1> SUFFICES ASSUME Typed, [Next]_vars PROVE Typed'
  OBVIOUS
<1> USE DEF Typed, TypeOK, MachineTypeOK, HomeLoop
<1>1. CASE CreateScan
  BY <1>1 DEF CreateScan, At, Goto, PC, machine
<1>2. CASE CreateCommit
  <2>1. DEFAULT_COUNTER \in INT_MIN .. INT_MAX
    BY IntAssumption
  <2> QED
    BY <1>2, <2>1 DEF CreateCommit, Create, At, PC, Status, Context
<1>3. CASE Kill
  BY <1>3 DEF Kill, At, Status
<1>4. CASE ExitMark
  BY <1>4 DEF ExitMark, Die, At, Goto, Status, PC
<1>5. CASE ExitSwitch
  BY <1>5 DEF ExitSwitch, At, Leave, Put, Context, Mode
<1>6. CASE BeginPrintf
  BY <1>6 DEF BeginPrintf, At, Goto, Lock, PC, Mode, SpinLocks
<1>7. CASE EndPrintf
  BY <1>7 DEF EndPrintf, At, Goto, Unlock, PC, Mode, SpinLocks
<1>8. CASE BootHalt
  BY <1>8 DEF BootHalt, Stop, At, Mode
<1>9. CASE Timer
  <2>1. CASE Tick
    <3>1. PICK t \in Choice(sctx, Yielded, Charge(cur)) :
                 Run(sctx, t, Yielded, Put(ctx, cur, "trap"), FALSE)
      BY <2>1 DEF Tick
    <3>2. Yielded \in [Slot -> Status] /\ Put(ctx, cur, "trap") \in [Slot -> Context]
      BY DEF Yielded, Put, Status, Context
    <3>3. \A s \in Slot : Put(ctx, cur, "trap")[s] # "loop"
      BY DEF Put
    <3>4. Charge(cur) \in [Slot -> INT_MIN .. INT_MAX]
      BY ChargeType
    <3>5. t \in Thr
      BY <3>1, <3>4, ChoiceIsFair, IntAssumption
    <3>6. /\ status' \in [Slot -> Status] /\ ctx' \in [Slot -> Context]
          /\ cur' \in Thr /\ intr' \in BOOLEAN /\ mode' \in Mode
          /\ last' \in [Thr -> Thr \cup {UNINIT}]
          /\ HomeLoop'
      BY <3>1, <3>2, <3>3, <3>5, RunType
    <3> QED
      BY <1>9, <2>1, <3>4, <3>6 DEF Timer, Tick
  <2>2. CASE TickInSavedLoop
    <3>1. PICK t \in ({cur} \cup Choice(loop, status, counter)) \ {UNINIT} :
             /\ cur' = t /\ status' = Put(status, t, "READY") /\ counter' = Charge(t)
      BY <2>2 DEF TickInSavedLoop
    <3>2. t \in Thr
      BY <3>1, ChoiceIsFair, IntAssumption
    <3> QED
      BY <1>9, <2>2, <3>1, <3>2, ChargeType DEF Timer, TickInSavedLoop, Put, Status, Mode
  <2> QED
    BY <1>9, <2>1, <2>2 DEF Timer
<1>10. CASE Schedule
  <2>1. PICK t \in Choice(loop, status, counter) : Run(loop, t, status, ctx, intr)
    BY <1>10 DEF Schedule, Dispatch
  <2>2. t \in Thr
    BY <2>1, ChoiceIsFair, IntAssumption
  <2>3. /\ status' \in [Slot -> Status] /\ ctx' \in [Slot -> Context]
        /\ cur' \in Thr /\ intr' \in BOOLEAN /\ mode' \in Mode
        /\ last' \in [Thr -> Thr \cup {UNINIT}]
        /\ HomeLoop'
    BY <2>1, <2>2, RunType
  <2> QED
    BY <1>10, <2>3 DEF Schedule, Dispatch
<1>11. CASE UNCHANGED vars
  BY <1>11 DEF vars, machine
<1> QED
  BY <1>1, <1>2, <1>3, <1>4, <1>5, <1>6, <1>7, <1>8, <1>9, <1>10, <1>11 DEF Next

(***************************************************************************)
(* Every variable keeps its type, whoever creates threads; in particular   *)
(* a counter that passes the end of its int wraps and stays one.           *)
(***************************************************************************)
THEOREM TypeCorrect == Spec => []TypeOK
<1>1. Typed => TypeOK
  BY DEF Typed
<1> QED
  BY TypedInit, TypedNext, <1>1, PTL DEF Spec

------------------------------------------------------------------------------
(***************************************************************************)
(* The console lock.  ConsoleLockSafe is inductive: a tick needs           *)
(* interrupts on, so it never comes while the lock is held.                *)
(***************************************************************************)
LEMMA ConsoleLockInit == Init => ConsoleLockSafe
BY DEF Init, MachineInit, ConsoleLockSafe, SpinLocks

\* Giving the CPU to a thread never spins (thrSched).
LEMMA RunMode ==
  ASSUME NEW lp, NEW t, NEW st, NEW cx, NEW if, Run(lp, t, st, cx, if)
  PROVE  mode' \in {"thread", "sched", "wild"}
BY DEF Run

LEMMA ConsoleLockNext ==
  Typed /\ ConsoleLockSafe /\ [Next]_vars => ConsoleLockSafe'
<1> SUFFICES ASSUME Typed, ConsoleLockSafe, [Next]_vars PROVE ConsoleLockSafe'
  OBVIOUS
<1> USE DEF Typed, TypeOK, MachineTypeOK, ConsoleLockSafe
<1>0. "cslLock" \in SpinLocks
  BY DEF SpinLocks
<1>1. CASE CreateScan
  BY <1>1 DEF CreateScan, At, Goto, machine
<1>2. CASE CreateCommit
  BY <1>2 DEF CreateCommit, Create, At
<1>3. CASE Kill
  BY <1>3 DEF Kill, At
<1>4. CASE ExitMark
  BY <1>4 DEF ExitMark, Die, At, Goto
<1>5. CASE ExitSwitch
  BY <1>5, <1>0 DEF ExitSwitch, At, Leave
<1>6. CASE BeginPrintf
  BY <1>6, <1>0 DEF BeginPrintf, At, Goto, Lock
<1>7. CASE EndPrintf
  BY <1>7, <1>0 DEF EndPrintf, At, Goto, Unlock
<1>8. CASE BootHalt
  BY <1>8, <1>0 DEF BootHalt, Stop, At
<1>9. CASE Timer
  <2>1. intr /\ UNCHANGED <<spin, pc>>
    BY <1>9 DEF Timer, Tick, TickInSavedLoop
  <2>2. spin["cslLock"] # 1 /\ \A t \in Thr : pc[t] # "printf"
    BY <2>1, <1>0
  <2>3. mode' # "hang"
    BY <1>9, RunMode DEF Timer, Tick, TickInSavedLoop
  <2> QED
    BY <2>1, <2>2, <2>3
<1>10. CASE Schedule
  <2>1. mode = "sched" /\ UNCHANGED <<spin, pc>>
    BY <1>10 DEF Schedule, Dispatch
  <2>2. spin["cslLock"] # 1 /\ \A t \in Thr : pc[t] # "printf"
    BY <2>1, <1>0
  <2>3. mode' # "hang"
    BY <1>10, RunMode DEF Schedule, Dispatch
  <2> QED
    BY <2>1, <2>2, <2>3
<1>11. CASE UNCHANGED vars
  BY <1>11 DEF vars, machine
<1> QED
  BY <1>1, <1>2, <1>3, <1>4, <1>5, <1>6, <1>7, <1>8, <1>9, <1>10, <1>11 DEF Next

(***************************************************************************)
(* printf never blocks on a single CPU and is never interrupted by a tick  *)
(* while it holds the lock.                                                *)
(***************************************************************************)
THEOREM ConsoleLockCorrect == Spec => []ConsoleLockSafe
BY TypedInit, TypedNext, ConsoleLockInit, ConsoleLockNext, PTL DEF Spec

------------------------------------------------------------------------------
(***************************************************************************)
(* The scheduler, when only the boot code creates threads.  The inductive  *)
(* invariant.                                                              *)
(***************************************************************************)
\* The home loop's t is the thread it dispatched last, and a thread that has
\* entered the loop itself has exited.
LoopKnowsCur ==
  mode # "wild" => /\ last[NULL] = cur
                   /\ mode = "sched" => cur \in Slot /\ ctx[cur] = "exited"

\* The slot of an unfinished thrCreate is free; only the boot code creates.
Creating ==
  \A t \in Thr : pc[t] = "create" =>
    t = NULL /\ pend[t] \in Slot /\ status[pend[t]] = "UNUSED"

OnlyThreadsExit == pc[NULL] # "exit"

\* No tick has been charged while the boot code runs.
Unspent == \A s \in Slot : status[s] = "READY" => counter[s] = DEFAULT_COUNTER

\* The thread that runs was chosen for having the most ticks left, ...
Leads == counter[cur] > 0 /\ \A s \in Slot : status[s] = "READY" =>
           counter[s] <= counter[cur] /\ counter[cur] <= counter[s] + 1

\* ... or nobody else has any.
Alone == \A s \in Slot : status[s] = "READY" /\ s # cur => counter[s] = 0

\* What remains true of the others when the running thread has left.
Level == \A u, v \in Slot : status[u] = "READY" /\ status[v] = "READY" =>
           counter[u] <= counter[v] + 1

Shares ==
  /\ mode = "thread" /\ cur = NULL => Unspent
  /\ mode = "thread" /\ cur # NULL => Leads \/ Alone
  /\ mode = "sched" => Level
  /\ mode = "halt" => cur = NULL /\ Unspent
  /\ mode # "wild" => \A s \in Slot :
       status[s] = "READY" /\ s # cur => counter[s] >= 0
  /\ mode \in {"thread", "sched"} /\ cur \in Slot => status[cur] # "READY"


\* Only the thread that gets the CPU is touched (thrSched).
LEMMA RunFrame ==
  ASSUME NEW lp, NEW t \in Thr, NEW st \in [Slot -> Status],
         NEW cx \in [Slot -> Context], NEW if, Run(lp, t, st, cx, if)
  PROVE  /\ cur' = t /\ last' = [last EXCEPT ![lp] = t]
         /\ \A s \in Slot : s # t => status'[s] = st[s] /\ ctx'[s] = cx[s]
         /\ t \in Slot => status'[t] = "RUNNING"
<1>1. CASE t = NULL
  BY <1>1 DEF Run, Slot
<1>2. CASE t \in Slot
  <2>1. status' = [st EXCEPT ![t] = "RUNNING"] /\ ctx' = [cx EXCEPT ![t] = "stale"]
    BY <1>2 DEF Run, Slot
  <2>2. t # UNINIT
    BY <1>2 DEF Slot
  <2>3. cur' = t /\ last' = [last EXCEPT ![lp] = t]
    BY <2>2 DEF Run
  <2> QED
    BY <1>2, <2>1, <2>3
<1> QED
  BY <1>1, <1>2

\* A tick in a thread, as one step (thrYeild, thrSched).
LEMMA TickStep ==
  ASSUME Typed, Tick
  PROVE  \E t \in Thr :
           /\ cur' = t /\ last' = [last EXCEPT ![NULL] = t]
           /\ counter' = Charge(cur)
           /\ \A s \in Slot : s # t =>
                /\ status'[s] = Yielded[s]
                /\ ctx'[s] = Put(ctx, cur, "trap")[s]
           /\ t \in Slot => status'[t] = "RUNNING"
           /\ mode' \in {"thread", "wild"}
           /\ t \in Slot /\ Put(ctx, cur, "trap")[t] = "trap" => mode' = "thread"
           /\ \/ /\ t \in Slot /\ Yielded[t] = "READY" /\ counter'[t] > 0
                 /\ \A u \in Slot : Yielded[u] = "READY" => counter'[u] <= counter'[t]
              \/ /\ t = last[NULL]
                 /\ \A u \in Slot : Yielded[u] = "READY" => counter'[u] <= 0
<1> USE DEF Typed, TypeOK, MachineTypeOK, HomeLoop
<1>1. PICK t \in Choice(NULL, Yielded, Charge(cur)) :
             Run(NULL, t, Yielded, Put(ctx, cur, "trap"), FALSE)
  BY DEF Tick
<1>2. Charge(cur) \in [Slot -> INT_MIN .. INT_MAX] /\ counter' = Charge(cur)
  BY ChargeType DEF Tick
<1>3. Charge(cur) \in [Slot -> Int]
  BY <1>2, IntAssumption
<1>4. \/ /\ t \in Slot /\ Yielded[t] = "READY" /\ counter'[t] > 0
         /\ \A u \in Slot : Yielded[u] = "READY" => counter'[u] <= counter'[t]
      \/ /\ t = last[NULL]
         /\ \A u \in Slot : Yielded[u] = "READY" => counter'[u] <= 0
  BY <1>2, <1>3, <1>1, ChoiceIsFair
<1>5. t \in Thr
  BY <1>4
<1>6. Yielded \in [Slot -> Status] /\ Put(ctx, cur, "trap") \in [Slot -> Context]
  BY DEF Yielded, Put, Status, Context
<1>7. \A s \in Slot : Put(ctx, cur, "trap")[s] # "loop"
  BY DEF Put
<1>8. mode' \in {"thread", "wild"}
  BY <1>1, <1>5, <1>7 DEF Run
<1>9. t \in Slot /\ Put(ctx, cur, "trap")[t] = "trap" => mode' = "thread"
  BY <1>1 DEF Run, Slot
<1>10. /\ cur' = t /\ last' = [last EXCEPT ![NULL] = t]
       /\ \A s \in Slot : s # t =>
            status'[s] = Yielded[s] /\ ctx'[s] = Put(ctx, cur, "trap")[s]
       /\ t \in Slot => status'[t] = "RUNNING"
  BY <1>1, <1>5, <1>6, RunFrame
<1> QED
  BY <1>2, <1>4, <1>5, <1>8, <1>9, <1>10

\* One round of the home loop, as one step (thrSched).
LEMMA DispatchStep ==
  ASSUME Typed, Dispatch
  PROVE  \E t \in Thr :
           /\ cur' = t /\ last' = [last EXCEPT ![NULL] = t]
           /\ counter' = counter
           /\ \A s \in Slot : s # t => status'[s] = status[s] /\ ctx'[s] = ctx[s]
           /\ t \in Slot => status'[t] = "RUNNING"
           /\ mode' \in {"thread", "wild"}
           /\ t \in Slot /\ ctx[t] = "exited" => mode' = "wild"
           /\ \/ /\ t \in Slot /\ status[t] = "READY" /\ counter[t] > 0
                 /\ \A u \in Slot : status[u] = "READY" => counter[u] <= counter[t]
              \/ /\ t = last[NULL]
                 /\ \A u \in Slot : status[u] = "READY" => counter[u] <= 0
<1> USE DEF Typed, TypeOK, MachineTypeOK, HomeLoop
<1>1. PICK t \in Choice(NULL, status, counter) : Run(NULL, t, status, ctx, intr)
  BY DEF Dispatch
<1>2. counter' = counter /\ counter \in [Slot -> Int]
  BY IntAssumption DEF Dispatch
<1>3. \/ /\ t \in Slot /\ status[t] = "READY" /\ counter[t] > 0
         /\ \A u \in Slot : status[u] = "READY" => counter[u] <= counter[t]
      \/ /\ t = last[NULL]
         /\ \A u \in Slot : status[u] = "READY" => counter[u] <= 0
  BY <1>1, <1>2, ChoiceIsFair
<1>4. t \in Thr
  BY <1>3
<1>5. mode' \in {"thread", "wild"} /\ (t \in Slot /\ ctx[t] = "exited" => mode' = "wild")
  BY <1>1, <1>4 DEF Run, Slot
<1>6. /\ cur' = t /\ last' = [last EXCEPT ![NULL] = t]
      /\ \A s \in Slot : s # t => status'[s] = status[s] /\ ctx'[s] = ctx[s]
      /\ t \in Slot => status'[t] = "RUNNING"
  BY <1>1, <1>4, RunFrame
<1> QED
  BY <1>2, <1>3, <1>4, <1>5, <1>6

LEMMA LoopInit == Init => LoopKnowsCur /\ OnlyThreadsExit /\ OneRunning
BY DEF Init, MachineInit, LoopKnowsCur, OnlyThreadsExit, OneRunning

\* The parts of the invariant that hold whoever creates threads.
LEMMA LoopNext ==
  Typed /\ LoopKnowsCur /\ OnlyThreadsExit /\ OneRunning /\ [Next]_vars
    => (LoopKnowsCur /\ OnlyThreadsExit /\ OneRunning)'
<1> SUFFICES ASSUME Typed, LoopKnowsCur, OnlyThreadsExit, OneRunning, [Next]_vars
             PROVE  (LoopKnowsCur /\ OnlyThreadsExit /\ OneRunning)'
  OBVIOUS
<1> USE DEF Typed, TypeOK, MachineTypeOK, LoopKnowsCur, OnlyThreadsExit, OneRunning
<1>1. CASE CreateScan
  BY <1>1 DEF CreateScan, At, Goto, machine
<1>2. CASE CreateCommit
  BY <1>2 DEF CreateCommit, Create, At, Slot
<1>3. CASE Kill
  BY <1>3 DEF Kill, At
<1>4. CASE ExitMark
  BY <1>4 DEF ExitMark, Die, At, Goto, Slot
<1>5. CASE ExitSwitch
  BY <1>5 DEF ExitSwitch, At, Leave, Put
<1>6. CASE BeginPrintf
  BY <1>6 DEF BeginPrintf, At, Goto, Lock
<1>7. CASE EndPrintf
  BY <1>7 DEF EndPrintf, At, Goto, Unlock
<1>8. CASE BootHalt
  BY <1>8 DEF BootHalt, Stop, At
<1>9. CASE Timer
  <2>1. CASE Tick
    <3>1. PICK t \in Thr :
            /\ cur' = t /\ last' = [last EXCEPT ![NULL] = t]
            /\ \A s \in Slot : s # t =>
                 status'[s] = Yielded[s] /\ ctx'[s] = Put(ctx, cur, "trap")[s]
            /\ mode' \in {"thread", "wild"}
      BY <2>1, TickStep
    <3>2. \A s \in Slot : Yielded[s] # "RUNNING" \/ s # cur
      BY DEF Yielded, Put, Slot
    <3>3. \A s \in Slot \ {cur} :
            Yielded[s] = status[s] /\ Put(ctx, cur, "trap")[s] = ctx[s]
      BY DEF Yielded, Put
    <3> QED
      BY <1>9, <3>1, <3>2, <3>3 DEF Timer
  <2>2. CASE TickInSavedLoop
    BY <1>9, <2>2 DEF Timer, TickInSavedLoop, Put
  <2> QED
    BY <1>9, <2>1, <2>2 DEF Timer
<1>10. CASE Schedule
  <2>1. mode = "sched" /\ Dispatch /\ UNCHANGED pc
    BY <1>10 DEF Schedule, Dispatch
  <2>2. PICK t \in Thr :
          /\ cur' = t /\ last' = [last EXCEPT ![NULL] = t]
          /\ \A s \in Slot : s # t => status'[s] = status[s] /\ ctx'[s] = ctx[s]
          /\ mode' \in {"thread", "wild"}
    BY <2>1, DispatchStep
  <2> QED
    BY <2>1, <2>2
<1>11. CASE UNCHANGED vars
  BY <1>11 DEF vars, machine
<1> QED
  BY <1>1, <1>2, <1>3, <1>4, <1>5, <1>6, <1>7, <1>8, <1>9, <1>10, <1>11 DEF Next

(***************************************************************************)
(* No two threads run at once, whoever creates threads.                    *)
(***************************************************************************)
THEOREM OneRunningCorrect == Spec => []OneRunning
<1> DEFINE I == Typed /\ LoopKnowsCur /\ OnlyThreadsExit /\ OneRunning
<1>1. Init => I
  BY TypedInit, LoopInit
<1>2. I /\ [Next]_vars => I'
  BY TypedNext, LoopNext
<1>3. I => OneRunning
  OBVIOUS
<1> QED
  BY <1>1, <1>2, <1>3, PTL DEF Spec

------------------------------------------------------------------------------
\* The slot of an unfinished thrCreate stays free, because only a created
\* thread is ever given a new status.
Reserved == Creating /\ (cur \in Slot => status[cur] # "UNUSED")

LEMMA ReservedNext ==
  ASSUME Spawners = {NULL}
  PROVE  Typed /\ LoopKnowsCur /\ Reserved /\ [Next]_vars => Reserved'
<1> SUFFICES ASSUME Typed, LoopKnowsCur, Reserved, [Next]_vars PROVE Reserved'
  OBVIOUS
<1> USE DEF Typed, TypeOK, MachineTypeOK, Reserved, Creating
<1>1. CASE CreateScan
  BY <1>1 DEF CreateScan, At, Goto, machine, Free, Slot
<1>2. CASE CreateCommit
  BY <1>2 DEF CreateCommit, Create, At, Slot
<1>3. CASE Kill
  BY <1>3 DEF Kill, At
<1>4. CASE ExitMark
  BY <1>4 DEF ExitMark, Die, At, Goto
<1>5. CASE ExitSwitch
  BY <1>5 DEF ExitSwitch, At, Leave
<1>6. CASE BeginPrintf
  BY <1>6 DEF BeginPrintf, At, Goto, Lock
<1>7. CASE EndPrintf
  BY <1>7 DEF EndPrintf, At, Goto, Unlock
<1>8. CASE BootHalt
  BY <1>8 DEF BootHalt, Stop, At
<1>9. CASE Timer
  <2>1. CASE Tick
    <3>1. PICK t \in Thr :
            /\ cur' = t
            /\ \A s \in Slot : s # t => status'[s] = Yielded[s]
            /\ t \in Slot => status'[t] = "RUNNING"
            /\ (t \in Slot /\ Yielded[t] = "READY") \/ t = last[NULL]
      BY <2>1, TickStep
    <3>2. \A s \in Slot : s # cur => Yielded[s] = status[s]
      BY DEF Yielded, Put
    <3>3. last[NULL] = cur
      BY <2>1 DEF Tick, LoopKnowsCur
    <3>4. \A s \in Slot : status[s] = "UNUSED" => status'[s] = "UNUSED"
      BY <3>1, <3>2, <3>3
    <3> QED
      BY <1>9, <3>1, <3>4 DEF Timer
  <2>2. CASE TickInSavedLoop
    <3>1. PICK t \in ({cur} \cup Choice(NULL, status, counter)) \ {UNINIT} :
             cur' = t /\ status' = Put(status, t, "READY")
      BY <2>2 DEF TickInSavedLoop, HomeLoop
    <3>2. t = cur \/ (t \in Slot /\ status[t] = "READY") \/ t = last[NULL]
      BY <3>1, ChoiceIsFair, IntAssumption
    <3>3. last[NULL] = cur
      BY <2>2 DEF TickInSavedLoop, LoopKnowsCur
    <3> QED
      BY <1>9, <3>1, <3>2, <3>3 DEF Timer, Put, Slot
  <2> QED
    BY <1>9, <2>1, <2>2 DEF Timer
<1>10. CASE Schedule
  <2>1. mode = "sched" /\ Dispatch /\ UNCHANGED <<pc, pend>>
    BY <1>10 DEF Schedule, Dispatch
  <2>2. PICK t \in Thr :
          /\ cur' = t
          /\ \A s \in Slot : s # t => status'[s] = status[s]
          /\ t \in Slot => status'[t] = "RUNNING"
          /\ (t \in Slot /\ status[t] = "READY") \/ t = last[NULL]
    BY <2>1, DispatchStep
  <2>3. last[NULL] = cur
    BY <2>1 DEF LoopKnowsCur
  <2> QED
    BY <2>1, <2>2, <2>3
<1>11. CASE UNCHANGED vars
  BY <1>11 DEF vars, machine
<1> QED
  BY <1>1, <1>2, <1>3, <1>4, <1>5, <1>6, <1>7, <1>8, <1>9, <1>10, <1>11 DEF Next

------------------------------------------------------------------------------
SchedInv == Typed /\ LoopKnowsCur /\ OnlyThreadsExit /\ OneRunning /\ Reserved /\ Shares

LEMMA SchedInit == Init => SchedInv
<1> SUFFICES ASSUME Init PROVE SchedInv
  OBVIOUS
<1>1. Typed /\ LoopKnowsCur /\ OnlyThreadsExit /\ OneRunning
  BY TypedInit, LoopInit
<1>2. Reserved
  BY DEF Init, MachineInit, Reserved, Creating, Slot
<1>3. Shares
  BY DEF Init, MachineInit, Shares, Unspent, Slot
<1> QED
  BY <1>1, <1>2, <1>3 DEF SchedInv

\* A tick keeps the sharing: the charged thread falls level with the others
\* or one below them, and the thread that takes over leads them.
LEMMA TickShares ==
  ASSUME SchedInv, Tick
  PROVE  Shares'
<1> USE DEF SchedInv, Typed, TypeOK, MachineTypeOK
<1>0. mode = "thread" /\ last[NULL] = cur
  BY DEF Tick, LoopKnowsCur
<1>1. PICK t \in Thr :
        /\ cur' = t /\ counter' = Charge(cur)
        /\ \A s \in Slot : s # t => status'[s] = Yielded[s]
        /\ t \in Slot => status'[t] = "RUNNING"
        /\ mode' \in {"thread", "wild"}
        /\ \/ /\ t \in Slot /\ Yielded[t] = "READY" /\ counter'[t] > 0
              /\ \A u \in Slot : Yielded[u] = "READY" => counter'[u] <= counter'[t]
           \/ /\ t = last[NULL]
              /\ \A u \in Slot : Yielded[u] = "READY" => counter'[u] <= 0
  BY TickStep
<1>2. /\ \A s \in Slot : s # cur => Yielded[s] = status[s] /\ counter'[s] = counter[s]
      /\ cur \in Slot => Yielded[cur] = "READY"
  BY <1>1 DEF Yielded, Put, Charge, Slot
<1>3. \A s \in Slot : counter[s] \in Int /\ counter'[s] \in Int
  <2>1. counter' \in [Slot -> INT_MIN .. INT_MAX]
    BY <1>1, ChargeType
  <2> QED
    BY <2>1, IntAssumption
<1>4. \A s \in Slot : status[s] = "READY" /\ s # cur => counter[s] >= 0
  BY <1>0 DEF Shares
<1>8. ASSUME t \in Slot, Leads' \/ Alone',
             \A s \in Slot : Yielded[s] = "READY" /\ s # t => counter'[s] >= 0
      PROVE  Shares'
  <2>1. /\ cur' = t /\ cur' # NULL /\ mode' \in {"thread", "wild"}
        /\ status'[t] = "RUNNING"
    BY <1>1, <1>8 DEF Slot
  <2>2. \A s \in Slot : status'[s] = "READY" /\ s # cur' => counter'[s] >= 0
    BY <1>1, <1>8
  <2> QED
    BY <1>8, <2>1, <2>2 DEF Shares
<1>5. CASE cur = NULL
  <2>1. \A s \in Slot : Yielded[s] = status[s] /\ counter'[s] = counter[s]
    BY <1>2, <1>5 DEF Slot
  <2>2. \A s \in Slot : Yielded[s] = "READY" => counter'[s] = DEFAULT_COUNTER
    BY <1>0, <1>5, <2>1 DEF Shares, Unspent
  <2>3. DEFAULT_COUNTER \in Int /\ DEFAULT_COUNTER > 0
    BY IntAssumption
  <2>4. CASE t \in Slot /\ Yielded[t] = "READY"
    <3>1. Leads'
      BY <1>1, <2>2, <2>3, <2>4 DEF Leads
    <3> QED
      BY <1>8, <2>2, <2>3, <2>4, <3>1
  <2>5. CASE t = NULL
    <3>1. Unspent'
      BY <1>1, <2>2, <2>5 DEF Unspent, Slot
    <3> QED
      BY <1>1, <2>2, <2>3, <2>5, <3>1 DEF Shares, Slot
  <2> QED
    BY <1>0, <1>1, <1>5, <2>4, <2>5
<1>6. CASE cur \in Slot /\ Leads
  <2>1. counter'[cur] = counter[cur] - 1 /\ counter'[cur] >= 0
    BY <1>1, <1>3, <1>6, IntAssumption DEF Leads, Charge, Slot
  <2>2. \A s \in Slot : Yielded[s] = "READY" =>
          /\ counter'[s] >= 0
          /\ counter[cur] - 1 <= counter'[s] /\ counter'[s] <= counter[cur]
    BY <1>2, <1>3, <1>4, <1>6, <2>1 DEF Leads
  <2>3. CASE t \in Slot /\ counter'[t] > 0 /\ Yielded[t] = "READY" /\
             \A u \in Slot : Yielded[u] = "READY" => counter'[u] <= counter'[t]
    <3>1. Leads'
      <4>1. \A s \in Slot : status'[s] = "READY" => s # t /\ Yielded[s] = "READY"
        BY <1>1
      <4>2. \A s \in Slot : Yielded[s] = "READY" => counter'[t] <= counter'[s] + 1
        BY <1>3, <1>6, <2>2, <2>3
      <4> QED
        BY <1>1, <2>3, <4>1, <4>2 DEF Leads
    <3> QED
      BY <1>8, <2>2, <2>3, <3>1
  <2>4. CASE t = cur /\ \A u \in Slot : Yielded[u] = "READY" => counter'[u] <= 0
    <3>1. \A s \in Slot : Yielded[s] = "READY" => counter'[s] = 0
      BY <1>3, <2>2, <2>4
    <3>2. Alone'
      BY <1>1, <3>1 DEF Alone
    <3> QED
      BY <1>6, <1>8, <2>4, <3>1, <3>2
  <2> QED
    BY <1>0, <1>1, <2>3, <2>4
<1>7. CASE cur \in Slot /\ Alone
  <2>1. \A s \in Slot : Yielded[s] = "READY" /\ s # cur => counter'[s] = 0
    BY <1>2, <1>7 DEF Alone
  <2>2. t = cur
    BY <1>0, <1>1, <2>1
  <2>3. Alone'
    BY <1>1, <2>1, <2>2 DEF Alone
  <2> QED
    BY <1>7, <1>8, <2>1, <2>2, <2>3
<1> QED
  BY <1>0, <1>5, <1>6, <1>7 DEF Shares

\* A thread that takes over after an exit leads the others; if none has ticks
\* left the loop runs the exited thread and the machine is lost.
LEMMA DispatchShares ==
  ASSUME SchedInv, Dispatch
  PROVE  Shares'
<1> USE DEF SchedInv, Typed, TypeOK, MachineTypeOK
<1>0. /\ mode = "sched" /\ last[NULL] = cur /\ cur \in Slot
      /\ ctx[cur] = "exited" /\ status[cur] # "READY" /\ Level
  BY DEF Dispatch, LoopKnowsCur, Shares
<1>1. PICK t \in Thr :
        /\ cur' = t /\ counter' = counter
        /\ \A s \in Slot : s # t => status'[s] = status[s]
        /\ t \in Slot => status'[t] = "RUNNING"
        /\ mode' \in {"thread", "wild"}
        /\ t \in Slot /\ ctx[t] = "exited" => mode' = "wild"
        /\ \/ /\ t \in Slot /\ status[t] = "READY" /\ counter[t] > 0
              /\ \A u \in Slot : status[u] = "READY" => counter[u] <= counter[t]
           \/ t = last[NULL]
  BY DispatchStep
<1>2. CASE t = cur
  BY <1>0, <1>1, <1>2 DEF Shares
<1>3. CASE /\ t \in Slot /\ status[t] = "READY" /\ counter[t] > 0
           /\ \A u \in Slot : status[u] = "READY" => counter[u] <= counter[t]
  <2>1. \A s \in Slot : status'[s] = "READY" => s # t /\ status[s] = "READY"
    BY <1>1
  <2>2. Leads'
    BY <1>0, <1>1, <1>3, <2>1 DEF Leads, Level
  <2>3. \A s \in Slot : status[s] = "READY" => counter[s] >= 0
    BY <1>0 DEF Shares
  <2> QED
    BY <1>1, <1>3, <2>1, <2>2, <2>3 DEF Shares, Slot
<1> QED
  BY <1>0, <1>1, <1>2, <1>3

LEMMA SharesNext ==
  ASSUME Spawners = {NULL}
  PROVE  SchedInv /\ [Next]_vars => Shares'
<1> SUFFICES ASSUME SchedInv, [Next]_vars PROVE Shares'
  OBVIOUS
<1> USE DEF SchedInv, Typed, TypeOK, MachineTypeOK, Shares, Unspent, Leads, Alone, Level
<1>0. \A s \in Slot : counter[s] \in Int
  BY IntAssumption
<1>1. CASE CreateScan
  BY <1>1 DEF CreateScan, machine
<1>2. CASE CreateCommit
  <2>1. cur = NULL /\ mode = "thread" /\ pend[NULL] \in Slot
    BY <1>2 DEF CreateCommit, Create, At, Reserved, Creating
  <2>2. Unspent'
    BY <1>2, <2>1 DEF CreateCommit, Create
  <2> QED
    BY <1>2, <2>1, <2>2, IntAssumption DEF CreateCommit, Create, Slot
<1>3. CASE Kill
  BY <1>0, <1>3 DEF Kill, At
<1>4. CASE ExitMark
  BY <1>0, <1>4 DEF ExitMark, Die, At, Slot
<1>5. CASE ExitSwitch
  <2>1. cur \in Slot /\ mode = "thread" /\ status[cur] # "READY"
    BY <1>5 DEF ExitSwitch, At, OnlyThreadsExit
  <2>2. Level
    BY <1>0, <2>1, <1>5 DEF ExitSwitch, At, Slot
  <2> QED
    BY <1>5, <2>1, <2>2 DEF ExitSwitch, Leave
<1>6. CASE BeginPrintf
  BY <1>6 DEF BeginPrintf, At, Lock
<1>7. CASE EndPrintf
  BY <1>7 DEF EndPrintf, At
<1>8. CASE BootHalt
  BY <1>8 DEF BootHalt, Stop, At
<1>9. CASE Timer
  <2>1. CASE Tick
    BY <2>1, TickShares
  <2>2. CASE TickInSavedLoop
    BY <2>2 DEF TickInSavedLoop
  <2> QED
    BY <1>9, <2>1, <2>2 DEF Timer
<1>10. CASE Schedule
  BY <1>10, DispatchShares DEF Schedule
<1>11. CASE UNCHANGED vars
  BY <1>11 DEF vars, machine
<1> QED
  BY <1>1, <1>2, <1>3, <1>4, <1>5, <1>6, <1>7, <1>8, <1>9, <1>10, <1>11 DEF Next

LEMMA SchedNext ==
  ASSUME Spawners = {NULL}
  PROVE  SchedInv /\ [Next]_vars => SchedInv'
BY TypedNext, LoopNext, ReservedNext, SharesNext DEF SchedInv

LEMMA SharesFair == SchedInv /\ ConsoleLockSafe => FairShare
<1> SUFFICES ASSUME SchedInv, ConsoleLockSafe, mode # "wild" PROVE FairShare
  BY DEF FairShare
<1>0. \A s \in Slot : counter[s] \in Int
  BY IntAssumption DEF SchedInv, Typed, TypeOK, MachineTypeOK
<1>1. CASE mode = "thread" /\ cur # NULL
  <2>1. Leads \/ Alone
    BY <1>1 DEF SchedInv, Shares
  <2>2. CASE Leads
    <3>1. Alive \subseteq Slot /\ \A u \in Alive : u = cur \/ status[u] = "READY"
      BY DEF Alive
    <3>2. \A u \in Alive : counter[u] <= counter[cur] /\ counter[cur] <= counter[u] + 1
      BY <1>0, <2>2, <3>1 DEF Leads
    <3>3. counter[cur] \in Int
      BY <1>0, <1>1 DEF SchedInv, Typed, TypeOK, MachineTypeOK
    <3>4. \A u, v \in Alive : counter[u] <= counter[v] + 1
      BY <1>0, <3>1, <3>2, <3>3
    <3> QED
      BY <3>4 DEF FairShare
  <2>3. CASE Alone
    BY <2>3 DEF FairShare, Alive, Alone
  <2> QED
    BY <2>1, <2>2, <2>3
<1>2. CASE mode \in {"thread", "halt"} /\ cur = NULL
  <2>1. Unspent
    BY <1>2 DEF SchedInv, Shares
  <2> QED
    BY <1>0, <1>2, <2>1 DEF FairShare, Alive, Unspent, Slot
<1>3. CASE mode = "sched"
  <2>1. Level
    BY <1>3 DEF SchedInv, Shares
  <2> QED
    BY <1>3, <2>1 DEF FairShare, Alive, Level
<1>4. mode \in {"thread", "sched", "halt"} /\ (mode = "halt" => cur = NULL)
  BY DEF SchedInv, Typed, TypeOK, MachineTypeOK, Mode, Shares, ConsoleLockSafe
<1> QED
  BY <1>1, <1>2, <1>3, <1>4

(***************************************************************************)
(* Round robin for any number of threads: whatever the threads do, the     *)
(* ticks left to those that compete never differ by more than one, until   *)
(* all but the one that runs have used up theirs.                          *)
(***************************************************************************)
THEOREM RoundRobinCorrect ==
  ASSUME Spawners = {NULL}
  PROVE  Spec => []FairShare
<1>1. SchedInv /\ [Next]_vars => SchedInv'
  BY SchedNext
<1> QED
  BY SchedInit, <1>1, SharesFair, ConsoleLockCorrect, PTL DEF Spec

------------------------------------------------------------------------------
LEMMA DeadStep ==
  ASSUME SchedInv, [Next]_vars
  PROVE  StayDead
<1> USE DEF SchedInv, Typed, TypeOK, MachineTypeOK, StayDead
<1>1. CASE CreateScan
  BY <1>1 DEF CreateScan, machine
<1>2. CASE CreateCommit
  BY <1>2 DEF CreateCommit, Create, At, Reserved, Creating
<1>3. CASE Kill
  BY <1>3 DEF Kill
<1>4. CASE ExitMark
  BY <1>4 DEF ExitMark, Die
<1>5. CASE ExitSwitch
  BY <1>5 DEF ExitSwitch, Leave
<1>6. CASE BeginPrintf
  BY <1>6 DEF BeginPrintf
<1>7. CASE EndPrintf
  BY <1>7 DEF EndPrintf
<1>8. CASE BootHalt
  BY <1>8 DEF BootHalt, Stop
<1>9. CASE Timer
  <2>1. CASE Tick
    <3>1. PICK t \in Thr :
            /\ \A s \in Slot : s # t => status'[s] = Yielded[s]
            /\ (t \in Slot /\ Yielded[t] = "READY") \/ t = last[NULL]
      BY <2>1, TickStep
    <3>2. \A s \in Slot : s # cur => Yielded[s] = status[s]
      BY DEF Yielded, Put
    <3>3. last[NULL] = cur
      BY <2>1 DEF Tick, LoopKnowsCur
    <3> QED
      BY <3>1, <3>2, <3>3
  <2>2. CASE TickInSavedLoop
    <3>1. PICK t \in ({cur} \cup Choice(NULL, status, counter)) \ {UNINIT} :
             status' = Put(status, t, "READY")
      BY <2>2 DEF TickInSavedLoop, HomeLoop
    <3>2. t = cur \/ (t \in Slot /\ status[t] = "READY") \/ t = last[NULL]
      BY <3>1, ChoiceIsFair, IntAssumption
    <3>3. last[NULL] = cur
      BY <2>2 DEF TickInSavedLoop, LoopKnowsCur
    <3> QED
      BY <3>1, <3>2, <3>3 DEF Put
  <2> QED
    BY <1>9, <2>1, <2>2 DEF Timer
<1>10. CASE Schedule
  <2>1. mode = "sched" /\ Dispatch
    BY <1>10 DEF Schedule, Dispatch
  <2>2. PICK t \in Thr :
          /\ \A s \in Slot : s # t => status'[s] = status[s]
          /\ (t \in Slot /\ status[t] = "READY") \/ t = last[NULL]
    BY <2>1, DispatchStep
  <2>3. last[NULL] = cur
    BY <2>1 DEF LoopKnowsCur
  <2> QED
    BY <2>1, <2>2, <2>3
<1>11. CASE UNCHANGED vars
  BY <1>11 DEF vars, machine
<1> QED
  BY <1>1, <1>2, <1>3, <1>4, <1>5, <1>6, <1>7, <1>8, <1>9, <1>10, <1>11 DEF Next

(***************************************************************************)
(* No step of the package brings back a dead thread that is not            *)
(* thr_current.                                                            *)
(***************************************************************************)
THEOREM DeadStaysDeadCorrect ==
  ASSUME Spawners = {NULL}
  PROVE  Spec => DeadStaysDead
<1>1. SchedInv /\ [Next]_vars => SchedInv'
  BY SchedNext
<1>2. SchedInv /\ [Next]_vars => [StayDead]_vars
  BY DeadStep
<1> QED
  BY SchedInit, <1>1, <1>2, PTL DEF Spec, DeadStaysDead

------------------------------------------------------------------------------
(***************************************************************************)
(* Threads implements RoundRobin, for any number of slots: the refinement  *)
(* mapping is the one of the instance Sharing in Threads.                  *)
(***************************************************************************)

Phase  == IF Lost THEN "lost" ELSE IF cur = NULL THEN "boot" ELSE "up"
Runner == IF mode = "thread" THEN cur ELSE NULL
Ready  == IF Lost THEN {} ELSE Waiting
Left   == [s \in Slot |-> IF ~Lost /\ s \in Alive THEN counter[s] ELSE 0]

Mapped == <<Phase, Runner, Ready, Left>>

USE DEF Phase, Runner, Ready, Left

\* Everything the proof needs of the inductive invariant.
Inv == SchedInv /\ ConsoleLockSafe

LEMMA MapInit == Init => Sharing!AbsInit
BY DEF Init, MachineInit, Sharing!AbsInit, Lost, Waiting, Alive, Slot

LEMMA MapLose ==
  ASSUME ~Lost, Lost'
  PROVE  Sharing!Lose
BY DEF Sharing!Lose, Lost

\* A step that keeps thr_current, the mode and the ready threads with their
\* ticks is a stutter.
LEMMA MapStutter ==
  ASSUME UNCHANGED <<mode, cur, Waiting, counter>>
  PROVE  UNCHANGED Mapped
BY DEF Mapped, Lost, Waiting, Alive

LEMMA MapCreate ==
  ASSUME Inv, CreateCommit
  PROVE  \E p \in Slot : Sharing!Admit(p)
<1> USE DEF Inv, SchedInv, Typed, TypeOK, MachineTypeOK
<1>1. PICK p \in Slot : p = pend[NULL]
  BY DEF CreateCommit, Create, At, Reserved, Creating
<1>2. /\ cur = NULL /\ mode = "thread" /\ status[p] = "UNUSED"
      /\ cur' = NULL /\ mode' = "thread" /\ ~Lost /\ ~Lost'
  BY <1>1 DEF CreateCommit, Create, At, Reserved, Creating, Lost
<1>3. Waiting' = Waiting \cup {p} /\ p \notin Waiting
  BY <1>1, <1>2 DEF CreateCommit, Create, Waiting
<1>4. Alive = Waiting /\ Alive' = Waiting'
  BY <1>2 DEF Alive, Waiting, Slot
<1>5. counter' = [counter EXCEPT ![p] = DEFAULT_COUNTER]
  BY <1>1, <1>2 DEF CreateCommit, Create
<1>6. Left' = [Left EXCEPT ![p] = DEFAULT_COUNTER]
  BY <1>2, <1>3, <1>4, <1>5
<1>7. Sharing!Admit(p)
  BY <1>2, <1>3, <1>6 DEF Sharing!Admit
<1> QED
  BY <1>7

LEMMA MapKill ==
  ASSUME Inv, Kill
  PROVE  (\E v \in Slot : Sharing!Withdraw(v)) \/ UNCHANGED Mapped
<1> USE DEF Inv, SchedInv, Typed, TypeOK, MachineTypeOK
<1>1. PICK v \in Slot : status' = [status EXCEPT ![v] = "ZOMBIE"]
  BY DEF Kill
<1>2. mode = "thread" /\ UNCHANGED <<mode, cur, counter>> /\ ~Lost /\ ~Lost'
  BY DEF Kill, At, Lost
<1>3. Waiting' = Waiting \ {v}
  BY <1>1 DEF Waiting
<1>4. CASE v \in Waiting
  <2>1. v # cur
    BY <1>2, <1>4 DEF Shares, Waiting
  <2>2. Alive' = Alive \ {v}
    BY <1>1, <1>2, <2>1 DEF Alive
  <2>3. Left' = [Left EXCEPT ![v] = 0]
    BY <1>2, <2>2
  <2> QED
    BY <1>2, <1>3, <1>4, <2>3 DEF Sharing!Withdraw
<1>5. CASE v \notin Waiting
  BY <1>2, <1>3, <1>5, MapStutter
<1> QED
  BY <1>4, <1>5

LEMMA MapExit ==
  ASSUME Inv, ExitSwitch
  PROVE  Sharing!Quit
<1> USE DEF Inv, SchedInv, Typed, TypeOK, MachineTypeOK
<1>1. /\ mode = "thread" /\ cur \in Slot /\ cur # NULL
      /\ mode' = "sched" /\ UNCHANGED <<cur, counter, status>>
  BY DEF ExitSwitch, At, Leave, OnlyThreadsExit, Slot
<1>2. Waiting' = Waiting /\ ~Lost /\ ~Lost'
  BY <1>1 DEF Waiting, Lost
<1>3. Alive' = Alive \ {cur}
  BY <1>1 DEF Alive, Shares
<1>4. Left' = [Left EXCEPT ![cur] = 0]
  BY <1>1, <1>2, <1>3
<1> QED
  BY <1>1, <1>2, <1>4 DEF Sharing!Quit

\* The next thread of a round, after an exit or after the boot code.
LEMMA MapStart ==
  ASSUME Inv, ~Lost, Runner = NULL, NEW t \in Slot,
         mode' = "thread", cur' = t, counter' = counter,
         \A s \in Slot : s # t => status'[s] = status[s], status'[t] = "RUNNING",
         status[t] = "READY", counter[t] > 0,
         \A u \in Slot : status[u] = "READY" => counter[u] <= counter[t]
  PROVE  Sharing!Start
<1>1. Waiting' = Waiting \ {t} /\ t \in Waiting
  BY DEF Waiting
<1>2. Alive = Waiting
  BY DEF Alive, Waiting, Slot
<1>3. Alive' = Waiting
  BY <1>1 DEF Alive, Waiting
<1>4. ~Lost' /\ t # NULL
  BY DEF Lost, Slot
<1>5. Left' = Left
  BY <1>2, <1>3, <1>4
<1>6. \A u \in Waiting : u \in Slot /\ Left[u] = counter[u]
  BY <1>2 DEF Waiting
<1>7. \A u \in Waiting : Left[u] <= Left[t]
  BY <1>1, <1>6 DEF Waiting
<1> QED
  BY <1>1, <1>4, <1>5, <1>6, <1>7 DEF Sharing!Start, Sharing!HandOver

\* A tick is a slice of the running thread, or of the boot code a start.
LEMMA MapTick ==
  ASSUME Inv, Tick
  PROVE  Sharing!Slice \/ Sharing!Start \/ Sharing!Lose \/ UNCHANGED Mapped
<1> USE DEF Inv, SchedInv, Typed, TypeOK, MachineTypeOK
<1>0. mode = "thread" /\ last[NULL] = cur /\ ~Lost /\ Runner = cur
  BY DEF Tick, LoopKnowsCur, Lost
<1>1. PICK t \in Thr :
        /\ cur' = t /\ counter' = Charge(cur)
        /\ \A s \in Slot : s # t => status'[s] = Yielded[s]
        /\ t \in Slot => status'[t] = "RUNNING"
        /\ mode' \in {"thread", "wild"}
        /\ \/ /\ t \in Slot /\ Yielded[t] = "READY" /\ counter'[t] > 0
              /\ \A u \in Slot : Yielded[u] = "READY" => counter'[u] <= counter'[t]
           \/ /\ t = last[NULL]
              /\ \A u \in Slot : Yielded[u] = "READY" => counter'[u] <= 0
  BY TickStep
<1>2. CASE mode' = "wild"
  BY <1>0, <1>2, MapLose DEF Lost
<1>3. CASE mode' = "thread" /\ cur = NULL
  <2>1. Yielded = status /\ counter' = counter
    BY <1>1, <1>3 DEF Yielded, Put, Charge
  <2>2. CASE t \in Slot /\ Yielded[t] = "READY"
    <3>1. /\ t \in Slot /\ status[t] = "READY" /\ counter[t] > 0
          /\ \A u \in Slot : status[u] = "READY" => counter[u] <= counter[t]
      <4>1. t # NULL
        BY <2>2 DEF Slot
      <4> QED
        BY <1>0, <1>1, <1>3, <2>1, <2>2, <4>1
    <3>2. Runner = NULL
      BY <1>0, <1>3
    <3>3. /\ \A s \in Slot : s # t => status'[s] = status[s]
          /\ status'[t] = "RUNNING" /\ cur' = t
      BY <1>1, <2>1, <2>2
    <3> QED
      BY <1>0, <1>3, <2>1, <3>1, <3>2, <3>3, MapStart
  <2>3. CASE t = NULL
    <3>1. \A s \in Slot : status'[s] = status[s]
      BY <1>1, <2>1, <2>3 DEF Slot
    <3>2. Waiting' = Waiting
      BY <3>1 DEF Waiting
    <3> QED
      BY <1>0, <1>1, <1>3, <2>1, <2>3, <3>2, MapStutter
  <2> QED
    BY <1>0, <1>1, <1>3, <2>2, <2>3
<1>4. CASE mode' = "thread" /\ cur \in Slot
  <2>1. t \in Slot /\ Yielded[t] = "READY"
    BY <1>0, <1>1, <1>4 DEF Yielded, Put, Slot
  <2>2. /\ ~Lost' /\ t # NULL /\ cur # NULL /\ Runner' = t /\ status[cur] # "READY"
        /\ Phase = "up" /\ Phase' = "up"
    BY <1>0, <1>1, <1>4, <2>1 DEF Lost, Slot, Shares
  <2>3. {s \in Slot : Yielded[s] = "READY"} = Waiting \cup {cur} /\ cur \notin Waiting
    BY <1>4, <2>2 DEF Yielded, Put, Waiting
  <2>4. Waiting' = (Waiting \cup {cur}) \ {t}
    BY <1>1, <2>1, <2>3 DEF Waiting
  <2>5. Alive = Waiting \cup {cur} /\ Alive' = Waiting \cup {cur}
    <3>1. t \in Waiting \cup {cur}
      BY <2>1, <2>3
    <3>2. Alive' = Waiting' \cup {t}
      BY <1>1, <1>4, <2>1 DEF Alive, Waiting
    <3>3. Alive = Waiting \cup {cur}
      BY <1>0, <1>4 DEF Alive, Waiting
    <3> QED
      BY <2>4, <3>1, <3>2, <3>3
  <2>6. counter' = [counter EXCEPT ![cur] = Sharing!Spent(counter[cur])]
    BY <1>1, <2>2 DEF Charge, Sharing!Spent
  <2>7. Left' = [Left EXCEPT ![cur] = Sharing!Spent(Left[cur])]
    <3>1. Left[cur] = counter[cur]
      BY <1>0, <1>4, <2>5
    <3>2. \A s \in Slot : Left[s] = IF s \in Alive THEN counter[s] ELSE 0
      BY <1>0
    <3>3. \A s \in Slot : Left'[s] = IF s \in Alive' THEN counter'[s] ELSE 0
      BY <2>2
    <3>4. \A s \in Slot :
            counter'[s] = IF s = cur THEN Sharing!Spent(counter[cur]) ELSE counter[s]
      BY <2>6
    <3> QED
      BY <1>4, <2>5, <3>1, <3>2, <3>3, <3>4
  <2>8. \A u \in Waiting \cup {cur} :
          u \in Slot /\ Yielded[u] = "READY" /\ Left'[u] = counter'[u]
    BY <2>2, <2>3, <2>5
  <2>9. CASE /\ counter'[t] > 0
             /\ \A u \in Slot : Yielded[u] = "READY" => counter'[u] <= counter'[t]
    <3>1. /\ t \in Ready \cup {Runner} /\ Left'[t] > 0
          /\ \A u \in Ready \cup {Runner} : Left'[u] <= Left'[t]
          /\ Ready' = (Ready \cup {Runner}) \ {t}
      BY <1>0, <2>1, <2>2, <2>3, <2>4, <2>8, <2>9
    <3> QED
      BY <1>0, <2>2, <2>7, <3>1 DEF Sharing!Slice, Sharing!HandOver
  <2>10. CASE t = cur /\ \A u \in Slot : Yielded[u] = "READY" => counter'[u] <= 0
    <3>1. /\ \A u \in Ready \cup {Runner} : Left'[u] <= 0
          /\ Ready' = Ready /\ Runner' = Runner
      BY <1>0, <2>2, <2>3, <2>4, <2>8, <2>10
    <3> QED
      BY <1>0, <2>2, <2>7, <3>1 DEF Sharing!Slice
  <2> QED
    BY <1>0, <1>1, <2>9, <2>10
<1> QED
  BY <1>1, <1>2, <1>3, <1>4

LEMMA MapSchedule ==
  ASSUME Inv, Dispatch
  PROVE  Sharing!Start \/ Sharing!Lose
<1> USE DEF Inv, SchedInv, Typed, TypeOK, MachineTypeOK
<1>0. /\ mode = "sched" /\ ~Lost /\ Runner = NULL
      /\ cur \in Slot /\ ctx[cur] = "exited" /\ last[NULL] = cur
  BY DEF Dispatch, LoopKnowsCur, Lost
<1>1. PICK t \in Thr :
        /\ cur' = t /\ counter' = counter
        /\ \A s \in Slot : s # t => status'[s] = status[s]
        /\ t \in Slot => status'[t] = "RUNNING"
        /\ mode' \in {"thread", "wild"}
        /\ t \in Slot /\ ctx[t] = "exited" => mode' = "wild"
        /\ \/ /\ t \in Slot /\ status[t] = "READY" /\ counter[t] > 0
              /\ \A u \in Slot : status[u] = "READY" => counter[u] <= counter[t]
           \/ t = last[NULL]
  BY DispatchStep
<1>2. CASE mode' = "wild"
  BY <1>0, <1>2, MapLose DEF Lost
<1>3. CASE mode' = "thread"
  BY <1>0, <1>1, <1>3, MapStart
<1> QED
  BY <1>1, <1>2, <1>3

LEMMA MapNext ==
  ASSUME Inv, [Next]_vars
  PROVE  [Sharing!AbsNext]_Mapped
<1> USE DEF Inv, SchedInv, Typed, TypeOK, MachineTypeOK
<1>1. CASE CreateScan
  BY <1>1, MapStutter DEF CreateScan, machine, Waiting
<1>2. CASE CreateCommit
  BY <1>2, MapCreate DEF Sharing!AbsNext
<1>3. CASE Kill
  BY <1>3, MapKill DEF Sharing!AbsNext
<1>4. CASE ExitMark
  <2>1. Waiting' = Waiting
    BY <1>4 DEF ExitMark, Die, At, Waiting, Shares
  <2> QED
    BY <1>4, <2>1, MapStutter DEF ExitMark, Die
<1>5. CASE ExitSwitch
  BY <1>5, MapExit DEF Sharing!AbsNext
<1>6. CASE BeginPrintf
  <2>1. spin["cslLock"] = 0
    BY <1>6 DEF BeginPrintf, At, ConsoleLockSafe, SpinLocks
  <2> QED
    BY <1>6, <2>1, MapStutter DEF BeginPrintf, Lock, Waiting
<1>7. CASE EndPrintf
  BY <1>7, MapStutter DEF EndPrintf, Waiting
<1>8. CASE BootHalt
  BY <1>8, MapLose DEF BootHalt, Stop, At, Lost, Sharing!AbsNext
<1>9. CASE Timer
  <2>1. CASE Tick
    BY <2>1, MapTick DEF Sharing!AbsNext
  <2>2. CASE TickInSavedLoop
    BY <2>2, MapLose DEF TickInSavedLoop, Lost, Sharing!AbsNext
  <2> QED
    BY <1>9, <2>1, <2>2 DEF Timer
<1>10. CASE Schedule
  BY <1>10, MapSchedule DEF Schedule, Sharing!AbsNext
<1>11. CASE UNCHANGED vars
  BY <1>11, MapStutter DEF vars, machine, Waiting
<1> QED
  BY <1>1, <1>2, <1>3, <1>4, <1>5, <1>6, <1>7, <1>8, <1>9, <1>10, <1>11 DEF Next

(***************************************************************************)
(* The thread package implements the round-robin scheduler RoundRobin for  *)
(* any number of slots and any quantum, when only the boot code creates    *)
(* threads.                                                                *)
(***************************************************************************)
THEOREM Refinement ==
  ASSUME Spawners = {NULL}
  PROVE  Spec => ImplementsRoundRobin
<1>1. SchedInv /\ [Next]_vars => SchedInv'
  BY SchedNext
<1>2. SchedInv /\ ConsoleLockSafe /\ [Next]_vars => [Sharing!AbsNext]_(Sharing!absvars)
  BY MapNext DEF Inv, Mapped, Sharing!absvars
<1> QED
  BY SchedInit, <1>1, <1>2, MapInit, ConsoleLockCorrect, PTL
  DEF Spec, ImplementsRoundRobin, Sharing!AbsSpec
==============================================================================
