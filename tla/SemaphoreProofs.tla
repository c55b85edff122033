----------------------------- MODULE SemaphoreProofs -----------------------------
(***************************************************************************)
(* A thread that waits on a semaphore never loses the CPU asleep, whatever *)
(* the number of threads; and with one taker for each semaphore, as in     *)
(* semTest, no count becomes negative.                                     *)
(***************************************************************************)
EXTENDS Semaphore, ClientProofs

\* A sleeper has the CPU and executes the code of its thread, and is not in
\* the switch of thrExit.
Asleep == \A t \in Slot : status[t] = "SLEEPING" => t = cur /\ mode # "sched" /\ pc[t] # "left"

Over(p) == p \in {"exit", "left"}

Unfinished == \A t \in Slot : ~Over(pc[t]) => round[t] < Rounds

\* The inductive invariant.
IInv == TypeOK /\ Asleep /\ Unfinished

\* One thread takes from each semaphore; others only add to it.
OneTaker == \A s, t \in Slot : Takes(s) = Takes(t) => s = t

\* What a thread knows of the counts: the one it is about to take from stays
\* positive, and what it has loaded was never negative.
Known == /\ count \in [Sem -> Nat]
         /\ idx \in Int
         /\ reg \in [Slot -> Int]
         /\ \A t \in Slot : /\ pc[t] = "load" => count[Takes(t)] > 0
                            /\ pc[t] = "store" => reg[t] > 0
                            /\ pc[t] = "upstore" => reg[t] >= 0

------------------------------------------------------------------------------
(* Threads that sleep *)

LEMMA InitInv == Init => IInv
<1> SUFFICES ASSUME Init PROVE IInv
  OBVIOUS
<1>1. ClientTypeOK({"start"})
  BY ClientInitType DEF Init
<1>2. \A t \in Slot : pc[t] = "start" /\ round[t] = 0 /\ status[t] = "UNUSED"
  BY DEF Init, ClientInit, MachineInit
<1>3. TypeOK
  BY <1>1, RoundsAssumption DEF ClientTypeOK, TypeOK, PC, Init, Sem
<1> QED
  BY <1>2, <1>3, RoundsAssumption DEF IInv, Asleep, Unfinished, Over

\* thr_current goes on from label p to label q within an iteration, and may
\* mark itself or spin.
LEMMA PassInv ==
  ASSUME IInv, NEW p, At(p), NEW q \in PC, Goto(q), ~Over(p), ~Over(q),
         UNCHANGED <<kept, made, round>>,
         status' \in [Slot -> Status], intr' \in BOOLEAN, spin' \in [SpinLocks -> {0, 1}],
         mode' \in {mode, "hang"},
         cv' \in [Slot -> Sem \cup {"none"}], DOMAIN count' = Sem,
         \A t \in Slot \ {cur} : status'[t] = "SLEEPING" => status[t] = "SLEEPING"
  PROVE  IInv'
<1>1. MachineTypeOK /\ pc \in [Slot -> PC] /\ made \in 0 .. THRQUESIZE
  BY DEF IInv, TypeOK
<1>2. cur \in Slot /\ pc[cur] = p /\ mode = "thread"
  BY <1>1, AtSlot
<1>3. cur' = cur /\ round' = round /\ pc' \in [Slot -> PC]
  BY <1>1 DEF kept, Goto
<1>4. \A t \in Slot : pc'[t] = IF t = cur THEN q ELSE pc[t]
  BY <1>1, <1>2 DEF Goto
<1>5. TypeOK'
  BY <1>1, <1>2, <1>3 DEF IInv, TypeOK, MachineTypeOK, kept, Mode
<1>6. Asleep'
  <2>1. ASSUME NEW t \in Slot, status'[t] = "SLEEPING"
        PROVE  t = cur' /\ mode' # "sched" /\ pc'[t] # "left"
    <3>1. t = cur
      BY <2>1 DEF IInv, Asleep
    <3> QED
      BY <1>2, <1>3, <1>4, <3>1 DEF Over
  <2> QED
    BY <2>1 DEF Asleep
<1>7. Unfinished'
  <2>1. ASSUME NEW t \in Slot, ~Over(pc'[t])
        PROVE  round'[t] < Rounds
    <3>1. ~Over(pc[t])
      BY <1>2, <1>4, <2>1
    <3> QED
      BY <1>3, <3>1 DEF IInv, Unfinished
  <2> QED
    BY <2>1 DEF Unfinished
<1> QED
  BY <1>5, <1>6, <1>7 DEF IInv

\* Steps that change neither the machine nor the bookkeeping of the semaphore.
LEMMA OwnInv ==
  ASSUME IInv, NEW p, At(p), NEW q \in PC, Goto(q), ~Over(p), ~Over(q),
         UNCHANGED <<kept, intr, mode, spin, made, status, cv, round>>, DOMAIN count' = Sem
  PROVE  IInv'
<1>1. /\ status \in [Slot -> Status] /\ intr \in BOOLEAN /\ spin \in [SpinLocks -> {0, 1}]
      /\ cv \in [Slot -> Sem \cup {"none"}]
  BY DEF IInv, TypeOK, MachineTypeOK
<1>2. /\ status' = status /\ intr' = intr /\ spin' = spin /\ cv' = cv /\ mode' = mode
      /\ UNCHANGED <<kept, made, round>>
  OBVIOUS
<1> QED
  BY <1>1, <1>2, PassInv

LEMMA DownTestInv == IInv /\ DownTest => IInv'
<1> SUFFICES ASSUME IInv, NEW p \in {"start", "test"}, At(p), DownTest PROVE IInv'
  BY DEF DownTest
<1> DEFINE q == IF Enough(count[Takes(cur)]) THEN "load" ELSE "park"
<1>1. /\ Goto(q) /\ UNCHANGED <<kept, intr, mode, spin, made, status, cv, round>>
      /\ UNCHANGED count
  BY DEF DownTest
<1>2. q \in PC /\ ~Over(p) /\ ~Over(q) /\ DOMAIN count = Sem
  BY DEF PC, Over, IInv, TypeOK
<1> HIDE DEF q
<1> QED
  BY <1>1, <1>2, OwnInv

\* Steps of one thread's code that leave the machine alone.
LEMMA PlainInv ==
  IInv /\ (DownLoad \/ DownStore \/ Put1 \/ LoadIdx \/ StoreIdx \/ Clear \/ UpLoad \/ UpStore)
    => IInv'
<1> SUFFICES ASSUME IInv, DownLoad \/ DownStore \/ Put1 \/ LoadIdx
                            \/ StoreIdx \/ Clear \/ UpLoad \/ UpStore
             PROVE  IInv'
  OBVIOUS
<1>1. PICK p \in PC, q \in PC :
         /\ Own(p, q) /\ UNCHANGED <<status, cv, round>> /\ DOMAIN count' = DOMAIN count
         /\ ~Over(p) /\ ~Over(q)
  <2> USE DEF PC, Over
  <2>1. CASE DownLoad
    BY <2>1 DEF DownLoad
  <2>2. CASE DownStore
    BY <2>2 DEF DownStore
  <2>3. CASE Put1
    BY <2>3 DEF Put1
  <2>4. CASE LoadIdx
    BY <2>4 DEF LoadIdx
  <2>5. CASE StoreIdx
    BY <2>5 DEF StoreIdx
  <2>6. CASE Clear
    BY <2>6 DEF Clear
  <2>7. CASE UpLoad
    BY <2>7 DEF UpLoad
  <2>8. CASE UpStore
    BY <2>8 DEF UpStore
  <2> QED
    BY <2>1, <2>2, <2>3, <2>4, <2>5, <2>6, <2>7, <2>8
<1>2. At(p) /\ Goto(q) /\ UNCHANGED <<kept, intr, mode, spin, made, status, cv, round>>
  BY <1>1 DEF Own
<1>3. DOMAIN count' = Sem
  BY <1>1 DEF IInv, TypeOK
<1> QED
  BY <1>1, <1>2, <1>3, OwnInv

LEMMA DownParkInv == IInv /\ DownPark => IInv'
<1> SUFFICES ASSUME IInv, DownPark PROVE IInv'
  OBVIOUS
<1>1. /\ At("park") /\ Goto("test") /\ UNCHANGED <<kept, made, round>>
      /\ UNCHANGED <<intr, mode, spin, count>>
      /\ status' = [status EXCEPT ![cur] = "SLEEPING"]
      /\ cv' = [cv EXCEPT ![cur] = Takes(cur)]
  BY DEF DownPark, Own
<1>2. /\ MachineTypeOK /\ cv \in [Slot -> Sem \cup {"none"}] /\ DOMAIN count = Sem
      /\ "test" \in PC /\ ~Over("park") /\ ~Over("test")
  BY DEF IInv, TypeOK, PC, Over
<1>3. cur \in Slot
  BY <1>1, <1>2, AtSlot
<1>4. /\ status' \in [Slot -> Status]
      /\ \A t \in Slot \ {cur} : status'[t] = "SLEEPING" => status[t] = "SLEEPING"
  BY <1>1, <1>2, <1>3 DEF MachineTypeOK, Status
<1>5. cv' \in [Slot -> Sem \cup {"none"}]
  BY <1>1, <1>2 DEF Takes, Sem
<1>6. intr' \in BOOLEAN /\ spin' \in [SpinLocks -> {0, 1}]
  BY <1>1, <1>2 DEF MachineTypeOK
<1> QED
  BY <1>1, <1>2, <1>4, <1>5, <1>6, PassInv

LEMMA ReportInv == IInv /\ Report => IInv'
<1> SUFFICES ASSUME IInv, Printf("print", "printing", "up"),
                    UNCHANGED <<count, cv, idx, full, reg, round>>
             PROVE  IInv'
  BY DEF Report
<1>1. /\ MachineTypeOK /\ "cslLock" \in SpinLocks /\ {"printing", "up"} \subseteq PC
      /\ ~Over("print") /\ ~Over("printing") /\ ~Over("up")
      /\ cv \in [Slot -> Sem \cup {"none"}] /\ DOMAIN count = Sem
      /\ status \in [Slot -> Status]
  BY DEF IInv, TypeOK, MachineTypeOK, PC, Over, SpinLocks
<1>2. CASE At("print") /\ Lock("cslLock") /\ Goto("printing") /\ UNCHANGED <<kept, status, made>>
  <2>1. /\ spin' \in [SpinLocks -> {0, 1}] /\ intr' \in BOOLEAN /\ mode' \in {mode, "hang"}
    BY <1>1, <1>2, LockType
  <2> QED
    BY <1>1, <1>2, <2>1, PassInv
<1>3. CASE /\ At("printing") /\ Unlock("cslLock") /\ Goto("up")
           /\ UNCHANGED <<kept, status, mode, made>>
  <2>1. spin' \in [SpinLocks -> {0, 1}] /\ intr' \in BOOLEAN
    BY <1>1, <1>3, UnlockType
  <2> QED
    BY <1>1, <1>3, <2>1, PassInv
<1> QED
  BY <1>2, <1>3 DEF Printf

LEMMA UpWakeInv == IInv /\ UpWake => IInv'
<1> SUFFICES ASSUME IInv, UpWake PROVE IInv'
  OBVIOUS
<1> DEFINE woken == {t \in Slot : status[t] = "SLEEPING" /\ cv[t] = Gives(cur)}
           q == IF Again(round'[cur]) THEN "test" ELSE "exit"
<1>1. /\ At("wake") /\ Goto(q) /\ UNCHANGED <<kept, intr, mode, spin, made, count>>
      /\ status' = [t \in Slot |-> IF t \in woken THEN "READY" ELSE status[t]]
      /\ cv' = [t \in Slot |-> IF t \in woken THEN "none" ELSE cv[t]]
      /\ round' = [round EXCEPT ![cur] = @ + 1]
  BY DEF UpWake
<1>2. /\ MachineTypeOK /\ pc \in [Slot -> PC] /\ cv \in [Slot -> Sem \cup {"none"}]
      /\ round \in [Slot -> 0 .. Rounds] /\ q \in PC
  BY DEF IInv, TypeOK, PC
<1>3. cur \in Slot /\ pc[cur] = "wake" /\ mode = "thread" /\ cur' = cur /\ mode' = mode
  BY <1>1, <1>2, AtSlot DEF kept
<1>4. \A t \in Slot : pc'[t] = IF t = cur THEN q ELSE pc[t]
  BY <1>1, <1>2, <1>3 DEF Goto
<1>5. /\ round[cur] \in 0 .. Rounds - 1 /\ round' \in [Slot -> 0 .. Rounds]
      /\ \A t \in Slot \ {cur} : round'[t] = round[t]
  BY <1>1, <1>2, <1>3, RoundsAssumption DEF IInv, Unfinished, Over
<1>6. /\ status' \in [Slot -> Status]
      /\ \A t \in Slot : status'[t] = "SLEEPING" => status[t] = "SLEEPING"
  BY <1>1, <1>2 DEF MachineTypeOK, Status
<1>7. cv' \in [Slot -> Sem \cup {"none"}]
  BY <1>1, <1>2
<1> HIDE DEF woken
<1>8. TypeOK'
  BY <1>1, <1>2, <1>3, <1>5, <1>6, <1>7 DEF IInv, TypeOK, MachineTypeOK, kept, Goto
<1>9. Asleep'
  BY <1>3, <1>4, <1>6 DEF IInv, Asleep
<1>10. Unfinished'
  BY <1>4, <1>5 DEF IInv, Unfinished, Over, Again
<1> QED
  BY <1>8, <1>9, <1>10 DEF IInv

\* The steps of the boot code, the timer and the scheduler, and of thrExit.
LEMMA StepInv == IInv /\ Step => IInv'
<1> SUFFICES ASSUME IInv, ClientStep, UNCHANGED <<count, cv, idx, full, reg, round>>
             PROVE  IInv'
  BY DEF Step
<1>1. ClientTypeOK(PC) /\ "left" \in PC
  BY DEF IInv, TypeOK, ClientTypeOK, PC
<1>2. /\ ClientTypeOK(PC)' /\ NoneFallsAsleep
      /\ \/ mode = "sched" /\ pc' = pc
         \/ mode = "thread" /\ cur = NULL /\ pc' = pc
         \/ /\ mode = "thread" /\ intr /\ pc' = pc
            /\ cur \in Slot => status'[cur] # "SLEEPING"
         \/ At("left") /\ pc' = pc /\ cur' = cur
         \/ /\ At("exit") /\ pc' = [pc EXCEPT ![cur] = "left"]
            /\ status'[cur] # "SLEEPING"
  BY <1>1, ClientStepType
<1>3. TypeOK'
  BY <1>2 DEF IInv, TypeOK, ClientTypeOK
<1>4. Asleep'
  <2>1. ASSUME NEW t \in Slot, status'[t] = "SLEEPING" PROVE FALSE
    <3>1. status[t] = "SLEEPING" /\ t = cur /\ mode # "sched" /\ pc[t] # "left"
      BY <1>2, <2>1 DEF NoneFallsAsleep, IInv, Asleep
    <3> QED
      BY <1>2, <2>1, <3>1 DEF At, Slot, NULL
  <2> QED
    BY <2>1 DEF Asleep
<1>5. Unfinished'
  <2>1. \A t \in Slot : ~Over(pc'[t]) => pc'[t] = pc[t]
    BY <1>1, <1>2 DEF Over, ClientTypeOK
  <2>2. round' = round
    OBVIOUS
  <2> QED
    BY <2>1, <2>2 DEF IInv, Unfinished
<1> QED
  BY <1>3, <1>4, <1>5 DEF IInv

LEMMA StutterInv == IInv /\ UNCHANGED vars => IInv'
<1> SUFFICES ASSUME IInv, UNCHANGED vars PROVE IInv'
  OBVIOUS
<1>1. UNCHANGED <<machine, pc, made, count, cv, round>>
  BY DEF vars
<1> QED
  BY <1>1 DEF IInv, TypeOK, MachineTypeOK, machine, Asleep, Unfinished

LEMMA NextInv == IInv /\ [Next]_vars => IInv'
BY DownTestInv, DownParkInv, PlainInv, ReportInv, UpWakeInv, StepInv, StutterInv DEF Next

------------------------------------------------------------------------------
(* Counts *)

LEMMA InitKnown == Init => Known
BY PlacesAssumption DEF Init, ClientInit, Known, Sem

\* Steps that leave alone what Known speaks of.
LEMMA KnownSame ==
  ASSUME Known, UNCHANGED <<count, idx, reg>>,
         \A t \in Slot : pc'[t] \in {"load", "store", "upstore"} => pc'[t] = pc[t]
  PROVE  Known'
BY DEF Known

\* Only thr_current's label changes.
LEMMA OwnLabel ==
  ASSUME IInv, NEW p, At(p), NEW q, Goto(q)
  PROVE  /\ cur \in Slot /\ pc[cur] = p
         /\ \A t \in Slot : pc'[t] = IF t = cur THEN q ELSE pc[t]
<1>1. MachineTypeOK /\ pc \in [Slot -> PC]
  BY DEF IInv, TypeOK
<1>2. cur \in Slot /\ pc[cur] = p
  BY <1>1, AtSlot
<1> QED
  BY <1>1, <1>2 DEF Goto

\* The semaphores each thread uses.
LEMMA SemaphoreOf == \A t \in Slot : Takes(t) \in Sem /\ Gives(t) \in Sem
BY DEF Takes, Gives, Sem

\* The test of thrSemDown, and its load and store.
LEMMA DownKnown ==
  ASSUME IInv, Known, OneTaker, DownTest \/ DownLoad \/ DownStore
  PROVE  Known'
<1>1. CASE DownTest
  <2> DEFINE q == IF Enough(count[Takes(cur)]) THEN "load" ELSE "park"
  <2>1. PICK p \in {"start", "test"} : At(p)
    BY <1>1 DEF DownTest
  <2>2. Goto(q) /\ UNCHANGED <<count, idx, reg>>
    BY <1>1 DEF DownTest
  <2>3. /\ cur \in Slot
        /\ \A t \in Slot : pc'[t] = IF t = cur THEN q ELSE pc[t]
    BY <2>1, <2>2, OwnLabel
  <2> QED
    BY <2>2, <2>3, SemaphoreOf DEF Known, Enough
<1>2. CASE DownLoad
  <2>1. At("load") /\ Goto("store") /\ reg' = [reg EXCEPT ![cur] = count[Takes(cur)]]
    BY <1>2 DEF DownLoad, Own
  <2>2. UNCHANGED <<count, idx>>
    BY <1>2 DEF DownLoad
  <2>3. /\ cur \in Slot /\ pc[cur] = "load"
        /\ \A t \in Slot : pc'[t] = IF t = cur THEN "store" ELSE pc[t]
    BY <2>1, OwnLabel
  <2>4. count[Takes(cur)] \in Nat /\ count[Takes(cur)] > 0
    BY <2>3, SemaphoreOf DEF Known
  <2>5. /\ reg' \in [Slot -> Int] /\ reg'[cur] = count[Takes(cur)]
        /\ \A t \in Slot \ {cur} : reg'[t] = reg[t]
    BY <2>1, <2>3, <2>4 DEF Known
  <2> QED
    BY <2>2, <2>3, <2>4, <2>5 DEF Known
<1>3. CASE DownStore
  <2> DEFINE q == IF Producer(cur) THEN "put" ELSE "loadidx"
  <2>1. At("store") /\ Goto(q) /\ count' = [count EXCEPT ![Takes(cur)] = reg[cur] - 1]
    BY <1>3 DEF DownStore, Own
  <2>2. UNCHANGED <<idx, reg>>
    BY <1>3 DEF DownStore
  <2>3. /\ cur \in Slot /\ pc[cur] = "store"
        /\ \A t \in Slot : pc'[t] = IF t = cur THEN q ELSE pc[t]
    BY <2>1, OwnLabel
  <2>4. Takes(cur) \in Sem /\ reg[cur] \in Int /\ reg[cur] > 0
    BY <2>3, SemaphoreOf DEF Known
  <2>5. /\ count' \in [Sem -> Nat]
        /\ \A s \in Sem \ {Takes(cur)} : count'[s] = count[s]
    BY <2>1, <2>4 DEF Known
  <2>6. \A t \in Slot \ {cur} : count'[Takes(t)] = count[Takes(t)]
    BY <2>3, <2>5, SemaphoreOf DEF OneTaker
  <2>7. pc'[cur] \notin {"load", "store", "upstore"}
    BY <2>3
  <2> HIDE DEF q
  <2> QED
    BY <2>2, <2>3, <2>5, <2>6, <2>7 DEF Known
<1> QED
  BY <1>1, <1>2, <1>3

\* The load and the store of thrSemUp.
LEMMA UpKnown ==
  ASSUME IInv, Known, UpLoad \/ UpStore
  PROVE  Known'
<1>1. CASE UpLoad
  <2>1. At("up") /\ Goto("upstore") /\ reg' = [reg EXCEPT ![cur] = count[Gives(cur)]]
    BY <1>1 DEF UpLoad, Own
  <2>2. UNCHANGED <<count, idx>>
    BY <1>1 DEF UpLoad
  <2>3. /\ cur \in Slot
        /\ \A t \in Slot : pc'[t] = IF t = cur THEN "upstore" ELSE pc[t]
    BY <2>1, OwnLabel
  <2>4. count[Gives(cur)] \in Nat
    BY <2>3, SemaphoreOf DEF Known
  <2>5. /\ reg' \in [Slot -> Int] /\ reg'[cur] = count[Gives(cur)]
        /\ \A t \in Slot \ {cur} : reg'[t] = reg[t]
    BY <2>1, <2>3, <2>4 DEF Known
  <2> QED
    BY <2>2, <2>3, <2>4, <2>5 DEF Known
<1>2. CASE UpStore
  <2>1. At("upstore") /\ Goto("wake") /\ count' = [count EXCEPT ![Gives(cur)] = reg[cur] + 1]
    BY <1>2 DEF UpStore, Own
  <2>2. UNCHANGED <<idx, reg>>
    BY <1>2 DEF UpStore
  <2>3. /\ cur \in Slot /\ pc[cur] = "upstore"
        /\ \A t \in Slot : pc'[t] = IF t = cur THEN "wake" ELSE pc[t]
    BY <2>1, OwnLabel
  <2>4. Gives(cur) \in Sem /\ reg[cur] \in Int /\ reg[cur] >= 0
    BY <2>3, SemaphoreOf DEF Known
  <2>5. /\ count' \in [Sem -> Nat]
        /\ \A s \in Sem : count'[s] = count[s] \/ count'[s] > 0
    BY <2>1, <2>4 DEF Known
  <2>6. \A t \in Slot : count[Takes(t)] > 0 => count'[Takes(t)] > 0
    BY <2>5, SemaphoreOf
  <2> QED
    BY <2>2, <2>3, <2>5, <2>6 DEF Known
<1> QED
  BY <1>1, <1>2

\* The accesses to idx.
LEMMA IdxKnown ==
  ASSUME IInv, Known, LoadIdx \/ StoreIdx
  PROVE  Known'
<1>1. CASE LoadIdx
  <2>1. /\ At("loadidx") /\ Goto("storeidx") /\ reg' = [reg EXCEPT ![cur] = idx]
        /\ UNCHANGED <<count, idx>>
    BY <1>1 DEF LoadIdx, Own
  <2>2. /\ cur \in Slot
        /\ \A t \in Slot : pc'[t] = IF t = cur THEN "storeidx" ELSE pc[t]
    BY <2>1, OwnLabel
  <2> QED
    BY <2>1, <2>2 DEF Known
<1>2. CASE StoreIdx
  <2> DEFINE q == IF Producer(cur) THEN "print" ELSE "clear"
  <2>1. /\ At("storeidx") /\ Goto(q) /\ UNCHANGED <<count, reg>>
        /\ idx' = IF Producer(cur) THEN reg[cur] + 1 ELSE reg[cur] - 1
    BY <1>2 DEF StoreIdx, Own
  <2>2. /\ cur \in Slot
        /\ \A t \in Slot : pc'[t] = IF t = cur THEN q ELSE pc[t]
    BY <2>1, OwnLabel
  <2>3. idx' \in Int
    BY <2>1, <2>2 DEF Known
  <2> QED
    BY <2>1, <2>2, <2>3 DEF Known
<1> QED
  BY <1>1, <1>2

\* Steps that neither load nor store a count or idx.
LEMMA OtherKnown ==
  ASSUME IInv, Known, DownPark \/ Put1 \/ Clear \/ Report \/ UpWake \/ Step
  PROVE  Known'
<1>1. UNCHANGED <<count, idx, reg>>
  BY DEF DownPark, Put1, Clear, Report, UpWake, Step
<1>2. \A t \in Slot : pc'[t] \in {"load", "store", "upstore"} => pc'[t] = pc[t]
  <2>1. ASSUME NEW p, At(p), NEW q, Goto(q), q \notin {"load", "store", "upstore"}
        PROVE  \A t \in Slot : pc'[t] \in {"load", "store", "upstore"} => pc'[t] = pc[t]
    BY <2>1, OwnLabel
  <2>2. CASE DownPark
    BY <2>1, <2>2 DEF DownPark, Own
  <2>3. CASE Put1
    BY <2>1, <2>3 DEF Put1, Own
  <2>4. CASE Clear
    BY <2>1, <2>4 DEF Clear, Own
  <2>5. CASE Report
    BY <2>1, <2>5 DEF Report, Printf
  <2>6. CASE UpWake
    <3>1. PICK q \in {"test", "exit"} : Goto(q)
      BY <2>6 DEF UpWake
    <3>2. At("wake")
      BY <2>6 DEF UpWake
    <3> QED
      BY <2>1, <3>1, <3>2
  <2>7. CASE Step
    <3>1. ClientTypeOK(PC) /\ "left" \in PC
      BY DEF IInv, TypeOK, ClientTypeOK, PC
    <3>2. pc' = pc \/ (At("exit") /\ Goto("left"))
      BY <2>7, <3>1, ClientStepType DEF Step, Goto
    <3> QED
      BY <2>1, <3>2
  <2> QED
    BY <2>2, <2>3, <2>4, <2>5, <2>6, <2>7
<1> QED
  BY <1>1, <1>2, KnownSame

LEMMA NextKnown ==
  ASSUME IInv, Known, OneTaker, [Next]_vars
  PROVE  Known'
<1>1. CASE UNCHANGED vars
  BY <1>1, KnownSame DEF vars
<1> QED
  BY <1>1, DownKnown, UpKnown, IdxKnown, OtherKnown DEF Next

------------------------------------------------------------------------------
(* The theorems *)

LEMMA Invariance == Spec => []IInv
BY InitInv, NextInv, PTL DEF Spec

\* Every variable keeps its type, and no thread goes through its loop more than
\* Rounds times.
THEOREM TypeCorrect == Spec => []TypeOK
<1>1. IInv => TypeOK
  BY DEF IInv
<1> QED
  BY <1>1, Invariance, PTL

\* A thread that thrSemDown marks SLEEPING is READY before another thread runs,
\* so the scan of thrSemUp finds nobody.
THEOREM SleeperHasCpuCorrect == Spec => []SleeperHasCpu
<1>1. IInv => SleeperHasCpu
  BY DEF IInv, Asleep, SleeperHasCpu
<1> QED
  BY <1>1, Invariance, PTL

\* With one producer and one consumer, as in semTest, a count that was found
\* positive is still positive when thrSemDown takes from it, whatever increments
\* are lost meanwhile.
THEOREM CountsCorrect ==
  ASSUME THRQUESIZE = 2
  PROVE  Spec => []CountsNotNegative
<1>1. OneTaker
  BY DEF OneTaker, Takes, Producer, Slot
<1>2. IInv /\ Known /\ [Next]_vars => Known'
  BY <1>1, NextKnown
<1>3. Known => CountsNotNegative
  BY DEF Known, CountsNotNegative
<1> QED
  BY <1>2, <1>3, InitKnown, Invariance, PTL DEF Spec

==============================================================================
