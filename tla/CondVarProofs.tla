----------------------------- MODULE CondVarProofs -----------------------------
(***************************************************************************)
(* The two clients of the condition variables, for any number of threads   *)
(* and any quantum.  Mutex: threads are kept apart, and no increment of    *)
(* mtxTest is lost, for any number of rounds.  CvTest: gtLock keeps        *)
(* threads apart, and waiters print complete changes, whoever changes.     *)
(***************************************************************************)
EXTENDS Mutex, CvTest, ClientProofs, FiniteSetTheorems

------------------------------------------------------------------------------
(* Mutex: the invariant *)

\* The lock inside the mutex belongs to thr_current, which is a thread.
InnerLock ==
  spin["gm.lk"] = 1 /\ mode # "hang" =>
    mode = "thread" /\ ~intr /\ cur \in Slot /\ pc[cur] \in {"test", "wait", "free"}

\* What the thread in the critical section has loaded is still true.
Loaded == \A s \in Slot : pc[s] = "store" => local[s] = globalTestVar

Unfinished == \A s \in Slot : pc[s] \notin {"exit", "left"} => round[s] < Rounds

\* The inductive invariant.
IInv == TypeOK /\ MutualExclusion /\ InnerLock /\ Loaded /\ Unfinished /\ NoLostUpdate

------------------------------------------------------------------------------
(* The iterations that have stored *)

\* There are at most as many as all iterations of all threads.
LEMMA DoneBound ==
  ASSUME NEW D \in SUBSET (Slot \X (0 .. Rounds - 1))
  PROVE  IsFiniteSet(D) /\ Cardinality(D) \in 0 .. Rounds * THRQUESIZE
<1> USE SlotsAssumption, RoundsAssumption
<1>1. IsFiniteSet(Slot) /\ Cardinality(Slot) = THRQUESIZE
  BY FS_Interval DEF Slot
<1>2. IsFiniteSet(0 .. Rounds - 1) /\ Cardinality(0 .. Rounds - 1) = Rounds
  BY FS_Interval
<1>3. /\ IsFiniteSet(Slot \X (0 .. Rounds - 1))
      /\ Cardinality(Slot \X (0 .. Rounds - 1)) = THRQUESIZE * Rounds
  BY <1>1, <1>2, FS_Product
<1>4. IsFiniteSet(D) /\ Cardinality(D) <= THRQUESIZE * Rounds
  BY <1>3, FS_Subset
<1>5. Cardinality(D) \in Nat
  BY <1>4, FS_CardinalityType
<1> QED
  BY <1>4, <1>5

\* One more iteration of thread s.
LEMMA DoneStep ==
  ASSUME NEW s \in Slot, Increments(s) \in 0 .. Rounds - 1,
         Increments(s)' = Increments(s) + 1,
         \A u \in Slot \ {s} : Increments(u)' = Increments(u)
  PROVE  Cardinality(Done') = Cardinality(Done) + 1
<1>1. <<s, Increments(s)>> \notin Done
  BY DEF Done
<1>2. Done' = Done \cup {<<s, Increments(s)>>}
  <2>1. ASSUME NEW u \in Slot, NEW r \in 0 .. Rounds - 1
        PROVE  <<u, r>> \in Done' <=> <<u, r>> \in Done \cup {<<s, Increments(s)>>}
    <3>1. CASE u = s
      BY <3>1 DEF Done
    <3>2. CASE u # s
      BY <3>2 DEF Done
    <3> QED
      BY <3>1, <3>2
  <2>2. Done' \subseteq Slot \X (0 .. Rounds - 1)
    BY DEF Done
  <2>3. Done \cup {<<s, Increments(s)>>} \subseteq Slot \X (0 .. Rounds - 1)
    BY DEF Done
  <2> QED
    BY <2>1, <2>2, <2>3
<1>3. IsFiniteSet(Done)
  BY DoneBound DEF Done
<1> QED
  BY <1>1, <1>2, <1>3, FS_AddElement

\* No more iteration of anybody.
LEMMA DoneSame ==
  ASSUME \A s \in Slot : Increments(s)' = Increments(s)
  PROVE  Done' = Done
<1>1. \A d \in Slot \X (0 .. Rounds - 1) : d[1] \in Slot
  OBVIOUS
<1> QED
  BY <1>1 DEF Done

------------------------------------------------------------------------------
(* Steps *)

\* What the labels of mfunc say about a thread.
Stored(p) == p \in {"print", "printing", "unlock", "free"}
Owns(p) == p \in {"load", "store"} \/ Stored(p)
Over(p) == p \in {"exit", "left"}

\* The thread that runs goes on to label q, on the same side of every border.
Passes(q) ==
  /\ cur \in Slot /\ q \in PC /\ pc' = [pc EXCEPT ![cur] = q] /\ q # "store"
  /\ Owns(q) <=> Owns(pc[cur])
  /\ Stored(q) <=> Stored(pc[cur])
  /\ Over(pc[cur]) => Over(q)

LEMMA Frame ==
  ASSUME IInv, UNCHANGED <<held, data>>, pc' = pc \/ \E q \in PC : Passes(q)
  PROVE  MutualExclusion' /\ Loaded' /\ Unfinished' /\ NoLostUpdate'
<1>1. pc \in [Slot -> PC] /\ UNCHANGED <<held, globalTestVar, local, round>>
  BY DEF IInv, TypeOK, data
<1>2. CASE pc' = pc
  <2>1. Done' = Done
    BY <1>1, <1>2, DoneSame DEF Increments
  <2> QED
    BY <1>1, <1>2, <2>1
       DEF IInv, MutualExclusion, Critical, Loaded, Unfinished, NoLostUpdate
<1>3. ASSUME NEW q \in PC, Passes(q)
      PROVE  MutualExclusion' /\ Loaded' /\ Unfinished' /\ NoLostUpdate'
  <2>1. /\ cur \in Slot /\ pc' = [pc EXCEPT ![cur] = q] /\ q # "store"
        /\ Owns(q) <=> Owns(pc[cur])
        /\ Stored(q) <=> Stored(pc[cur])
        /\ Over(pc[cur]) => Over(q)
    BY <1>3 DEF Passes
  <2>2. \A s \in Slot : pc'[s] = IF s = cur THEN q ELSE pc[s]
    BY <1>1, <2>1
  <2>3. \A s \in Slot : /\ Stored(pc'[s]) <=> Stored(pc[s])
                        /\ Owns(pc'[s]) <=> Owns(pc[s])
                        /\ Over(pc[s]) => Over(pc'[s])
    BY <2>1, <2>2
  <2>4. Done' = Done
    <3>1. \A s \in Slot : Increments(s)' = Increments(s)
      BY <1>1, <2>3 DEF Increments, Stored
    <3> QED
      BY <3>1, DoneSame
  <2>5. MutualExclusion'
    <3>1. \A s \in Slot : Critical(s)' <=> Critical(s)
      BY <2>3 DEF Critical, Owns, Stored
    <3> QED
      BY <1>1, <3>1 DEF IInv, MutualExclusion
  <2>6. Loaded'
    BY <1>1, <2>1, <2>2 DEF IInv, Loaded
  <2>7. Unfinished'
    <3>1. ASSUME NEW s \in Slot, ~Over(pc'[s])
          PROVE  round'[s] < Rounds
      <4>1. ~Over(pc[s])
        BY <2>3, <3>1
      <4> QED
        BY <1>1, <4>1 DEF IInv, Unfinished, Over
    <3> QED
      BY <3>1 DEF Unfinished, Over
  <2> QED
    BY <1>1, <2>4, <2>5, <2>6, <2>7 DEF IInv, NoLostUpdate
<1> QED
  BY <1>2, <1>3

LEMMA InitInv == Init => IInv
<1> SUFFICES ASSUME Init PROVE IInv
  OBVIOUS
<1> USE SlotsAssumption, RoundsAssumption
<1>1. ClientTypeOK({"start"})
  BY ClientInitType DEF Init, CvInit
<1>2. \A s \in Slot : pc[s] = "start" /\ round[s] = 0
  BY DEF Init, CvInit, ClientInit
<1>3. Done = {}
  BY <1>2 DEF Done, Increments
<1>4. NoLostUpdate
  BY <1>3, FS_EmptySet DEF NoLostUpdate, Init, CvInit, Start
<1>5. TypeOK
  <2>1. MachineTypeOK /\ pc \in [Slot -> PC] /\ made \in 0 .. THRQUESIZE
    BY <1>1 DEF ClientTypeOK, PC
  <2>2. globalTestVar \in Start .. Start + Rounds * THRQUESIZE
    BY DEF Init, CvInit, Start
  <2>3. local \in [Slot -> 0 .. Start + Rounds * THRQUESIZE]
    BY DEF Init, Start
  <2> QED
    BY <2>1, <2>2, <2>3 DEF TypeOK, CvTypeOK, Init, CvInit
<1>6. MutualExclusion /\ Loaded /\ Unfinished
  BY <1>2 DEF MutualExclusion, Critical, Loaded, Unfinished, Init
<1>7. InnerLock
  BY DEF InnerLock, Init, CvInit, ClientInit, MachineInit, SpinLocks
<1> QED
  BY <1>4, <1>5, <1>6, <1>7 DEF IInv

\* A step of the code of thr_current from label p to label q.
LEMMA OwnStep ==
  ASSUME IInv, NEW p, At(p), NEW q \in PC, Goto(q), UNCHANGED kept
  PROVE  /\ cur \in Slot /\ pc[cur] = p /\ mode = "thread"
         /\ pc' \in [Slot -> PC] /\ pc'[cur] = q /\ cur' = cur
<1>1. MachineTypeOK /\ pc \in [Slot -> PC]
  BY DEF IInv, TypeOK, CvTypeOK
<1>2. cur \in Slot /\ pc[cur] = p /\ mode = "thread"
  BY <1>1, AtSlot
<1> QED
  BY <1>1, <1>2 DEF Goto, kept

\* A step of thr_current that crosses no border keeps the invariant, if it
\* leaves the lock inside the mutex as it must be.
LEMMA PassInv ==
  ASSUME IInv, NEW p, At(p), NEW q \in PC, Goto(q), UNCHANGED <<held, data>>, Passes(q),
         MachineTypeOK', made' \in 0 .. THRQUESIZE,
         cv' \in [Slot -> Conditions \cup {"none"}],
         InnerLock'
  PROVE  IInv'
<1>1. MutualExclusion' /\ Loaded' /\ Unfinished' /\ NoLostUpdate'
  BY Frame
<1>2. TypeOK'
  <2>1. pc' \in [Slot -> PC]
    BY DEF IInv, TypeOK, Goto
  <2> QED
    BY <2>1 DEF IInv, TypeOK, CvTypeOK, data
<1> QED
  BY <1>1, <1>2 DEF IInv

------------------------------------------------------------------------------
(* The actions *)

LEMMA EnterInv == IInv /\ MutexEnter => IInv'
<1> SUFFICES ASSUME IInv, MutexEnter PROVE IInv'
  OBVIOUS
<1>1. /\ At("start") /\ Goto("test") /\ Lock("gm.lk")
      /\ UNCHANGED <<kept, status, made, cv, held, data>>
  BY DEF MutexEnter
<1>2. MachineTypeOK /\ "gm.lk" \in SpinLocks /\ "test" \in PC
  BY DEF IInv, TypeOK, CvTypeOK, SpinLocks, PC
<1>3. /\ spin' \in [SpinLocks -> {0, 1}] /\ intr' \in BOOLEAN /\ mode' \in Mode
      /\ ~intr' /\ mode' \in {mode, "hang"}
  BY <1>1, <1>2, LockType
<1>4. cur \in Slot /\ pc[cur] = "start" /\ mode = "thread" /\ pc'[cur] = "test" /\ cur' = cur
  BY <1>1, <1>2, OwnStep
<1>5. MachineTypeOK'
  BY <1>1, <1>2, <1>3 DEF MachineTypeOK, kept
<1>6. InnerLock'
  BY <1>3, <1>4 DEF InnerLock
<1>7. Passes("test")
  BY <1>1, <1>2, <1>4 DEF Passes, Goto, Owns, Stored, Over
<1> QED
  BY <1>1, <1>2, <1>5, <1>6, <1>7, PassInv DEF IInv, TypeOK, CvTypeOK

LEMMA BusyInv == IInv /\ MutexBusy => IInv'
<1> SUFFICES ASSUME IInv, MutexBusy PROVE IInv'
  OBVIOUS
<1>1. /\ At("test") /\ Goto("wait")
      /\ UNCHANGED <<kept, status, intr, mode, spin, made, cv, held, data>>
  BY DEF MutexBusy
<1>2. MachineTypeOK /\ "wait" \in PC
  BY DEF IInv, TypeOK, CvTypeOK, PC
<1>3. cur \in Slot /\ pc[cur] = "test" /\ mode = "thread" /\ pc'[cur] = "wait" /\ cur' = cur
  BY <1>1, <1>2, OwnStep
<1>4. MachineTypeOK'
  BY <1>1, <1>2 DEF MachineTypeOK, kept
<1>5. InnerLock'
  BY <1>1, <1>3 DEF InnerLock, IInv
<1>6. Passes("wait")
  BY <1>1, <1>2, <1>3 DEF Passes, Goto, Owns, Stored, Over
<1> QED
  BY <1>1, <1>2, <1>4, <1>5, <1>6, PassInv DEF IInv, TypeOK, CvTypeOK

\* The four steps of thrCondWait.
LEMMA WaitInv == IInv /\ Wait => IInv'
<1> SUFFICES ASSUME IInv, CondWait("gm", "gm.lk"), UNCHANGED <<held, data>> PROVE IInv'
  BY DEF Wait, CondWait, data
<1>1. /\ MachineTypeOK /\ {"mark", "sleep", "call", "waiting"} \subseteq PC
      /\ cv \in [Slot -> Conditions \cup {"none"}] /\ "gm" \in Conditions
      /\ made \in 0 .. THRQUESIZE
  BY DEF IInv, TypeOK, CvTypeOK, PC, Conditions
<1>2. CASE /\ At("wait") /\ WaitRelease("gm.lk") /\ Goto("mark")
           /\ UNCHANGED <<kept, status, made, cv>>
  <2>1. cur \in Slot /\ pc[cur] = "wait" /\ mode = "thread"
    BY <1>1, <1>2, AtSlot
  <2>2. /\ spin' \in [SpinLocks -> {0, 1}] /\ intr' \in BOOLEAN /\ mode' \in Mode
        /\ mode' # "hang" => spin'["gm.lk"] = 0
    BY <1>1, <1>2 DEF WaitRelease, MachineTypeOK, SpinLocks, Mode
  <2>3. MachineTypeOK' /\ InnerLock'
    BY <1>1, <1>2, <2>2 DEF MachineTypeOK, kept, InnerLock
  <2>4. Passes("mark")
    BY <1>1, <1>2, <2>1 DEF Passes, Goto, Owns, Stored, Over
  <2> QED
    BY <1>1, <1>2, <2>3, <2>4, PassInv
<1>3. CASE /\ At("mark") /\ cv' = [cv EXCEPT ![cur] = "gm"] /\ Goto("sleep")
           /\ UNCHANGED <<kept, status, intr, mode, spin, made>>
  <2>1. cur \in Slot /\ pc[cur] = "mark" /\ mode = "thread"
    BY <1>1, <1>3, AtSlot
  <2>2. MachineTypeOK' /\ cv' \in [Slot -> Conditions \cup {"none"}]
    BY <1>1, <1>3 DEF MachineTypeOK, kept
  <2>3. InnerLock'
    BY <1>3, <2>1 DEF InnerLock, IInv
  <2>4. Passes("sleep")
    BY <1>1, <1>3, <2>1 DEF Passes, Goto, Owns, Stored, Over
  <2> QED
    BY <1>1, <1>3, <2>2, <2>3, <2>4, PassInv
<1>4. CASE /\ At("sleep") /\ status' = [status EXCEPT ![cur] = "SLEEPING"] /\ Goto("call")
           /\ UNCHANGED <<kept, intr, mode, spin, made, cv>>
  <2>1. cur \in Slot /\ pc[cur] = "sleep" /\ mode = "thread"
    BY <1>1, <1>4, AtSlot
  <2>2. MachineTypeOK'
    BY <1>1, <1>4 DEF MachineTypeOK, kept, Status
  <2>3. InnerLock'
    BY <1>4, <2>1 DEF InnerLock, IInv
  <2>4. Passes("call")
    BY <1>1, <1>4, <2>1 DEF Passes, Goto, Owns, Stored, Over
  <2> QED
    BY <1>1, <1>4, <2>2, <2>3, <2>4, PassInv
<1>5. CASE /\ At("call") /\ Goto("waiting")
           /\ mode' = "sched" /\ loop' = cur /\ last' = [last EXCEPT ![cur] = UNINIT]
           /\ UNCHANGED <<status, counter, ctx, cur, intr, sctx, spin, made, cv>>
  <2>1. cur \in Slot /\ pc[cur] = "call" /\ mode = "thread"
    BY <1>1, <1>5, AtSlot
  <2>2. MachineTypeOK'
    BY <1>1, <1>5 DEF MachineTypeOK, Mode
  <2>3. InnerLock'
    BY <1>5, <2>1 DEF InnerLock, IInv
  <2>4. Passes("waiting")
    BY <1>1, <1>5, <2>1 DEF Passes, Goto, Owns, Stored, Over
  <2> QED
    BY <1>1, <1>5, <2>2, <2>3, <2>4, PassInv
<1> QED
  BY <1>2, <1>3, <1>4, <1>5 DEF CondWait

\* The two steps of a printf.
LEMMA ReportInv == IInv /\ Report => IInv'
<1> SUFFICES ASSUME IInv, Printf("print", "printing", "unlock"), UNCHANGED <<cv, held, data>>
             PROVE  IInv'
  BY DEF Report
<1>1. /\ MachineTypeOK /\ {"printing", "unlock"} \subseteq PC /\ made \in 0 .. THRQUESIZE
      /\ cv \in [Slot -> Conditions \cup {"none"}]
      /\ "cslLock" \in SpinLocks /\ "gm.lk" \in SpinLocks \ {"cslLock"}
  BY DEF IInv, TypeOK, CvTypeOK, PC, SpinLocks
<1>2. CASE /\ At("print") /\ Lock("cslLock") /\ Goto("printing")
           /\ UNCHANGED <<kept, status, made>>
  <2>1. cur \in Slot /\ pc[cur] = "print" /\ mode = "thread"
    BY <1>1, <1>2, AtSlot
  <2>2. /\ spin' \in [SpinLocks -> {0, 1}] /\ intr' \in BOOLEAN /\ mode' \in Mode
        /\ spin'["gm.lk"] = spin["gm.lk"]
    BY <1>1, <1>2, LockType
  <2>3. MachineTypeOK'
    BY <1>1, <1>2, <2>2 DEF MachineTypeOK, kept
  <2>4. InnerLock'
    BY <2>1, <2>2 DEF InnerLock, IInv
  <2>5. Passes("printing")
    BY <1>1, <1>2, <2>1 DEF Passes, Goto, Owns, Stored, Over
  <2> QED
    BY <1>1, <1>2, <2>3, <2>4, <2>5, PassInv
<1>3. CASE /\ At("printing") /\ Unlock("cslLock") /\ Goto("unlock")
           /\ UNCHANGED <<kept, status, mode, made>>
  <2>1. cur \in Slot /\ pc[cur] = "printing" /\ mode = "thread"
    BY <1>1, <1>3, AtSlot
  <2>2. /\ spin' \in [SpinLocks -> {0, 1}] /\ intr' \in BOOLEAN
        /\ spin'["gm.lk"] = spin["gm.lk"]
    BY <1>1, <1>3, UnlockType
  <2>3. MachineTypeOK'
    BY <1>1, <1>3, <2>2 DEF MachineTypeOK, kept
  <2>4. InnerLock'
    BY <2>1, <2>2 DEF InnerLock, IInv
  <2>5. Passes("unlock")
    BY <1>1, <1>3, <2>1 DEF Passes, Goto, Owns, Stored, Over
  <2> QED
    BY <1>1, <1>3, <2>3, <2>4, <2>5, PassInv
<1> QED
  BY <1>2, <1>3 DEF Printf

LEMMA LeaveInv == IInv /\ MutexLeave => IInv'
<1> SUFFICES ASSUME IInv, MutexLeave PROVE IInv'
  OBVIOUS
<1>1. /\ At("unlock") /\ Goto("free") /\ Lock("gm.lk")
      /\ UNCHANGED <<kept, status, made, cv, held, data>>
  BY DEF MutexLeave
<1>2. MachineTypeOK /\ "gm.lk" \in SpinLocks /\ "free" \in PC
  BY DEF IInv, TypeOK, CvTypeOK, SpinLocks, PC
<1>3. /\ spin' \in [SpinLocks -> {0, 1}] /\ intr' \in BOOLEAN /\ mode' \in Mode
      /\ ~intr' /\ mode' \in {mode, "hang"}
  BY <1>1, <1>2, LockType
<1>4. cur \in Slot /\ pc[cur] = "unlock" /\ mode = "thread" /\ pc'[cur] = "free" /\ cur' = cur
  BY <1>1, <1>2, OwnStep
<1>5. MachineTypeOK'
  BY <1>1, <1>2, <1>3 DEF MachineTypeOK, kept
<1>6. InnerLock'
  BY <1>3, <1>4 DEF InnerLock
<1>7. Passes("free")
  BY <1>1, <1>2, <1>4 DEF Passes, Goto, Owns, Stored, Over
<1> QED
  BY <1>1, <1>2, <1>5, <1>6, <1>7, PassInv DEF IInv, TypeOK, CvTypeOK

LEMMA TakeInv == IInv /\ MutexTake => IInv'
<1> SUFFICES ASSUME IInv, MutexTake PROVE IInv'
  OBVIOUS
<1>1. /\ At("test") /\ Goto("load") /\ Unlock("gm.lk") /\ held = 0 /\ held' = 1
      /\ UNCHANGED <<kept, status, mode, made, cv, data>>
      /\ UNCHANGED <<globalTestVar, local, round>>
  BY DEF MutexTake, data
<1>2. MachineTypeOK /\ pc \in [Slot -> PC] /\ "gm.lk" \in SpinLocks /\ "load" \in PC
  BY DEF IInv, TypeOK, CvTypeOK, SpinLocks, PC
<1>3. spin' \in [SpinLocks -> {0, 1}] /\ intr' \in BOOLEAN /\ spin'["gm.lk"] = 0
  BY <1>1, <1>2, UnlockType
<1>4. cur \in Slot /\ pc[cur] = "test" /\ pc' \in [Slot -> PC]
  BY <1>1, <1>2, OwnStep
<1>5. \A s \in Slot : pc'[s] = IF s = cur THEN "load" ELSE pc[s]
  BY <1>1, <1>2, <1>4 DEF Goto
<1>6. \A s \in Slot : ~Critical(s)
  BY <1>1 DEF IInv, MutualExclusion
<1>7. MutualExclusion'
  BY <1>1, <1>4, <1>5, <1>6 DEF MutualExclusion, Critical
<1>8. Loaded' /\ Unfinished'
  BY <1>1, <1>4, <1>5 DEF IInv, Loaded, Unfinished
<1>9. NoLostUpdate'
  <2>1. \A s \in Slot : Increments(s)' = Increments(s)
    BY <1>1, <1>4, <1>5 DEF Increments
  <2> QED
    BY <1>1, <2>1, DoneSame DEF IInv, NoLostUpdate
<1>10. TypeOK'
  BY <1>1, <1>2, <1>3, <1>4 DEF IInv, TypeOK, CvTypeOK, MachineTypeOK, kept
<1>11. InnerLock'
  BY <1>3 DEF InnerLock
<1> QED
  BY <1>7, <1>8, <1>9, <1>10, <1>11 DEF IInv

LEMMA LoadInv == IInv /\ Load => IInv'
<1> SUFFICES ASSUME IInv, Load PROVE IInv'
  OBVIOUS
<1>1. /\ At("load") /\ Goto("store") /\ local' = [local EXCEPT ![cur] = globalTestVar]
      /\ UNCHANGED <<kept, status, intr, mode, spin, made, cv, held, globalTestVar, round>>
  BY DEF Load
<1>2. MachineTypeOK /\ pc \in [Slot -> PC] /\ "store" \in PC
  BY DEF IInv, TypeOK, CvTypeOK, PC
<1>3. /\ cur \in Slot /\ pc[cur] = "load" /\ mode = "thread" /\ pc' \in [Slot -> PC]
  BY <1>1, <1>2, OwnStep
<1>4. \A s \in Slot : pc'[s] = IF s = cur THEN "store" ELSE pc[s]
  BY <1>1, <1>2, <1>3 DEF Goto
<1>5. MutualExclusion'
  <2>1. \A s \in Slot : Critical(s)' <=> Critical(s)
    BY <1>3, <1>4 DEF Critical
  <2> QED
    BY <1>1, <2>1 DEF IInv, MutualExclusion
<1>6. Loaded'
  BY <1>1, <1>3, <1>4 DEF IInv, TypeOK, Loaded
<1>7. Unfinished'
  BY <1>1, <1>3, <1>4 DEF IInv, Unfinished
<1>8. NoLostUpdate'
  <2>1. \A s \in Slot : Increments(s)' = Increments(s)
    BY <1>1, <1>3, <1>4 DEF Increments
  <2> QED
    BY <1>1, <2>1, DoneSame DEF IInv, NoLostUpdate
<1>9. TypeOK'
  <2>1. local' \in [Slot -> 0 .. Start + Rounds * THRQUESIZE]
    <3>1. /\ globalTestVar \in 0 .. Start + Rounds * THRQUESIZE
          /\ local \in [Slot -> 0 .. Start + Rounds * THRQUESIZE]
      BY DEF IInv, TypeOK, Start
    <3> QED
      BY <1>1, <3>1
  <2> QED
    BY <1>1, <1>2, <1>3, <2>1 DEF IInv, TypeOK, CvTypeOK, MachineTypeOK, kept
<1>10. InnerLock'
  BY <1>1, <1>3 DEF InnerLock, IInv
<1> QED
  BY <1>5, <1>6, <1>7, <1>8, <1>9, <1>10 DEF IInv

\* The thread stores what it loaded and one more, and nobody has changed
\* globalTestVar in between.
LEMMA StoreInv == IInv /\ Store => IInv'
<1> SUFFICES ASSUME IInv, Store PROVE IInv'
  OBVIOUS
<1>1. /\ At("store") /\ Goto("print")
      /\ local' = [local EXCEPT ![cur] = @ + 1] /\ globalTestVar' = local'[cur]
      /\ UNCHANGED <<kept, status, intr, mode, spin, made, cv, held, round>>
  BY DEF Store
<1>2. /\ MachineTypeOK /\ pc \in [Slot -> PC] /\ "print" \in PC
      /\ local \in [Slot -> 0 .. Start + Rounds * THRQUESIZE] /\ globalTestVar \in Int
      /\ round \in [Slot -> 0 .. Rounds]
  BY DEF IInv, TypeOK, CvTypeOK, PC, Start
<1>3. cur \in Slot /\ pc[cur] = "store" /\ mode = "thread" /\ pc' \in [Slot -> PC]
  BY <1>1, <1>2, OwnStep
<1>4. \A s \in Slot : pc'[s] = IF s = cur THEN "print" ELSE pc[s]
  BY <1>1, <1>2, <1>3 DEF Goto
<1>5. MutualExclusion'
  <2>1. \A s \in Slot : Critical(s)' <=> Critical(s)
    BY <1>3, <1>4 DEF Critical
  <2> QED
    BY <1>1, <2>1 DEF IInv, MutualExclusion
<1>6. Loaded'
  <2>1. ASSUME NEW s \in Slot, pc'[s] = "store" PROVE FALSE
    <3>1. s # cur /\ pc[s] = "store"
      BY <1>4, <2>1
    <3> QED
      BY <1>3, <3>1 DEF IInv, MutualExclusion, Critical
  <2> QED
    BY <2>1 DEF Loaded
<1>7. Unfinished'
  BY <1>1, <1>3, <1>4 DEF IInv, Unfinished
<1>8. globalTestVar' = globalTestVar + 1 /\ local'[cur] = globalTestVar'
  BY <1>1, <1>2, <1>3 DEF IInv, Loaded
<1>9. NoLostUpdate'
  <2>1. Increments(cur) \in 0 .. Rounds - 1 /\ Increments(cur)' = Increments(cur) + 1
    <3>1. round[cur] \in 0 .. Rounds - 1
      BY <1>2, <1>3, RoundsAssumption DEF IInv, Unfinished
    <3>2. Increments(cur) = round[cur]
      BY <1>3, <3>1 DEF Increments
    <3>3. cur' = cur /\ round' = round
      BY <1>1 DEF kept
    <3>4. Increments(cur)' = round[cur] + 1
      BY <1>3, <1>4, <3>3 DEF Increments
    <3> QED
      BY <3>1, <3>2, <3>4
  <2>2. \A u \in Slot \ {cur} : Increments(u)' = Increments(u)
    BY <1>1, <1>4 DEF Increments
  <2>3. cur' = cur
    BY <1>1 DEF kept
  <2>4. Cardinality(Done') = Cardinality(Done) + 1
    BY <1>3, <2>1, <2>2, <2>3, DoneStep
  <2>5. Cardinality(Done) \in Nat
    BY DoneBound DEF Done
  <2> QED
    BY <1>8, <2>4, <2>5 DEF IInv, NoLostUpdate, Start
<1>10. TypeOK'
  <2>1. Cardinality(Done') \in 0 .. Rounds * THRQUESIZE
    <3>1. Done' \in SUBSET (Slot \X (0 .. Rounds - 1))
      BY DEF Done
    <3> QED
      BY <3>1, DoneBound
  <2>2. Rounds * THRQUESIZE \in Nat
    BY SlotsAssumption, RoundsAssumption
  <2>3. globalTestVar' \in Start .. Start + Rounds * THRQUESIZE
    BY <1>9, <2>1, <2>2 DEF NoLostUpdate, Start
  <2>4. local' \in [Slot -> 0 .. Start + Rounds * THRQUESIZE]
    <3>1. globalTestVar' \in 0 .. Start + Rounds * THRQUESIZE
      BY <2>2, <2>3 DEF Start
    <3>2. local' = [local EXCEPT ![cur] = globalTestVar']
      BY <1>1, <1>2, <1>3
    <3> QED
      BY <1>2, <3>1, <3>2
  <2> QED
    BY <1>1, <1>2, <1>3, <2>3, <2>4 DEF IInv, TypeOK, CvTypeOK, MachineTypeOK, kept
<1>11. InnerLock'
  BY <1>1, <1>3 DEF InnerLock, IInv
<1> QED
  BY <1>5, <1>6, <1>7, <1>9, <1>10, <1>11 DEF IInv

LEMMA FreeInv == IInv /\ MutexFree => IInv'
<1> SUFFICES ASSUME IInv, MutexFree PROVE IInv'
  OBVIOUS
<1> DEFINE q == IF Again(round'[cur]) THEN "start" ELSE "exit"
<1>1. /\ At("free") /\ Goto(q) /\ held' = 0 /\ Broadcast("gm") /\ Unlock("gm.lk")
      /\ round' = [round EXCEPT ![cur] = @ + 1]
      /\ UNCHANGED <<kept, mode, made, cv, globalTestVar, local>>
  BY DEF MutexFree
<1>2. /\ MachineTypeOK /\ pc \in [Slot -> PC] /\ "gm.lk" \in SpinLocks /\ q \in PC
      /\ round \in [Slot -> 0 .. Rounds]
  BY DEF IInv, TypeOK, CvTypeOK, SpinLocks, PC
<1>3. spin' \in [SpinLocks -> {0, 1}] /\ intr' \in BOOLEAN /\ spin'["gm.lk"] = 0
  BY <1>1, <1>2, UnlockType
<1>4. cur \in Slot /\ pc[cur] = "free" /\ pc' \in [Slot -> PC]
  BY <1>1, <1>2, OwnStep
<1>5. \A s \in Slot : pc'[s] = IF s = cur THEN q ELSE pc[s]
  BY <1>1, <1>2, <1>4 DEF Goto
<1>6. /\ round[cur] \in 0 .. Rounds - 1 /\ round' \in [Slot -> 0 .. Rounds]
      /\ round'[cur] = round[cur] + 1
      /\ \A s \in Slot \ {cur} : round'[s] = round[s]
  BY <1>1, <1>2, <1>4, RoundsAssumption DEF IInv, Unfinished
<1>7. MutualExclusion'
  <2>1. \A s \in Slot : Critical(s) => s = cur
    BY <1>4 DEF IInv, MutualExclusion, Critical
  <2>2. \A s \in Slot : ~Critical(s)'
    BY <1>5, <2>1 DEF Critical
  <2> QED
    BY <1>1, <2>2 DEF MutualExclusion
<1>8. Loaded'
  BY <1>1, <1>4, <1>5 DEF IInv, Loaded
<1>9. Unfinished'
  BY <1>5, <1>6 DEF IInv, Unfinished, Again
<1>10. NoLostUpdate'
  <2>1. \A s \in Slot : Increments(s)' = Increments(s)
    BY <1>4, <1>5, <1>6 DEF Increments
  <2> QED
    BY <1>1, <2>1, DoneSame DEF IInv, NoLostUpdate
<1>11. TypeOK'
  <2>1. status' \in [Slot -> Status]
    BY <1>1, <1>2 DEF Broadcast, MachineTypeOK, Status
  <2> QED
    BY <1>1, <1>2, <1>3, <1>4, <1>6, <2>1
       DEF IInv, TypeOK, CvTypeOK, MachineTypeOK, kept
<1>12. InnerLock'
  BY <1>3 DEF InnerLock
<1> QED
  BY <1>7, <1>8, <1>9, <1>10, <1>11, <1>12 DEF IInv

\* The steps of the boot code, the timer and the scheduler, and of thrExit.
LEMMA StepInv == IInv /\ Step => IInv'
<1> SUFFICES ASSUME IInv, ClientStep, UNCHANGED <<cv, held, data>> PROVE IInv'
  BY DEF Step
<1>1. ClientTypeOK(PC) /\ "left" \in PC
  BY DEF IInv, TypeOK, CvTypeOK, ClientTypeOK, PC
<1>2. /\ ClientTypeOK(PC)' /\ UNCHANGED spin /\ mode' # "hang"
      /\ \/ mode = "sched" /\ pc' = pc
         \/ mode = "thread" /\ cur = NULL /\ pc' = pc
         \/ mode = "thread" /\ intr /\ pc' = pc
         \/ At("left") /\ pc' = pc /\ cur' = cur
         \/ At("exit") /\ pc' = [pc EXCEPT ![cur] = "left"] /\ cur' = cur /\ mode' = mode
  BY <1>1, ClientStepType
<1>3. TypeOK'
  BY <1>2 DEF IInv, TypeOK, CvTypeOK, ClientTypeOK, data
<1>4. pc' = pc \/ Passes("left")
  <2>1. CASE At("exit") /\ pc' = [pc EXCEPT ![cur] = "left"]
    <3>1. cur \in Slot /\ pc[cur] = "exit"
      BY <1>1, <2>1, AtSlot DEF ClientTypeOK
    <3> QED
      BY <1>1, <2>1, <3>1 DEF Passes, Owns, Stored, Over
  <2> QED
    BY <1>2, <2>1
<1>5. MutualExclusion' /\ Loaded' /\ Unfinished' /\ NoLostUpdate'
  BY <1>1, <1>4, Frame
<1>6. InnerLock'
  <2>1. ASSUME spin["gm.lk"] = 1 PROVE FALSE
    <3>1. mode \in {"sched", "thread"}
      BY <1>2 DEF At
    <3>2. mode = "thread" /\ ~intr /\ cur \in Slot /\ pc[cur] \in {"test", "wait", "free"}
      BY <2>1, <3>1 DEF IInv, InnerLock
    <3> QED
      BY <1>2, <3>2 DEF At, Slot, NULL
  <2> QED
    BY <1>2, <2>1 DEF InnerLock
<1> QED
  BY <1>3, <1>5, <1>6 DEF IInv

LEMMA StutterInv == IInv /\ UNCHANGED vars => IInv'
<1> SUFFICES ASSUME IInv, UNCHANGED vars PROVE IInv'
  OBVIOUS
<1>1. UNCHANGED <<held, data>> /\ UNCHANGED <<machine, pc, made, cv>>
  BY DEF vars, data
<1>2. MutualExclusion' /\ Loaded' /\ Unfinished' /\ NoLostUpdate'
  BY <1>1, Frame
<1>3. TypeOK' /\ InnerLock'
  BY <1>1 DEF IInv, TypeOK, CvTypeOK, MachineTypeOK, machine, data, InnerLock
<1> QED
  BY <1>2, <1>3 DEF IInv

------------------------------------------------------------------------------
(* The theorems *)

LEMMA Invariance == Spec => []IInv
<1>1. IInv /\ [Next]_vars => IInv'
  BY EnterInv, TakeInv, BusyInv, WaitInv, LoadInv, StoreInv, ReportInv, LeaveInv, FreeInv,
     StepInv, StutterInv DEF Next
<1> QED
  BY <1>1, InitInv, PTL DEF Spec

\* Every variable keeps its type; globalTestVar stays below its final value.
THEOREM TypeCorrect == Spec => []TypeOK
<1>1. IInv => TypeOK
  BY DEF IInv
<1> QED
  BY <1>1, Invariance, PTL

\* No two threads are between thrMutexLock and the end of thrMutexUnlock, and
\* gm.lock tells whether one is, however ticks fall and however often a thread
\* is made READY while it waits.
THEOREM MutualExclusionCorrect == Spec => []MutualExclusion
<1>1. IInv => MutualExclusion
  BY DEF IInv
<1> QED
  BY <1>1, Invariance, PTL

\* globalTestVar counts every increment that mfunc has stored.
THEOREM NoLostUpdateCorrect == Spec => []NoLostUpdate
<1>1. IInv => NoLostUpdate
  BY DEF IInv
<1> QED
  BY <1>1, Invariance, PTL

\* The lock inside the mutex is never found taken by a thread that could run.
THEOREM InnerLockCorrect == Spec => []InnerLockSafe
<1>1. IInv => InnerLockSafe
  BY DEF IInv, InnerLock, InnerLockSafe
<1> QED
  BY <1>1, Invariance, PTL

------------------------------------------------------------------------------
(* CvTest: the invariant *)

\* From its test on, a waiting thread runs with interrupts off until its
\* printf has unlocked the console; so does a changing one.
Uninterrupted ==
  \A s \in Slot : pc[s] \in {"add", "test", "wait", "print", "printing"} /\ mode # "hang" =>
    mode = "thread" /\ ~intr /\ s = cur

Counted == globalTestVar = Start + 10 * Cardinality(Changed)

OnlyChangersAdd == \A s \in Slot : pc[s] = "add" => s \in Changers

\* The inductive invariant.
TestInv == TestTypeOK /\ OneInside /\ Uninterrupted /\ Counted /\ OnlyChangersAdd
           /\ PrintsTheChange

\* There are at most as many changes as threads.
LEMMA ChangedBound ==
  ASSUME NEW C \in SUBSET Slot
  PROVE  IsFiniteSet(C) /\ Cardinality(C) \in 0 .. THRQUESIZE
<1>1. IsFiniteSet(Slot) /\ Cardinality(Slot) = THRQUESIZE
  BY FS_Interval, SlotsAssumption DEF Slot
<1>2. IsFiniteSet(C) /\ Cardinality(C) <= THRQUESIZE
  BY <1>1, FS_Subset
<1> QED
  BY <1>2, FS_CardinalityType

\* Changed is empty just when globalTestVar is as cvTest has set it.
LEMMA ChangedOrNot ==
  ASSUME Counted
  PROVE  Changed = {} <=> globalTestVar = Start
<1>1. Changed \in SUBSET Slot
  BY ChangersAssumption DEF Changed
<1>2. IsFiniteSet(Changed) /\ Cardinality(Changed) \in Nat
  BY <1>1, ChangedBound
<1>3. Cardinality(Changed) = 0 <=> Changed = {}
  BY <1>2, FS_EmptySet
<1> QED
  BY <1>2, <1>3 DEF Counted, Start

LEMMA TestInitInv == TestInit => TestInv
<1> SUFFICES ASSUME TestInit PROVE TestInv
  OBVIOUS
<1>1. ClientTypeOK({"start"}) /\ pc = [s \in Slot |-> "start"] /\ globalTestVar = Start
  BY ClientInitType DEF TestInit, CvInit, ClientInit
<1>2. Changed = {}
  BY <1>1, ChangersAssumption DEF Changed
<1>3. Counted
  BY <1>1, <1>2, FS_EmptySet DEF Counted, Start
<1>4. globalTestVar \in {Start + 10 * n : n \in 0 .. THRQUESIZE}
  <2>1. 0 \in 0 .. THRQUESIZE /\ Start = Start + 10 * 0
    BY SlotsAssumption DEF Start
  <2> QED
    BY <1>1, <2>1
<1>5. TestTypeOK
  BY <1>1, <1>4 DEF TestTypeOK, CvTypeOK, ClientTypeOK, Label, TestInit, CvInit
<1>6. OneInside
  BY <1>1 DEF OneInside, Inside, TestInit, CvInit, ClientInit, MachineInit, SpinLocks
<1> QED
  BY <1>1, <1>3, <1>5, <1>6 DEF TestInv, Uninterrupted, OnlyChangersAdd, PrintsTheChange

------------------------------------------------------------------------------
(* CvTest: steps *)

\* The thread that runs goes on to label q and changes nothing that is
\* counted.
Moves(p, q) ==
  /\ cur \in Slot /\ pc[cur] = p /\ q \in Label /\ pc' = [pc EXCEPT ![cur] = q]
  /\ cur' = cur /\ globalTestVar' = globalTestVar /\ mode = "thread"
  /\ cur \in Changers => (p \in {"start", "add"} <=> q \in {"start", "add"})
  /\ q = "add" => cur \in Changers

\* What such a step does to the counts.
LEMMA MovesCounted ==
  ASSUME TestInv, NEW p, NEW q, Moves(p, q)
  PROVE  /\ \A s \in Slot : pc'[s] = IF s = cur THEN q ELSE pc[s]
         /\ Changed' = Changed /\ Counted' /\ OnlyChangersAdd'
<1>1. \A s \in Slot : pc'[s] = IF s = cur THEN q ELSE pc[s]
  BY DEF TestInv, TestTypeOK, Moves
<1>2. Changed' = Changed
  BY <1>1, ChangersAssumption DEF Changed, Moves
<1> QED
  BY <1>1, <1>2 DEF TestInv, Counted, OnlyChangersAdd, Moves

\* A step inside or outside the lock keeps what the lock promises.
LEMMA MovesInside ==
  ASSUME TestInv, NEW p, NEW q, Moves(p, q), spin'["gtLock"] = spin["gtLock"],
         Inside(cur) <=> Inside(cur)'
  PROVE  OneInside'
<1>1. \A s \in Slot : pc'[s] = IF s = cur THEN q ELSE pc[s]
  BY MovesCounted
<1>2. \A s \in Slot : Inside(s)' <=> Inside(s)
  BY <1>1 DEF Inside, Moves
<1> QED
  BY <1>2 DEF TestInv, OneInside, Moves

\* The thread that runs is alone inside the lock, or nobody is inside.
LEMMA Alone ==
  ASSUME TestInv, cur \in Slot, mode = "thread"
  PROVE  /\ Inside(cur) => spin["gtLock"] = 1 /\ \A s \in Slot \ {cur} : ~Inside(s)
         /\ spin["gtLock"] = 0 => \A s \in Slot : ~Inside(s)
BY DEF TestInv, OneInside

\* Whoever prints knows of a change, and nobody else moves meanwhile.
LEMMA MovesPrinting ==
  ASSUME TestInv, NEW p, NEW q, Moves(p, q),
         q \in {"print", "printing"} => p \in {"print", "printing"},
         q \in {"add", "test", "wait", "print", "printing"} /\ mode' # "hang" =>
           mode' = "thread" /\ ~intr'
  PROVE  Uninterrupted' /\ PrintsTheChange'
<1>1. /\ \A s \in Slot : pc'[s] = IF s = cur THEN q ELSE pc[s]
      /\ Changed' = Changed
  BY MovesCounted
<1>2. \A s \in Slot \ {cur} : pc[s] \notin {"add", "test", "wait", "print", "printing"}
  BY DEF TestInv, Uninterrupted, Moves
<1>3. Uninterrupted'
  BY <1>1, <1>2 DEF Uninterrupted, Moves
<1>4. PrintsTheChange'
  <2> SUFFICES ASSUME NEW s \in Slot \ Changers, pc'[s] \in {"print", "printing"}
               PROVE  /\ Changed' # {}
                      /\ globalTestVar' = Start + 10 * Cardinality(Changed')
                      /\ \A u \in Changers : pc'[u] # "add"
    BY DEF PrintsTheChange
  <2>1. s = cur /\ pc[s] \in {"print", "printing"}
    BY <1>1, <1>2 DEF Moves
  <2>2. q # "add"
    BY <1>1, <2>1
  <2> QED
    BY <1>1, <2>1, <2>2, ChangersAssumption DEF TestInv, PrintsTheChange, Moves
<1> QED
  BY <1>3, <1>4

\* Going on from label p to label q by the code of thr_current.
LEMMA TestOwnStep ==
  ASSUME TestInv, NEW p \in Label, At(p), NEW q \in Label, Goto(q), cur' = cur,
         globalTestVar' = globalTestVar,
         cur \in Changers => (p \in {"start", "add"} <=> q \in {"start", "add"}),
         q = "add" => cur \in Changers
  PROVE  Moves(p, q) /\ pc' \in [Slot -> Label]
<1>1. MachineTypeOK /\ pc \in [Slot -> Label]
  BY DEF TestInv, TestTypeOK, CvTypeOK
<1>2. cur \in Slot /\ pc[cur] = p /\ mode = "thread"
  BY <1>1, AtSlot
<1> QED
  BY <1>1, <1>2 DEF Moves, Goto

\* A step that changes neither counts nor sides keeps the invariant.
LEMMA MovesInv ==
  ASSUME TestInv, NEW p, NEW q, Moves(p, q), MachineTypeOK', made' \in 0 .. THRQUESIZE,
         cv' \in [Slot -> Conditions \cup {"none"}],
         mode' # "hang" => OneInside',
         q \in {"print", "printing"} => p \in {"print", "printing"},
         q \in {"add", "test", "wait", "print", "printing"} /\ mode' # "hang" =>
           mode' = "thread" /\ ~intr'
  PROVE  TestInv'
<1>1. Counted' /\ OnlyChangersAdd'
  BY MovesCounted
<1>2. Uninterrupted' /\ PrintsTheChange'
  BY MovesPrinting
<1>3. OneInside'
  BY DEF OneInside
<1>4. TestTypeOK'
  BY DEF TestInv, TestTypeOK, CvTypeOK, Moves
<1> QED
  BY <1>1, <1>2, <1>3, <1>4 DEF TestInv

LEMMA TestEnterInv == TestInv /\ Enter => TestInv'
<1> SUFFICES ASSUME TestInv, Enter PROVE TestInv'
  OBVIOUS
<1> DEFINE q == IF cur \in Changers THEN "add" ELSE "test"
<1>1. /\ At("start") /\ Goto(q) /\ Lock("gtLock")
      /\ UNCHANGED <<kept, status, made, cv, globalTestVar>> /\ cur' = cur
  BY DEF Enter, kept
<1>2. MachineTypeOK /\ "gtLock" \in SpinLocks /\ "start" \in Label /\ q \in Label
  BY DEF TestInv, TestTypeOK, CvTypeOK, SpinLocks, Label
<1>3. /\ spin' \in [SpinLocks -> {0, 1}] /\ intr' \in BOOLEAN /\ mode' \in Mode
      /\ spin'["gtLock"] = 1 /\ ~intr' /\ mode' \in {mode, "hang"}
  BY <1>1, <1>2, LockType
<1>4. Moves("start", q)
  BY <1>1, <1>2, TestOwnStep
<1>5. MachineTypeOK'
  BY <1>1, <1>2, <1>3 DEF MachineTypeOK, kept
<1>6. mode' # "hang" => OneInside'
  <2> SUFFICES ASSUME mode' # "hang" PROVE OneInside'
    OBVIOUS
  <2>1. spin["gtLock"] = 0
    BY <1>1, <1>2 DEF Lock, MachineTypeOK
  <2>2. \A s \in Slot : ~Inside(s)
    BY <1>4, <2>1, Alone DEF Moves
  <2>3. \A s \in Slot : Inside(s)' <=> s = cur
    BY <1>4, <2>2, MovesCounted DEF Inside
  <2> QED
    BY <1>3, <1>4, <2>3 DEF OneInside, Moves
<1> QED
  BY <1>1, <1>3, <1>4, <1>5, <1>6, MovesInv DEF TestInv, TestTypeOK, CvTypeOK, Moves

\* The one step that counts.
LEMMA TestChangeInv == TestInv /\ Change => TestInv'
<1> SUFFICES ASSUME TestInv, Change PROVE TestInv'
  OBVIOUS
<1>1. /\ At("add") /\ Goto("unlock") /\ globalTestVar' = globalTestVar + 10
      /\ UNCHANGED <<kept, status, intr, mode, spin, made, cv>> /\ cur' = cur
  BY DEF Change, kept
<1>2. MachineTypeOK /\ pc \in [Slot -> Label] /\ "unlock" \in Label
  BY DEF TestInv, TestTypeOK, CvTypeOK, Label
<1>3. cur \in Slot /\ pc[cur] = "add" /\ mode = "thread"
  BY <1>1, <1>2, AtSlot
<1>4. /\ pc' \in [Slot -> Label]
      /\ \A s \in Slot : pc'[s] = IF s = cur THEN "unlock" ELSE pc[s]
  BY <1>1, <1>2, <1>3 DEF Goto
<1>5. cur \in Changers \ Changed /\ Changed' = Changed \cup {cur}
  BY <1>3, <1>4, ChangersAssumption DEF Changed, TestInv, OnlyChangersAdd
<1>6. Cardinality(Changed') = Cardinality(Changed) + 1 /\ Cardinality(Changed) \in Nat
      /\ Cardinality(Changed') \in 0 .. THRQUESIZE
  <2>1. Changed \in SUBSET Slot /\ Changed' \in SUBSET Slot
    BY <1>5, ChangersAssumption DEF Changed
  <2> QED
    BY <1>5, <2>1, ChangedBound, FS_AddElement
<1>7. Counted'
  BY <1>1, <1>6 DEF TestInv, Counted, Start
<1>8. TestTypeOK'
  <2>1. globalTestVar' = Start + 10 * Cardinality(Changed')
    BY <1>7 DEF Counted, Start
  <2> QED
    BY <1>1, <1>2, <1>4, <1>6, <2>1 DEF TestInv, TestTypeOK, CvTypeOK, MachineTypeOK, kept
<1>9. OneInside'
  <2>1. \A s \in Slot : Inside(s)' <=> Inside(s)
    BY <1>3, <1>4 DEF Inside
  <2> QED
    BY <1>1, <2>1 DEF TestInv, OneInside
<1>10. Uninterrupted' /\ OnlyChangersAdd'
  BY <1>1, <1>4 DEF TestInv, Uninterrupted, OnlyChangersAdd
<1>11. PrintsTheChange'
  <2>1. \A s \in Slot : pc'[s] \notin {"print", "printing"}
    BY <1>3, <1>4 DEF TestInv, Uninterrupted
  <2> QED
    BY <2>1 DEF PrintsTheChange
<1> QED
  BY <1>7, <1>8, <1>9, <1>10, <1>11 DEF TestInv

\* Whoever gets past the wait knows that something has changed, and that
\* nobody else is inside.
LEMMA TestTestInv == TestInv /\ Test => TestInv'
<1> SUFFICES ASSUME TestInv, Test PROVE TestInv'
  OBVIOUS
<1> DEFINE q == IF globalTestVar = Start THEN "wait" ELSE "print"
<1>1. /\ At("test") /\ Goto(q)
      /\ UNCHANGED <<kept, status, intr, mode, spin, made, cv, globalTestVar>> /\ cur' = cur
  BY DEF Test, kept
<1>2. MachineTypeOK /\ q \in Label /\ "test" \in Label
  BY DEF TestInv, TestTypeOK, CvTypeOK, Label
<1>3. Moves("test", q) /\ pc' \in [Slot -> Label]
  BY <1>1, <1>2, TestOwnStep
<1>4. /\ \A s \in Slot : pc'[s] = IF s = cur THEN q ELSE pc[s]
      /\ Changed' = Changed /\ Counted' /\ OnlyChangersAdd'
  BY <1>3, MovesCounted
<1>5. OneInside'
  BY <1>1, <1>3, <1>4, MovesInside DEF Inside, Moves
<1>6. \A s \in Slot \ {cur} : pc[s] \notin {"add", "test", "wait", "print", "printing"}
  BY <1>3 DEF TestInv, Uninterrupted, Moves
<1>7. Uninterrupted'
  BY <1>1, <1>3, <1>4, <1>6 DEF TestInv, Uninterrupted, Moves
<1>8. PrintsTheChange'
  <2> SUFFICES ASSUME NEW s \in Slot \ Changers, pc'[s] \in {"print", "printing"}
               PROVE  /\ Changed' # {}
                      /\ globalTestVar' = Start + 10 * Cardinality(Changed')
                      /\ \A u \in Changers : pc'[u] # "add"
    BY DEF PrintsTheChange
  <2>1. s = cur /\ q = "print"
    BY <1>4, <1>6
  <2>2. Changed' # {}
    BY <1>4, <2>1, ChangedOrNot DEF TestInv
  <2>3. \A u \in Changers : pc'[u] # "add"
    BY <1>4, <1>6, <2>1, ChangersAssumption
  <2> QED
    BY <1>4, <2>2, <2>3 DEF Counted
<1>9. TestTypeOK'
  BY <1>1, <1>2, <1>3 DEF TestInv, TestTypeOK, CvTypeOK, MachineTypeOK, kept
<1> QED
  BY <1>4, <1>5, <1>7, <1>8, <1>9 DEF TestInv

\* The two steps of the printf in the critical section; the second turns
\* interrupts on with gtLock still taken.
LEMMA TestPrintInv == TestInv /\ PrintChange => TestInv'
<1> SUFFICES ASSUME TestInv, Printf("print", "printing", "unlock"),
                    UNCHANGED <<cv, globalTestVar>>
             PROVE  TestInv'
  BY DEF PrintChange
<1>1. /\ MachineTypeOK /\ {"print", "printing", "unlock"} \subseteq Label
      /\ made \in 0 .. THRQUESIZE /\ cv \in [Slot -> Conditions \cup {"none"}]
      /\ "cslLock" \in SpinLocks /\ "gtLock" \in SpinLocks \ {"cslLock"}
  BY DEF TestInv, TestTypeOK, CvTypeOK, Label, SpinLocks
<1>2. CASE /\ At("print") /\ Lock("cslLock") /\ Goto("printing")
           /\ UNCHANGED <<kept, status, made>>
  <2>1. Moves("print", "printing")
    BY <1>1, <1>2, TestOwnStep DEF kept
  <2>2. /\ spin' \in [SpinLocks -> {0, 1}] /\ intr' \in BOOLEAN /\ mode' \in Mode
        /\ spin'["gtLock"] = spin["gtLock"] /\ ~intr' /\ mode' \in {mode, "hang"}
    BY <1>1, <1>2, LockType
  <2>3. MachineTypeOK'
    BY <1>1, <1>2, <2>2 DEF MachineTypeOK, kept
  <2>4. Inside(cur) <=> Inside(cur)'
    BY <2>1, MovesCounted DEF Inside, Moves
  <2>5. OneInside'
    BY <2>1, <2>2, <2>4, MovesInside
  <2> QED
    BY <1>1, <1>2, <2>1, <2>2, <2>3, <2>5, MovesInv DEF Moves
<1>3. CASE /\ At("printing") /\ Unlock("cslLock") /\ Goto("unlock")
           /\ UNCHANGED <<kept, status, mode, made>>
  <2>1. Moves("printing", "unlock")
    BY <1>1, <1>3, TestOwnStep DEF kept
  <2>2. /\ spin' \in [SpinLocks -> {0, 1}] /\ intr' \in BOOLEAN
        /\ spin'["gtLock"] = spin["gtLock"]
    BY <1>1, <1>3, UnlockType
  <2>3. MachineTypeOK'
    BY <1>1, <1>3, <2>2 DEF MachineTypeOK, kept
  <2>4. Inside(cur) <=> Inside(cur)'
    BY <2>1, MovesCounted DEF Inside, Moves
  <2>5. OneInside'
    BY <2>1, <2>2, <2>4, MovesInside
  <2> QED
    BY <1>1, <1>3, <2>1, <2>3, <2>5, MovesInv
<1> QED
  BY <1>2, <1>3 DEF Printf

\* Leaving the lock, by its unlock or at the start of a wait.
LEMMA MovesOut ==
  ASSUME TestInv, NEW p, NEW q, Moves(p, q), spin'["gtLock"] = 0,
         Inside(cur), ~Inside(cur)'
  PROVE  OneInside'
<1>1. \A s \in Slot : pc'[s] = IF s = cur THEN q ELSE pc[s]
  BY MovesCounted
<1>2. \A s \in Slot \ {cur} : ~Inside(s)
  BY Alone DEF Moves
<1>3. \A s \in Slot : ~Inside(s)'
  BY <1>1, <1>2 DEF Inside, Moves
<1> QED
  BY <1>3 DEF OneInside

LEMMA TestReleaseInv == TestInv /\ Release => TestInv'
<1> SUFFICES ASSUME TestInv, Release PROVE TestInv'
  OBVIOUS
<1> DEFINE q == IF cur \in Changers THEN "signal" ELSE "exit"
<1>1. /\ At("unlock") /\ Goto(q) /\ Unlock("gtLock")
      /\ UNCHANGED <<kept, status, mode, made, cv, globalTestVar>> /\ cur' = cur
  BY DEF Release, kept
<1>2. MachineTypeOK /\ "gtLock" \in SpinLocks /\ "unlock" \in Label /\ q \in Label
  BY DEF TestInv, TestTypeOK, CvTypeOK, SpinLocks, Label
<1>3. spin' \in [SpinLocks -> {0, 1}] /\ intr' \in BOOLEAN /\ spin'["gtLock"] = 0
  BY <1>1, <1>2, UnlockType
<1>4. Moves("unlock", q)
  BY <1>1, <1>2, TestOwnStep
<1>5. MachineTypeOK'
  BY <1>1, <1>2, <1>3 DEF MachineTypeOK, kept
<1>6. Inside(cur) /\ ~Inside(cur)'
  <2>1. pc[cur] = "unlock" /\ pc'[cur'] = q
    BY <1>4, MovesCounted DEF Moves
  <2> QED
    BY <2>1 DEF Inside
<1>7. OneInside'
  BY <1>3, <1>4, <1>6, MovesOut
<1> QED
  BY <1>1, <1>4, <1>5, <1>7, MovesInv DEF TestInv, TestTypeOK, CvTypeOK

LEMMA TestNotifyInv == TestInv /\ Notify => TestInv'
<1> SUFFICES ASSUME TestInv, Notify PROVE TestInv'
  OBVIOUS
<1>1. /\ At("signal") /\ Goto("exit") /\ Signal("globalTestVar")
      /\ UNCHANGED <<kept, intr, mode, spin, made, cv, globalTestVar>> /\ cur' = cur
  BY DEF Notify, kept
<1>2. MachineTypeOK /\ "signal" \in Label /\ "exit" \in Label
  BY DEF TestInv, TestTypeOK, CvTypeOK, Label
<1>3. Moves("signal", "exit")
  BY <1>1, <1>2, TestOwnStep
<1>4. MachineTypeOK'
  <2>1. status' \in [Slot -> Status]
    BY <1>1, <1>2 DEF Signal, MachineTypeOK, Status
  <2> QED
    BY <1>1, <1>2, <2>1 DEF MachineTypeOK, kept
<1>5. Inside(cur) <=> Inside(cur)'
  BY <1>3, MovesCounted DEF Inside, Moves
<1>6. OneInside'
  BY <1>1, <1>3, <1>5, MovesInside
<1> QED
  BY <1>1, <1>3, <1>4, <1>6, MovesInv DEF TestInv, TestTypeOK, CvTypeOK

\* The four steps of thrCondWait: the first gives gtLock back.
LEMMA TestWaitInv == TestInv /\ WaitForChange => TestInv'
<1> SUFFICES ASSUME TestInv, CondWait("globalTestVar", "gtLock") PROVE TestInv'
  BY DEF WaitForChange
<1>1. /\ MachineTypeOK /\ {"wait", "mark", "sleep", "call", "waiting"} \subseteq Label
      /\ cv \in [Slot -> Conditions \cup {"none"}] /\ "globalTestVar" \in Conditions
      /\ made \in 0 .. THRQUESIZE
  BY DEF TestInv, TestTypeOK, CvTypeOK, Label, Conditions
<1>2. CASE /\ At("wait") /\ WaitRelease("gtLock") /\ Goto("mark")
           /\ UNCHANGED <<kept, status, made, cv, globalTestVar>>
  <2>1. Moves("wait", "mark")
    BY <1>1, <1>2, TestOwnStep DEF kept
  <2>2. /\ spin' \in [SpinLocks -> {0, 1}] /\ intr' \in BOOLEAN /\ mode' \in Mode
        /\ mode' # "hang" => spin'["gtLock"] = 0
    BY <1>1, <1>2 DEF WaitRelease, MachineTypeOK, SpinLocks, Mode
  <2>3. MachineTypeOK'
    BY <1>1, <1>2, <2>2 DEF MachineTypeOK, kept
  <2>4. Inside(cur) /\ ~Inside(cur)'
    <3>1. pc[cur] = "wait" /\ pc'[cur'] = "mark"
      BY <2>1, MovesCounted DEF Moves
    <3> QED
      BY <3>1 DEF Inside
  <2>5. mode' # "hang" => OneInside'
    BY <2>1, <2>2, <2>4, MovesOut
  <2> QED
    BY <1>1, <1>2, <2>1, <2>3, <2>5, MovesInv
<1>3. CASE /\ At("mark") /\ cv' = [cv EXCEPT ![cur] = "globalTestVar"] /\ Goto("sleep")
           /\ UNCHANGED <<kept, status, intr, mode, spin, made, globalTestVar>>
  <2>1. Moves("mark", "sleep")
    BY <1>1, <1>3, TestOwnStep DEF kept
  <2>2. MachineTypeOK' /\ cv' \in [Slot -> Conditions \cup {"none"}]
    BY <1>1, <1>3, <2>1 DEF MachineTypeOK, kept, Moves
  <2>3. Inside(cur) <=> Inside(cur)'
    BY <2>1, MovesCounted DEF Inside, Moves
  <2>4. OneInside'
    BY <1>3, <2>1, <2>3, MovesInside
  <2> QED
    BY <1>1, <1>3, <2>1, <2>2, <2>4, MovesInv
<1>4. CASE /\ At("sleep") /\ status' = [status EXCEPT ![cur] = "SLEEPING"] /\ Goto("call")
           /\ UNCHANGED <<kept, intr, mode, spin, made, cv, globalTestVar>>
  <2>1. Moves("sleep", "call")
    BY <1>1, <1>4, TestOwnStep DEF kept
  <2>2. MachineTypeOK'
    BY <1>1, <1>4, <2>1 DEF MachineTypeOK, kept, Status, Moves
  <2>3. Inside(cur) <=> Inside(cur)'
    BY <2>1, MovesCounted DEF Inside, Moves
  <2>4. OneInside'
    BY <1>4, <2>1, <2>3, MovesInside
  <2> QED
    BY <1>1, <1>4, <2>1, <2>2, <2>4, MovesInv
<1>5. CASE /\ At("call") /\ Goto("waiting")
           /\ mode' = "sched" /\ loop' = cur /\ last' = [last EXCEPT ![cur] = UNINIT]
           /\ UNCHANGED <<status, counter, ctx, cur, intr, sctx, spin, made, cv, globalTestVar>>
  <2>1. Moves("call", "waiting")
    BY <1>1, <1>5, TestOwnStep
  <2>2. MachineTypeOK'
    BY <1>1, <1>5, <2>1 DEF MachineTypeOK, Mode, Moves
  <2>3. Inside(cur) <=> Inside(cur)'
    BY <2>1, MovesCounted DEF Inside, Moves
  <2>4. OneInside'
    BY <1>5, <2>1, <2>3, MovesInside
  <2> QED
    BY <1>1, <1>5, <2>1, <2>2, <2>4, MovesInv
<1> QED
  BY <1>2, <1>3, <1>4, <1>5 DEF CondWait

\* The steps of the boot code, the timer and the scheduler, and of thrExit.
LEMMA TestStepInv == TestInv /\ TestStep => TestInv'
<1> SUFFICES ASSUME TestInv, ClientStep, UNCHANGED <<cv, globalTestVar>> PROVE TestInv'
  BY DEF TestStep
<1>1. ClientTypeOK(Label) /\ {"exit", "left"} \subseteq Label
  BY DEF TestInv, TestTypeOK, CvTypeOK, ClientTypeOK, Label
<1>2. /\ ClientTypeOK(Label)' /\ UNCHANGED spin /\ mode' # "hang"
      /\ \/ mode = "sched" /\ pc' = pc
         \/ mode = "thread" /\ cur = NULL /\ pc' = pc
         \/ mode = "thread" /\ intr /\ pc' = pc
         \/ At("left") /\ pc' = pc /\ cur' = cur
         \/ At("exit") /\ pc' = [pc EXCEPT ![cur] = "left"] /\ cur' = cur /\ mode' = mode
  BY <1>1, ClientStepType
<1>3. CASE At("exit") /\ pc' = [pc EXCEPT ![cur] = "left"] /\ cur' = cur /\ mode' = mode
  <2>1. Moves("exit", "left")
    BY <1>1, <1>3, TestOwnStep DEF Goto
  <2>2. Inside(cur) <=> Inside(cur)'
    BY <2>1, MovesCounted DEF Inside, Moves
  <2>3. OneInside'
    BY <1>2, <2>1, <2>2, MovesInside
  <2> QED
    BY <1>2, <2>1, <2>3, MovesInv DEF ClientTypeOK, TestInv, TestTypeOK, CvTypeOK
<1>4. CASE pc' = pc
  <2>1. mode # "hang"
    BY <1>2, <1>3 DEF At
  <2>2. \A s \in Slot : pc[s] \notin {"add", "test", "wait", "print", "printing"}
    <3>1. CASE mode = "thread" /\ cur # NULL /\ pc[cur] = "left"
      BY <3>1 DEF TestInv, Uninterrupted
    <3>2. CASE mode = "sched" \/ cur = NULL \/ intr
      <4>1. cur = NULL => cur \notin Slot
        BY SlotsAssumption DEF Slot, NULL
      <4> QED
        BY <3>2, <4>1, <2>1 DEF TestInv, Uninterrupted
    <3>3. CASE At("exit") /\ pc' = [pc EXCEPT ![cur] = "left"]
      <4>1. cur \in Slot /\ pc[cur] = "exit" /\ pc \in [Slot -> Label]
        BY <1>1, <3>3, AtSlot DEF ClientTypeOK
      <4> QED
        BY <1>4, <3>3, <4>1
    <3> QED
      BY <1>2, <3>1, <3>2, <3>3 DEF At
  <2>3. Uninterrupted' /\ OnlyChangersAdd' /\ PrintsTheChange'
    BY <1>4, <2>2 DEF Uninterrupted, OnlyChangersAdd, PrintsTheChange, TestInv
  <2>4. OneInside'
    BY <1>2, <1>4, <2>1 DEF TestInv, OneInside, Inside
  <2>5. Counted'
    BY <1>4 DEF TestInv, Counted, Changed
  <2>6. TestTypeOK'
    BY <1>2 DEF TestInv, TestTypeOK, CvTypeOK, ClientTypeOK
  <2> QED
    BY <2>3, <2>4, <2>5, <2>6 DEF TestInv
<1> QED
  BY <1>2, <1>3, <1>4

LEMMA TestStutterInv == TestInv /\ UNCHANGED testvars => TestInv'
<1> SUFFICES ASSUME TestInv, UNCHANGED testvars PROVE TestInv'
  OBVIOUS
<1>1. UNCHANGED <<machine, pc, made, cv, globalTestVar>>
  BY DEF testvars
<1>2. TestTypeOK'
  BY <1>1 DEF TestInv, TestTypeOK, CvTypeOK, MachineTypeOK, machine
<1>3. OneInside' /\ Uninterrupted' /\ OnlyChangersAdd'
  BY <1>1 DEF TestInv, OneInside, Inside, Uninterrupted, OnlyChangersAdd, machine
<1>4. Counted' /\ PrintsTheChange'
  BY <1>1 DEF TestInv, Counted, PrintsTheChange, Changed, machine
<1> QED
  BY <1>2, <1>3, <1>4 DEF TestInv

------------------------------------------------------------------------------
(* CvTest: the theorems *)

LEMMA TestInvariance == TestSpec => []TestInv
<1>1. TestInv /\ [TestNext]_testvars => TestInv'
  BY TestEnterInv, TestChangeInv, TestTestInv, TestPrintInv, TestReleaseInv,
     TestNotifyInv, TestWaitInv, TestStepInv, TestStutterInv DEF TestNext
<1> QED
  BY <1>1, TestInitInv, PTL DEF TestSpec

\* Every variable keeps its type; globalTestVar counts in tens.
THEOREM TestTypeCorrect == TestSpec => []TestTypeOK
<1>1. TestInv => TestTypeOK
  BY DEF TestInv
<1> QED
  BY <1>1, TestInvariance, PTL

\* gtLock is taken exactly while one thread is between its lock and its
\* unlock, although the printf in between turns interrupts on.
THEOREM OneInsideCorrect == TestSpec => []OneInside
<1>1. TestInv => OneInside
  BY DEF TestInv
<1> QED
  BY <1>1, TestInvariance, PTL

\* A waiting thread prints only complete changes, and all there are, whoever
\* makes them.
THEOREM PrintsTheChangeCorrect == TestSpec => []PrintsTheChange
<1>1. TestInv => PrintsTheChange
  BY DEF TestInv
<1> QED
  BY <1>1, TestInvariance, PTL
==============================================================================
