------------------------------- MODULE CondVar -------------------------------
(***************************************************************************)
(* The condition variables of thread.c: thrCondWait, thrCondSignal and     *)
(* thrCondBroadcast.  CvTest and Mutex are clients.                        *)
(*                                                                         *)
(* thrCondWait does not switch to the scheduler: it calls thrSched on the  *)
(* waiting thread's own stack.  That call is a second scheduler loop, and  *)
(* it never returns, so no code of a waiting thread follows it here.       *)
(***************************************************************************)
EXTENDS Client

VARIABLES
  cv,            \* the field cv of thrqueue[i]
  globalTestVar  \* the int that both clients change and print

Conditions == {"globalTestVar", "gm"}

\* What cvTest and mtxTest set globalTestVar to.
Start == 23

CvTypeOK == MachineTypeOK /\ cv \in [Slot -> Conditions \cup {"none"}]

CvInit == ClientInit /\ cv = [s \in Slot |-> "none"] /\ globalTestVar = Start

\* Mutant of WaitRelease: the lock of the condition is kept.
WaitReleaseNot(spl) ==
  LET free == spin["thrque_lock"] = 0 IN
  /\ spin' = [spin EXCEPT !["thrque_lock"] = 1]
  /\ intr' = free
  /\ mode' = IF free THEN mode ELSE "hang"

\* spinlockLock(&thrque_lock); spinlockUnlock(spl), entered with interrupts
\* off; the second of them turns interrupts on.
WaitRelease(spl) ==
  LET free == spin["thrque_lock"] = 0 IN
  /\ spin' = [spin EXCEPT !["thrque_lock"] = 1, ![spl] = IF free THEN 0 ELSE @]
  /\ intr' = free
  /\ mode' = IF free THEN mode ELSE "hang"

(***************************************************************************)
(* thrCondWait(c, spl), entered at label "wait".  Everything after the     *)
(* release of spl runs with interrupts on.                                 *)
(***************************************************************************)
CondWait(c, spl) ==
  \/ /\ At("wait") /\ WaitRelease(spl) /\ Goto("mark")
     /\ UNCHANGED <<kept, status, made, cv, globalTestVar>>
  \/ /\ At("mark") /\ cv' = [cv EXCEPT ![cur] = c] /\ Goto("sleep")
     /\ UNCHANGED <<kept, status, intr, mode, spin, made, globalTestVar>>
  \/ /\ At("sleep") /\ status' = [status EXCEPT ![cur] = "SLEEPING"] /\ Goto("call")
     /\ UNCHANGED <<kept, intr, mode, spin, made, cv, globalTestVar>>
  \/ /\ At("call") /\ Goto("waiting")
     /\ mode' = "sched" /\ loop' = cur /\ last' = [last EXCEPT ![cur] = UNINIT]
     /\ UNCHANGED <<status, counter, ctx, cur, intr, sctx, spin, made, cv, globalTestVar>>

\* The scans of thrCondSignal and thrCondBroadcast start at slot 1.
Scanned(c) == {s \in Slot \ {0} : status[s] = "SLEEPING" /\ cv[s] = c}

Signal(c) ==
  status' = [s \in Slot |-> IF s \in Scanned(c) /\ \A u \in Scanned(c) : s <= u
                            THEN "READY" ELSE status[s]]

Broadcast(c) ==
  status' = [s \in Slot |-> IF s \in Scanned(c) THEN "READY" ELSE status[s]]

------------------------------------------------------------------------------
(* Properties, for both clients *)

(***************************************************************************)
(* concurrency.h:24, "lock spinlock": nobody spins for ever on a lock that *)
(* its holder, or the end of a wait, would release (spinlockLock).         *)
(***************************************************************************)
NoHang == mode # "hang"
==============================================================================
