----------------------------- MODULE MCSemaphore -----------------------------
(* Two threads, two places, three rounds, three ticks per thread. *)
EXTENDS Semaphore

MCIntMin == -3
==============================================================================
