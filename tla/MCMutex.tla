------------------------------- MODULE MCMutex -------------------------------
(* Two or three threads, two rounds each, three ticks per thread. *)
EXTENDS Mutex

MCIntMin == -2
==============================================================================
