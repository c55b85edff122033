------------------------------ MODULE MCThreads ------------------------------
(* Three slots, two ticks per thread, counters that wrap soon. *)
EXTENDS Threads

MCIntMin == -4
MCBootOnly == {NULL}
MCBootAndThreads == {NULL, 0, 1}
==============================================================================
