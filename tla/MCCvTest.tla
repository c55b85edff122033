------------------------------- MODULE MCCvTest -------------------------------
(* Two threads that wait and two that change, three ticks per thread. *)
EXTENDS CvTest

MCIntMin == -2
MCChangers == {1, 3}
==============================================================================
