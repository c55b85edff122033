------------------------------- MODULE MCShell -------------------------------
(* A screen of two rows of five columns, and lines of three characters. *)
EXTENDS Shell

MCLetters == {"l", "c", "m", "x", "$", "!"}
MCSlow == {}
MCFast == {"fast"}
==============================================================================
