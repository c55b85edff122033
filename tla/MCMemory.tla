------------------------------ MODULE MCMemory ------------------------------
(* Pages of two words, so that there are four virtual pages in two tables. *)
EXTENDS Memory

MCUser == {{"rw", "user"}}
MCPageTest == {}
MCMany == {"many"}
MCDirty == {"dirty"}
==============================================================================
