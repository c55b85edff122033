---------------------------- MODULE MCBlockCache ----------------------------
(* Three buffers, two chains, four blocks, two contents. *)
EXTENDS BlockCache

MCData == {0, 1}
==============================================================================
