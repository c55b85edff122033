------------------------------- MODULE MCFiles -------------------------------
(* Three inodes, five data blocks of three bytes or entries, two names. *)
EXTENDS Files

\* No name is special.
MCNames == Permutations(Names)

MCBootBlock == {0}
MCCareful == {}
MCMissing == {"missing"}
==============================================================================
