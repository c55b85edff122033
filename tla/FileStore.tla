------------------------------- MODULE FileStore -------------------------------
(***************************************************************************)
(* What the file system calls of fs.c promise: entries come and go one at  *)
(* a time, a file's contents start empty and grow at their end, and a call *)
(* that works on one file or entry leaves all others alone.  Blocks,       *)
(* bitmaps, sizes, descriptors and the current directory are invisible.    *)
(***************************************************************************)
EXTENDS SequencesExt

CONSTANT Root   \* the number of the root directory

VARIABLES
  entries,  \* records dir, name, ino
  contents  \* the contents of the files that have an entry

store == <<entries, contents>>

Init == entries = {} /\ contents = << >>

Numbers(es) == {e.ino : e \in es}

\* A new file is empty; a directory has no contents.
Create ==
  \E e \in entries' \ entries :
    /\ entries' = entries \cup {e}
    /\ e.ino \notin Numbers(entries) \cup {Root}
    /\ \A g \in entries : <<g.dir, g.name>> # <<e.dir, e.name>>
    /\ DOMAIN contents' \in {DOMAIN contents, DOMAIN contents \cup {e.ino}}
    /\ \A f \in DOMAIN contents' : contents'[f] = IF f = e.ino THEN << >> ELSE contents[f]

AppendBytes ==
  /\ UNCHANGED entries
  /\ \E f \in DOMAIN contents : /\ IsPrefix(contents[f], contents'[f])
                                /\ contents' = [contents EXCEPT ![f] = contents'[f]]

\* The entries of a directory go with it.
RemoveEntry ==
  \E e \in entries :
    /\ entries' = {g \in entries : g # e /\ g.dir # e.ino}
    /\ contents' = [f \in DOMAIN contents \cap Numbers(entries') |-> contents[f]]

Next == Create \/ AppendBytes \/ RemoveEntry

Spec == Init /\ [][Next]_store
==============================================================================
