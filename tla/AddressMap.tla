------------------------------ MODULE AddressMap ------------------------------
(***************************************************************************)
(* What map and rangemap of memory.c promise about an address space: a     *)
(* table of translations, changed only where a call asks for it, page by   *)
(* page in the order of the addresses.                                     *)
(***************************************************************************)
EXTENDS Integers, Sequences

CONSTANTS
  VPAGES,  \* number of virtual pages
  Frame,   \* physical pages
  Flags,   \* what the flags of an entry may be
  None     \* no translation

VARIABLES
  tr,    \* the translation of each virtual page, or None
  want   \* what the current call has still to do

vars == <<tr, want>>

VPage == 0 .. VPAGES - 1

\* n pages from physical page pa on, at n virtual pages from va on.
Requests(pa, va, n, flags) ==
  [k \in 1 .. n |-> [va |-> (va + k - 1) % VPAGES,
                     word |-> [page |-> pa + k - 1, flags |-> flags]]]

Init == tr = [v \in VPage |-> None] /\ want = << >>

Ask == /\ want = << >>
       /\ \E pa \in Frame, va \in VPage, flags \in Flags :
            want' = Requests(pa, va, Len(want'), flags)
       /\ UNCHANGED tr

Serve == /\ want # << >>
         /\ tr' = [tr EXCEPT ![Head(want).va] = Head(want).word]
         /\ want' = Tail(want)

Next == Ask \/ Serve

Spec == Init /\ [][Next]_vars
==============================================================================
