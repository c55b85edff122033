--------------------------- MODULE BlockCacheProofs ---------------------------
(***************************************************************************)
(* Proofs about BlockCache, for callers that keep one block at a time and  *)
(* do not read a block again that could not be read: the ring is never     *)
(* broken, a buffer in use is never given away, cached blocks agree with   *)
(* the drive, and the cache implements Disk.                               *)
(***************************************************************************)
EXTENDS BlockCache, FiniteSetTheorems, SequenceTheorems, TLAPS

USE DEF Buf, Node, Block, Key, NULL, BLKHASH

\* Place k of the ring: the head, the buffers of o, and the head again.
At(o, k) == IF k \in 1 .. Len(o) THEN o[k] ELSE NULL

\* The ring over o, by place.
Linked(o, nx, pv) ==
  \A k \in 0 .. Len(o) : nx[At(o, k)] = At(o, k + 1) /\ pv[At(o, k + 1)] = At(o, k)

\* The pointers of x, which is off the ring, still name two neighbours on it.
Between(o, nx, pv, x) ==
  \E k \in 0 .. Len(o) : pv[x] = At(o, k) /\ nx[x] = At(o, k + 1)

\* The inductive invariant.
Ring == IsInjective(order) /\ Linked(order, next, prev)

Idle == \A x \in ToSet(order) : flags[x] = "UNUSED"

Held == /\ \A b, c \in busy : b = c
        /\ \A b \in busy : /\ b \notin bad /\ Hit(b)
                           /\ First(b) \notin ToSet(order)
                           /\ Between(order, next, prev, First(b))

Users == \A b \in Block : user[b] # NULL => b \in busy /\ user[b] = First(b)

Known == \A b \in Block \ (bad \cup busy) : Hit(b) => First(b) \in ToSet(order)

IInv == TypeOK /\ Ring /\ Idle /\ Held /\ Users /\ Known /\ Coherent
------------------------------------------------------------------------------
(* Sequences and rings *)

LEMMA ToSetType ==
  ASSUME NEW S, NEW o \in Seq(S)
  PROVE  ToSet(o) \subseteq S
BY DEF ToSet

\* What a removal leaves of a sequence in which no element occurs twice.
LEMMA RemoveFirstFact ==
  ASSUME NEW S, NEW o \in Seq(S), IsInjective(o), NEW p \in 1 .. Len(o),
         NEW r, r = RemoveFirst(o, o[p])
  PROVE  /\ r \in Seq(S) /\ Len(r) = Len(o) - 1
         /\ \A k \in 1 .. Len(r) : r[k] = IF k < p THEN o[k] ELSE o[k + 1]
<1>1. \A i \in 1 .. Len(o) : o[i] = o[p] <=> i = p
  BY DEF IsInjective
<1> DEFINE I == {i \in 1 .. Len(o) : o[i] = o[p]}
<1>2. I = {p}
  BY <1>1
<1>3. (CHOOSE x \in I : \A y \in I : x <= y) = p
  BY <1>2
<1>4. SelectInSeq(o, LAMBDA v : v = o[p]) = p
  BY <1>2, <1>3 DEF SelectInSeq, Min
<1>5. r = SubSeq(o, 1, p - 1) \o SubSeq(o, p + 1, Len(o))
  BY <1>4 DEF RemoveFirst, RemoveAt
<1> DEFINE u == SubSeq(o, 1, p - 1)
           w == SubSeq(o, p + 1, Len(o))
<1>6. /\ u \in Seq(S) /\ Len(u) = p - 1
      /\ \A k \in 1 .. p - 1 : u[k] = o[k]
  BY SubSeqProperties
<1>7. /\ w \in Seq(S) /\ Len(w) = Len(o) - p
      /\ \A k \in 1 .. Len(o) - p : w[k] = o[p + k]
  BY SubSeqProperties
<1>8. r = u \o w
  BY <1>5
<1> HIDE DEF u, w
<1>9. /\ u \o w \in Seq(S) /\ Len(u \o w) = Len(u) + Len(w)
      /\ \A k \in 1 .. Len(u) + Len(w) : (u \o w)[k] = IF k <= Len(u) THEN u[k] ELSE w[k - Len(u)]
  BY <1>6, <1>7, ConcatProperties, ZenonT(30)
<1>10. Len(r) = Len(o) - 1
  BY <1>6, <1>7, <1>8, <1>9
<1>11. ASSUME NEW k \in 1 .. Len(r) PROVE r[k] = IF k < p THEN o[k] ELSE o[k + 1]
  <2>1. CASE k < p
    BY <2>1, <1>6, <1>7, <1>8, <1>9, <1>10
  <2>2. CASE ~(k < p)
    <3>1. k - Len(u) \in 1 .. Len(o) - p /\ p + (k - Len(u)) = k + 1
      BY <2>2, <1>6, <1>7, <1>10
    <3>2. r[k] = w[k - Len(u)]
      BY <2>2, <1>6, <1>7, <1>8, <1>9, <1>10
    <3> QED
      BY <3>1, <3>2, <2>2, <1>7
  <2> QED
    BY <2>1, <2>2
<1> QED
  BY <1>8, <1>9, <1>10, <1>11

\* What is not in the sequence cannot be removed from it.
LEMMA RemoveFirstNothing ==
  ASSUME NEW o, NEW x, x \notin ToSet(o), Len(o) \in Nat, DOMAIN o = 1 .. Len(o)
  PROVE  RemoveFirst(o, x) = o
BY DEF RemoveFirst, ToSet

\* Neighbours of different places are different.
LEMMA Places ==
  ASSUME NEW o \in Seq(Buf), IsInjective(o)
  PROVE  /\ \A k \in 0 .. Len(o) + 1 : At(o, k) \in Node
         /\ \A j, k \in 0 .. Len(o) : At(o, j) = At(o, k) => j = k
         /\ \A j, k \in 1 .. Len(o) + 1 : At(o, j) = At(o, k) => j = k
         /\ At(o, 0) = NULL /\ At(o, Len(o) + 1) = NULL
<1> USE SizesAssumption
<1>1. /\ NULL \in Node /\ Len(o) \in Nat
      /\ \A k \in 1 .. Len(o) : At(o, k) = o[k] /\ o[k] \in Buf /\ o[k] \in Node /\ o[k] # NULL
      /\ \A k \in 0 .. Len(o) + 1 : k \notin 1 .. Len(o) => At(o, k) = NULL
  BY DEF At
<1>2. \A j, k \in 1 .. Len(o) : o[j] = o[k] => j = k
  BY DEF IsInjective
<1>3. ASSUME NEW j \in 0 .. Len(o) + 1, NEW k \in 0 .. Len(o) + 1, At(o, j) = At(o, k)
      PROVE  j = k \/ (j \notin 1 .. Len(o) /\ k \notin 1 .. Len(o))
  <2> HIDE DEF Node, NULL, Buf
  <2> QED
    BY <1>1, <1>2, <1>3
<1>4. \A k \in 0 .. Len(o) + 1 : k \notin 1 .. Len(o) => k = 0 \/ k = Len(o) + 1
  BY <1>1
<1>5. \A j, k \in 0 .. Len(o) : At(o, j) = At(o, k) => j = k
  <2> SUFFICES ASSUME NEW j \in 0 .. Len(o), NEW k \in 0 .. Len(o), At(o, j) = At(o, k)
               PROVE  j = k
    OBVIOUS
  <2>1. j \in 0 .. Len(o) + 1 /\ k \in 0 .. Len(o) + 1 /\ j # Len(o) + 1 /\ k # Len(o) + 1
    BY <1>1
  <2> QED
    BY <1>3, <1>4, <2>1
<1>6. \A j, k \in 1 .. Len(o) + 1 : At(o, j) = At(o, k) => j = k
  <2> SUFFICES ASSUME NEW j \in 1 .. Len(o) + 1, NEW k \in 1 .. Len(o) + 1, At(o, j) = At(o, k)
               PROVE  j = k
    OBVIOUS
  <2>1. j \in 0 .. Len(o) + 1 /\ k \in 0 .. Len(o) + 1 /\ j # 0 /\ k # 0
    BY <1>1
  <2> QED
    BY <1>3, <1>4, <2>1
<1> QED
  BY <1>1, <1>5, <1>6

\* Buffer x leaves the ring o, nx, pv, and r, n2, p2 is what is left.
Leaves(x, o, nx, pv, r, n2, p2) ==
  /\ r = RemoveFirst(o, x)
  /\ n2 = [nx EXCEPT ![pv[x]] = nx[x]]
  /\ p2 = [pv EXCEPT ![nx[x]] = pv[x]]

\* A buffer that leaves the ring leaves a ring.
LEMMA UnlinkRing ==
  ASSUME NEW o \in Seq(Buf), IsInjective(o),
         NEW nx \in [Node -> Node], NEW pv \in [Node -> Node], Linked(o, nx, pv),
         NEW x \in ToSet(o), NEW r, NEW n2, NEW p2, Leaves(x, o, nx, pv, r, n2, p2)
  PROVE  /\ r \in Seq(Buf) /\ IsInjective(r) /\ Linked(r, n2, p2)
         /\ x \notin ToSet(r) /\ ToSet(r) = ToSet(o) \ {x}
         /\ Between(r, n2, p2, x)
<1> PICK p \in 1 .. Len(o) : o[p] = x
  BY DEF ToSet
<1>1. /\ r \in Seq(Buf) /\ Len(r) = Len(o) - 1
      /\ \A k \in 1 .. Len(r) : r[k] = IF k < p THEN o[k] ELSE o[k + 1]
  <2>1. r = RemoveFirst(o, o[p])
    BY DEF Leaves
  <2> HIDE DEF Buf
  <2> QED
    BY <2>1, RemoveFirstFact, SMTT(30)
<1>2. \A i, j \in 1 .. Len(o) : o[i] = o[j] => i = j
  BY DEF IsInjective
<1>20. \A i \in 1 .. Len(o) : o[i] = x <=> i = p
  BY <1>2
<1>3. IsInjective(r)
  <2> SUFFICES ASSUME NEW i \in 1 .. Len(r), NEW j \in 1 .. Len(r), r[i] = r[j]
               PROVE  i = j
    BY <1>1 DEF IsInjective
  <2>0. ASSUME NEW k \in 1 .. Len(r)
        PROVE  \E a \in 1 .. Len(o) : a = (IF k < p THEN k ELSE k + 1) /\ r[k] = o[a]
    <3>1. k \in 1 .. Len(o) /\ k + 1 \in 1 .. Len(o)
      BY <1>1
    <3>2. r[k] = IF k < p THEN o[k] ELSE o[k + 1]
      BY <1>1
    <3> QED
      BY <3>1, <3>2
  <2>1. PICK a \in 1 .. Len(o) : a = (IF i < p THEN i ELSE i + 1) /\ r[i] = o[a]
    BY <2>0
  <2>2. PICK b \in 1 .. Len(o) : b = (IF j < p THEN j ELSE j + 1) /\ r[j] = o[b]
    BY <2>0
  <2>3. a = b
    BY <1>2, <2>1, <2>2
  <2> QED
    BY <2>1, <2>2, <2>3
<1>4. x \notin ToSet(r) /\ ToSet(r) = ToSet(o) \ {x}
  <2>1. ASSUME NEW k \in 1 .. Len(r) PROVE r[k] # x /\ r[k] \in ToSet(o)
    <3>1. PICK j \in 1 .. Len(o) : r[k] = o[j] /\ j # p
      <4>1. CASE k < p
        BY <4>1, <1>1
      <4>2. CASE k >= p
        BY <4>2, <1>1
      <4> QED
        BY <4>1, <4>2
    <3> QED
      BY <3>1, <1>20 DEF ToSet
  <2>2. ToSet(r) = {r[k] : k \in 1 .. Len(r)}
    BY <1>1 DEF ToSet
  <2>3. ASSUME NEW y \in ToSet(o) \ {x} PROVE y \in ToSet(r)
    <3>1. PICK i \in 1 .. Len(o) : o[i] = y
      BY DEF ToSet
    <3>2. CASE i < p
      <4>1. i \in 1 .. Len(r) /\ r[i] = y
        BY <3>1, <3>2, <1>1
      <4> QED
        BY <4>1, <2>2
    <3>3. CASE i > p
      <4>1. i - 1 \in 1 .. Len(r) /\ r[i - 1] = y
        BY <3>1, <3>3, <1>1
      <4> QED
        BY <4>1, <2>2
    <3> QED
      BY <3>1, <3>2, <3>3
  <2> QED
    BY <2>1, <2>2, <2>3
<1>5. \A k \in 0 .. Len(r) + 1 : At(r, k) = IF k < p THEN At(o, k) ELSE At(o, k + 1)
  BY <1>1 DEF At
<1>6. pv[x] = At(o, p - 1) /\ nx[x] = At(o, p + 1) /\ x = At(o, p)
  <2>1. p - 1 \in 0 .. Len(o) /\ p \in 0 .. Len(o) /\ (p - 1) + 1 = p /\ At(o, p) = x
    BY DEF At
  <2> QED
    BY <2>1 DEF Linked
<1>7. \A k \in 0 .. Len(o) : nx[At(o, k)] = At(o, k + 1) /\ pv[At(o, k + 1)] = At(o, k)
  BY DEF Linked
<1>8. /\ \A y \in Node : n2[y] = IF y = At(o, p - 1) THEN At(o, p + 1) ELSE nx[y]
      /\ \A y \in Node : p2[y] = IF y = At(o, p + 1) THEN At(o, p - 1) ELSE pv[y]
  BY <1>6 DEF Leaves
<1>9. /\ \A k \in 0 .. Len(o) + 1 : At(o, k) \in Node
      /\ \A i, j \in 0 .. Len(o) : At(o, i) = At(o, j) => i = j
      /\ \A i, j \in 1 .. Len(o) + 1 : At(o, i) = At(o, j) => i = j
  BY Places
<1>10. ASSUME NEW k \in 0 .. Len(r)
       PROVE  n2[At(r, k)] = At(r, k + 1) /\ p2[At(r, k + 1)] = At(r, k)
  <2>1. CASE k = p - 1
    <3>1. At(r, k) = At(o, p - 1) /\ At(r, k + 1) = At(o, p + 1)
      BY <2>1, <1>1, <1>5
    <3>2. At(o, p - 1) \in Node /\ At(o, p + 1) \in Node
      BY <1>9
    <3> QED
      BY <3>1, <3>2, <1>8
  <2>2. CASE k # p - 1
    <3>1. PICK j \in 0 .. Len(o) : /\ j # p - 1 /\ j # p
                                   /\ At(r, k) = At(o, j) /\ At(r, k + 1) = At(o, j + 1)
      <4>0. p \in 1 .. Len(o) /\ Len(r) = Len(o) - 1 /\ Len(o) \in Nat
        BY <1>1
      <4>1. CASE k < p - 1
        <5>1. k \in 0 .. Len(o) /\ k \in 0 .. Len(r) + 1 /\ k + 1 \in 0 .. Len(r) + 1 /\ k + 1 < p
          BY <4>0, <4>1
        <5>2. At(r, k) = At(o, k) /\ At(r, k + 1) = At(o, k + 1)
          BY <1>5, <5>1
        <5> QED
          BY <4>0, <4>1, <5>1, <5>2
      <4>2. CASE k > p - 1
        <5> DEFINE i == k + 1
        <5>1. /\ i \in 0 .. Len(o) /\ k \in 0 .. Len(r) + 1 /\ i \in 0 .. Len(r) + 1
              /\ ~(k < p) /\ ~(i < p) /\ i # p - 1 /\ i # p
          BY <4>0, <4>2
        <5>2. At(r, k) = At(o, k + 1) /\ At(r, i) = At(o, i + 1)
          BY <1>5, <5>1
        <5> QED
          BY <5>1, <5>2
      <4> QED
        BY <4>1, <4>2, <2>2
    <3>2. At(o, j) # At(o, p - 1) /\ At(o, j) \in Node
      BY <3>1, <1>9
    <3>3. At(o, j + 1) # At(o, p + 1) /\ At(o, j + 1) \in Node
      <4>1. j + 1 \in 1 .. Len(o) + 1 /\ p + 1 \in 1 .. Len(o) + 1 /\ j + 1 # p + 1
        BY <3>1
      <4> QED
        BY <4>1, <1>9
    <3>4. n2[At(o, j)] = At(o, j + 1) /\ p2[At(o, j + 1)] = At(o, j)
      BY <3>2, <3>3, <1>7, <1>8
    <3> QED
      BY <3>1, <3>4
  <2> QED
    BY <2>1, <2>2
<1>11. n2[x] = nx[x] /\ p2[x] = pv[x]
  <2>1. x \in Node /\ At(o, p) # At(o, p - 1) /\ At(o, p) # At(o, p + 1)
    <3>1. p + 1 \in 1 .. Len(o) + 1 /\ p - 1 \in 0 .. Len(o) /\ p \in 0 .. Len(o)
      OBVIOUS
    <3> QED
      BY <3>1, <1>6, <1>9
  <2> QED
    BY <2>1, <1>6, <1>8
<1>12. Between(r, n2, p2, x)
  <2>1. At(r, p - 1) = At(o, p - 1) /\ At(r, p) = At(o, p + 1) /\ p - 1 \in 0 .. Len(r)
    BY <1>1, <1>5
  <2> QED
    BY <2>1, <1>6, <1>11 DEF Between
<1> QED
  BY <1>1, <1>3, <1>4, <1>10, <1>12 DEF Linked

\* Nothing happens when a buffer that is off the ring leaves it again.
LEMMA UnlinkTwice ==
  ASSUME NEW o \in Seq(Buf), NEW nx \in [Node -> Node], NEW pv \in [Node -> Node],
         NEW x, Linked(o, nx, pv), Between(o, nx, pv, x), x \notin ToSet(o),
         NEW r, NEW n2, NEW p2, Leaves(x, o, nx, pv, r, n2, p2)
  PROVE  r = o /\ n2 = nx /\ p2 = pv
BY RemoveFirstNothing DEF Linked, Between, Leaves

\* Buffer x goes to the end of the ring o, nx, pv.
Joins(x, o, nx, pv, r, n2, p2) ==
  /\ r = Append(o, x)
  /\ n2 = [nx EXCEPT ![pv[NULL]] = x, ![x] = NULL]
  /\ p2 = [pv EXCEPT ![x] = pv[NULL], ![NULL] = x]

\* A released buffer becomes the last of the ring.
LEMMA ReleaseRing ==
  ASSUME NEW o \in Seq(Buf), IsInjective(o),
         NEW nx \in [Node -> Node], NEW pv \in [Node -> Node], Linked(o, nx, pv),
         NEW x \in Buf, x \notin ToSet(o),
         NEW r, NEW n2, NEW p2, Joins(x, o, nx, pv, r, n2, p2)
  PROVE  /\ r \in Seq(Buf) /\ IsInjective(r) /\ Linked(r, n2, p2)
         /\ ToSet(r) = ToSet(o) \cup {x}
<1>1. r \in Seq(Buf) /\ Len(r) = Len(o) + 1
      /\ \A k \in 1 .. Len(r) : r[k] = IF k <= Len(o) THEN o[k] ELSE x
  BY DEF Joins
<1>2. \A k \in 1 .. Len(o) : o[k] # x
  BY DEF ToSet
<1>3. IsInjective(r)
  BY <1>1, <1>2 DEF IsInjective
<1>4. ToSet(r) = ToSet(o) \cup {x}
  BY <1>1 DEF ToSet
<1>5. \A k \in 0 .. Len(r) + 1 : At(r, k) = IF k = Len(r) THEN x ELSE At(o, k)
  BY <1>1 DEF At
<1>6. pv[NULL] = At(o, Len(o))
  BY Places DEF Linked
<1>7. \A k \in 0 .. Len(o) : nx[At(o, k)] = At(o, k + 1) /\ pv[At(o, k + 1)] = At(o, k)
  BY DEF Linked
<1>8. x # NULL /\ \A k \in 0 .. Len(o) + 1 : At(o, k) # x
  BY <1>2, SizesAssumption DEF At
<1>9. /\ \A y \in Node : n2[y] = IF y = x THEN NULL ELSE IF y = pv[NULL] THEN x ELSE nx[y]
      /\ \A y \in Node : p2[y] = IF y = NULL THEN x ELSE IF y = x THEN pv[NULL] ELSE pv[y]
  BY <1>8 DEF Joins
<1>10. ASSUME NEW k \in 0 .. Len(r)
       PROVE  n2[At(r, k)] = At(r, k + 1) /\ p2[At(r, k + 1)] = At(r, k)
  <2>1. CASE k < Len(o)
    <3>1. At(o, k) # pv[NULL] /\ At(o, k + 1) # NULL
      BY <2>1, <1>6, Places
    <3> QED
      <4>1. /\ At(o, k) \in Node /\ At(o, k + 1) \in Node
            /\ At(o, k) # x /\ At(o, k + 1) # x
        BY <2>1, <1>8, Places
      <4>2. n2[At(o, k)] = At(o, k + 1) /\ p2[At(o, k + 1)] = At(o, k)
        <5>1. k \in 0 .. Len(o)
          BY <2>1
        <5>2. nx[At(o, k)] = At(o, k + 1) /\ pv[At(o, k + 1)] = At(o, k)
          BY <5>1, <1>7
        <5> QED
          BY <3>1, <4>1, <5>2, <1>9
      <4> QED
        BY <4>2, <2>1, <1>1, <1>5
  <2>2. CASE k = Len(o)
    BY <2>2, <1>1, <1>5, <1>6, <1>8, <1>9, Places
  <2>3. CASE k = Len(o) + 1
    <3>1. At(r, k) = x /\ At(r, k + 1) = NULL
      BY <2>3, <1>1 DEF At
    <3> QED
      BY <3>1, <1>8, <1>9, Places
  <2> QED
    BY <2>1, <2>2, <2>3, <1>1
<1> QED
  BY <1>1, <1>3, <1>4, <1>10 DEF Linked

------------------------------------------------------------------------------
(* getCachedBlock *)

\* Only the block that is held may be used.
LEMMA OneBlock ==
  ASSUME Hold = 1, Retries = FALSE, busy \subseteq Block, NEW b \in Block, MayUse(b)
  PROVE  busy \cup {b} = {b} /\ b \notin bad
<1>1. IsFiniteSet(busy \cup {b})
  <2>1. IsFiniteSet(0 .. NBLOCK - 1)
    BY SizesAssumption, FS_Interval
  <2> QED
    BY <2>1, FS_Subset
<1>2. IsFiniteSet((busy \cup {b}) \ {b}) /\ Cardinality((busy \cup {b}) \ {b}) = 0
  <2> DEFINE T == busy \cup {b}
  <2>1. IsFiniteSet(T \ {b}) /\ Cardinality(T \ {b}) = Cardinality(T) - 1
    BY <1>1, FS_RemoveElement
  <2>2. Cardinality(T) <= 1 /\ Cardinality(T) \in Nat /\ Cardinality(T \ {b}) \in Nat
    BY <1>1, <2>1, FS_CardinalityType DEF MayUse
  <2> QED
    BY <2>1, <2>2
<1>3. (busy \cup {b}) \ {b} = {}
  BY <1>2, FS_EmptySet
<1> QED
  BY <1>3 DEF MayUse

\* getCachedBlock returns x for b.
Returned(x, b) == x = Got(b)

\* The buffer that getCachedBlock returns for a block that may be used.
LEMMA GetEffect ==
  ASSUME Hold = 1, Retries = FALSE, IInv, NEW b \in Block, MayUse(b), Get(b),
         NEW x, Returned(x, b)
  PROVE  /\ x \in Buf /\ First(b)' = x /\ Hit(b)'
         /\ x \notin ToSet(order') /\ ToSet(order) \ {x} = ToSet(order')
         /\ order' \in Seq(Buf) /\ next' \in [Node -> Node] /\ prev' \in [Node -> Node]
         /\ IsInjective(order') /\ Linked(order', next', prev')
         /\ Between(order', next', prev', x)
         /\ Hit(b) \/ x \in ToSet(order)
         /\ block' \in [Buf -> Block \cup {-1}] /\ chain' \in [Key -> Node]
         /\ \A c \in Block \ {b} : Hit(c)' => Hit(c) /\ First(c)' = First(c) /\ First(c) # x
<1> USE SizesAssumption
<1>1. busy \cup {b} = {b} /\ b \notin bad
  BY OneBlock DEF IInv, TypeOK
<1>2. \A c \in Block : c % BLK_HASH_SIZE \in Key
  OBVIOUS
<1>0. /\ order \in Seq(Buf) /\ IsInjective(order) /\ Linked(order, next, prev)
      /\ next \in [Node -> Node] /\ prev \in [Node -> Node]
      /\ block \in [Buf -> Block \cup {-1}] /\ chain \in [Key -> Node]
      /\ b % BLK_HASH_SIZE \in Key
  BY DEF IInv, TypeOK, Ring
<1>20. block' = [block EXCEPT ![x] = b] /\ chain' = [chain EXCEPT ![BLKHASH(b)] = x]
  BY DEF Get, Rehash, Returned
<1>3. Hit(b) => x = First(b) /\ x \in Buf
  BY <1>0 DEF Got, Returned, Hit, First
<1>4. ASSUME x \in Buf
      PROVE  /\ First(b)' = x /\ Hit(b)'
             /\ block' \in [Buf -> Block \cup {-1}] /\ chain' \in [Key -> Node]
             /\ \A c \in Block \ {b} : Hit(c)' => Hit(c) /\ First(c)' = First(c) /\ First(c) # x
  BY <1>0, <1>2, <1>20, <1>4 DEF First, Hit
<1>5. ASSUME x \in Buf, x \in ToSet(order), Leaves(x, order, next, prev, order', next', prev')
      PROVE  /\ order' \in Seq(Buf) /\ IsInjective(order') /\ Linked(order', next', prev')
             /\ x \notin ToSet(order') /\ ToSet(order') = ToSet(order) \ {x}
             /\ Between(order', next', prev', x)
             /\ next' \in [Node -> Node] /\ prev' \in [Node -> Node]
  <2>1. next' \in [Node -> Node] /\ prev' \in [Node -> Node]
    BY <1>0, <1>5 DEF Leaves
  <2> QED
    <3> HIDE DEF Buf, Node, NULL
    <3> QED
      BY <1>0, <1>5, <2>1, UnlinkRing, SMTT(30)
<1>6. CASE Hit(b) /\ b \in busy
  <2>1. x \notin ToSet(order) /\ Between(order, next, prev, x)
    BY <1>3, <1>6 DEF IInv, Held
  <2>2. Leaves(x, order, next, prev, order', next', prev')
    BY <1>6 DEF Get, Unlink, Leaves, Returned
  <2>3. order' = order /\ next' = next /\ prev' = prev
    BY <1>0, <2>1, <2>2, UnlinkTwice
  <2> QED
    BY <1>0, <1>3, <1>4, <1>6, <2>1, <2>3
<1>7. CASE Hit(b) /\ b \notin busy
  <2>1. x \in ToSet(order)
    BY <1>1, <1>3, <1>7 DEF IInv, Known
  <2>2. Leaves(x, order, next, prev, order', next', prev')
    BY <1>7 DEF Get, Unlink, Leaves, Returned
  <2> QED
    BY <1>3, <1>4, <1>5, <1>7, <2>1, <2>2
<1>8. CASE ~Hit(b)
  <2>1. x = next[NULL] /\ x \in Buf
    BY <1>0, <1>8 DEF Got, Returned, Get, Exhausted
  <2>2. Len(order) # 0 /\ order[1] = x /\ prev[x] = NULL
    <3>1. next[At(order, 0)] = At(order, 1) /\ prev[At(order, 1)] = At(order, 0)
      BY <1>0 DEF Linked
    <3> QED
      BY <1>0, <2>1, <3>1 DEF At
  <2>3. x \in ToSet(order)
    BY <1>0, <2>2 DEF ToSet
  <2>4. Leaves(x, order, next, prev, order', next', prev')
    BY <1>8, <2>2 DEF Get, Unlink, Leaves, Returned
  <2> QED
    BY <1>4, <1>5, <1>8, <2>1, <2>3, <2>4
<1> QED
  BY <1>6, <1>7, <1>8

------------------------------------------------------------------------------
(* The inductive invariant *)

\* Init establishes it.
LEMMA InitInv == Init => IInv
<1> SUFFICES ASSUME Init PROVE IInv
  OBVIOUS
<1> USE SizesAssumption, DataAssumption DEF Init
<1>1. TypeOK
  <2>1. next \in [Node -> Node] /\ prev \in [Node -> Node]
    OBVIOUS
  <2>2. order \in Seq(Buf)
    OBVIOUS
  <2> QED
    BY <2>1, <2>2 DEF TypeOK
<1>2. \A b \in Block : ~Hit(b)
  BY DEF Hit, First
<1>3. Ring
  <2>1. Len(order) = BCACHE_SIZE /\ IsInjective(order)
    BY DEF IsInjective
  <2>2. \A k \in 0 .. BCACHE_SIZE + 1 :
          At(order, k) = IF k \in 1 .. BCACHE_SIZE THEN BCACHE_SIZE - k ELSE NULL
    BY <2>1 DEF At
  <2>3. ASSUME NEW k \in 0 .. Len(order)
        PROVE  next[At(order, k)] = At(order, k + 1) /\ prev[At(order, k + 1)] = At(order, k)
    <3>1. CASE k = 0
      BY <3>1, <2>1, <2>2
    <3>2. CASE k \in 1 .. BCACHE_SIZE - 1
      <4>1. At(order, k) = BCACHE_SIZE - k /\ At(order, k + 1) = BCACHE_SIZE - (k + 1)
        BY <3>2, <2>2
      <4> DEFINE x == BCACHE_SIZE - k
                 y == BCACHE_SIZE - (k + 1)
      <4>2. x \in Node /\ y \in Node /\ x # NULL /\ y # BCACHE_SIZE - 1 /\ y = x - 1 /\ x = y + 1
        BY <3>2
      <4> HIDE DEF x, y
      <4>3. next[x] = y
        BY <4>2
      <4>4. prev[y] = x
        BY <4>2
      <4> QED
        BY <4>1, <4>3, <4>4 DEF x, y
    <3>3. CASE k = BCACHE_SIZE
      <4>1. At(order, k) = 0 /\ At(order, k + 1) = NULL
        BY <3>3, <2>2
      <4> QED
        BY <4>1
    <3> QED
      BY <3>1, <3>2, <3>3, <2>1
  <2> QED
    BY <2>1, <2>3 DEF Ring, Linked
<1>4. Idle
  BY DEF Idle, ToSet
<1> QED
  BY <1>1, <1>2, <1>3, <1>4 DEF IInv, Held, Users, Known, Coherent

\* What getCachedBlock has done when a buffer has been used for block b and
\* marked as valid.
LEMMA UseInv ==
  ASSUME Hold = 1, Retries = FALSE, IInv, NEW b \in Block, MayUse(b), Get(b),
         NEW x, Returned(x, b),
         flags' = [flags EXCEPT ![x] = "VALID"], Took(b),
         user' = user \/ user' = [user EXCEPT ![b] = x]
  PROVE  Ring' /\ Idle' /\ Held' /\ Users' /\ Known'
<1>1. busy \cup {b} = {b} /\ b \notin bad
  BY OneBlock DEF IInv, TypeOK
<1>2. busy' = {b} /\ bad' = bad
  BY <1>1 DEF Took
<1>3. /\ x \in Buf /\ First(b)' = x /\ Hit(b)'
      /\ x \notin ToSet(order') /\ ToSet(order) \ {x} = ToSet(order')
      /\ IsInjective(order') /\ Linked(order', next', prev')
      /\ Between(order', next', prev', x)
      /\ \A c \in Block \ {b} : Hit(c)' => Hit(c) /\ First(c)' = First(c) /\ First(c) # x
  BY GetEffect
<1>4. Ring'
  BY <1>3 DEF Ring
<1>5. Idle'
  <2>1. flags \in [Buf -> {"UNUSED", "VALID"}] /\ \A y \in ToSet(order) : flags[y] = "UNUSED"
    BY DEF IInv, TypeOK, Idle
  <2>2. ToSet(order) \subseteq Buf
    <3>1. order \in Seq(Buf)
      BY DEF IInv, TypeOK
    <3> QED
      BY <3>1, ToSetType
  <2> QED
    BY <1>3, <2>1, <2>2 DEF Idle
<1>6. Held'
  <2>1. b \notin bad' /\ Hit(b)' /\ (First(b) \notin ToSet(order))'
    BY <1>1, <1>2, <1>3
  <2>2. Between(order, next, prev, First(b))'
    BY <1>3
  <2> QED
    BY <1>2, <2>1, <2>2 DEF Held
<1>7. Users'
  <2>1. \A c \in Block : user[c] # NULL => c = b /\ user[c] = First(c) /\ Hit(c)
    BY <1>1 DEF IInv, Users, Held
  <2>2. user[b] # NULL => user[b] = x
    BY <2>1 DEF Returned, Got
  <2>3. \A c \in Block : user'[c] # NULL => c = b /\ user'[c] = x
    BY <2>1, <2>2 DEF IInv, TypeOK
  <2> QED
    BY <1>2, <1>3, <2>3 DEF Users
<1>8. Known'
  <2>1. \A c \in Block \ {b} : Hit(c) /\ c \notin bad => First(c) \in ToSet(order)
    BY <1>1 DEF IInv, Known
  <2> QED
    BY <1>2, <1>3, <2>1 DEF Known
<1> QED
  BY <1>4, <1>5, <1>6, <1>7, <1>8

\* The block that getCachedBlock finds for a block that may be used agrees
\* with the drive, and so do the copies of the other blocks.
LEMMA OthersAgree ==
  ASSUME Hold = 1, Retries = FALSE, IInv, NEW b \in Block, MayUse(b), Get(b),
         NEW x, Returned(x, b), bad' = bad,
         \A y \in Buf \ {x} : data'[y] = data[y],
         \A c \in Block \ {b} : disk'[c] = disk[c],
         data'[x] = disk'[b]
  PROVE  Coherent'
<1>1. /\ First(b)' = x
      /\ \A c \in Block \ {b} : Hit(c)' => Hit(c) /\ First(c)' = First(c) /\ First(c) # x
  BY GetEffect
<1>2. \A c \in Block : Hit(c) => First(c) \in Buf
  <2>1. chain \in [Key -> Node] /\ \A c \in Block : c % BLK_HASH_SIZE \in Key
    BY SizesAssumption DEF IInv, TypeOK
  <2> QED
    BY <2>1 DEF Hit, First
<1>3. \A c \in Block \ bad : Hit(c) => data[First(c)] = disk[c]
  BY DEF IInv, Coherent
<1> QED
  BY <1>1, <1>2, <1>3 DEF Coherent

LEMMA HitAgrees ==
  ASSUME Hold = 1, Retries = FALSE, IInv, NEW b \in Block, MayUse(b), Hit(b)
  PROVE  data[Got(b)] = disk[b] /\ b \notin bad
BY OneBlock DEF IInv, Coherent, Got, TypeOK

\* blockRead finds a valid buffer only when it finds the block: buffers that
\* are ready for replacement are not valid.
LEMMA ValidIsHit ==
  ASSUME Hold = 1, Retries = FALSE, IInv, NEW b \in Block, MayUse(b), Get(b)
  PROVE  GotFlags(b) = "VALID" <=> Hit(b)
<1>1. Returned(Got(b), b)
  BY DEF Returned
<1>2. Hit(b) \/ Got(b) \in ToSet(order)
  BY <1>1, GetEffect
<1> QED
  BY <1>2 DEF GotFlags, IInv, Idle

\* What a call does with the buffer x that getCachedBlock has returned for b.
LEMMA GotInv ==
  ASSUME Hold = 1, Retries = FALSE, IInv, NEW b \in Block, MayUse(b), Get(b),
         NEW x, Returned(x, b),
         flags' = [flags EXCEPT ![x] = "VALID"], Took(b),
         user' = user \/ user' = [user EXCEPT ![b] = x],
         NEW d \in Data, data' = [data EXCEPT ![x] = d], disk' = [disk EXCEPT ![b] = d],
         answer' \in [block : Block, data : Data] \cup {Failure}, UNCHANGED lost
  PROVE  IInv'
<1>1. x \in Buf /\ order' \in Seq(Buf) /\ next' \in [Node -> Node] /\ prev' \in [Node -> Node]
      /\ block' \in [Buf -> Block \cup {-1}] /\ chain' \in [Key -> Node]
  BY GetEffect
<1>2. TypeOK'
  <2>1. flags' \in [Buf -> {"UNUSED", "VALID"}] /\ data' \in [Buf -> Data]
        /\ disk' \in [Block -> Data] /\ lost' \in BOOLEAN
    BY <1>1 DEF IInv, TypeOK
  <2>2. user' \in [Block -> Node] /\ busy' \subseteq Block /\ bad' \subseteq Block
    BY <1>1 DEF IInv, TypeOK, Took
  <2> QED
    BY <1>1, <2>1, <2>2 DEF TypeOK
<1>3. Ring' /\ Idle' /\ Held' /\ Users' /\ Known'
  BY UseInv
<1>4. Coherent'
  <2>1. bad' = bad
    BY DEF Took
  <2>2. \A y \in Buf \ {x} : data'[y] = data[y]
    BY DEF IInv, TypeOK
  <2>3. \A c \in Block \ {b} : disk'[c] = disk[c]
    BY DEF IInv, TypeOK
  <2>4. data'[x] = d /\ disk'[b] = d
    BY <1>1 DEF IInv, TypeOK
  <2> QED
    BY <2>1, <2>2, <2>3, <2>4, OthersAgree
<1> QED
  BY <1>2, <1>3, <1>4 DEF IInv

LEMMA ReadCachedInv ==
  ASSUME Hold = 1, Retries = FALSE, IInv, NEW b \in Block, ReadCached(b)
  PROVE  IInv' /\ answer' = [block |-> b, data |-> disk[b]]
<1>1. Hit(b) /\ data[Got(b)] = disk[b]
  BY ValidIsHit, HitAgrees DEF ReadCached
<1>2. answer' = [block |-> b, data |-> disk[b]]
  BY <1>1 DEF ReadCached, Reply
<1>3. disk[b] \in Data /\ disk' = [disk EXCEPT ![b] = disk[b]]
      /\ data' = [data EXCEPT ![Got(b)] = disk[b]]
  BY <1>1 DEF ReadCached, IInv, TypeOK
<1> QED
  BY <1>2, <1>3, GotInv DEF ReadCached, Returned

LEMMA ReadDiskInv ==
  ASSUME Hold = 1, Retries = FALSE, IInv, NEW b \in Block, ReadDisk(b)
  PROVE  IInv' /\ answer' = [block |-> b, data |-> disk[b]]
<1>1. Got(b) \in Buf
  BY GetEffect DEF ReadDisk, Returned
<1>2. answer' = [block |-> b, data |-> disk[b]]
  BY <1>1 DEF ReadDisk, Reply, IInv, TypeOK
<1>3. disk[b] \in Data /\ disk' = [disk EXCEPT ![b] = disk[b]]
  BY DEF ReadDisk, IInv, TypeOK
<1> QED
  BY <1>2, <1>3, GotInv DEF ReadDisk, Returned

LEMMA WriteInv ==
  ASSUME Hold = 1, Retries = FALSE, IInv, NEW b \in Block, NEW d \in Data, Write(b, d)
  PROVE  IInv' /\ disk' = [disk EXCEPT ![b] = d] /\ UNCHANGED answer
<1>1. answer' \in [block : Block, data : Data] \cup {Failure}
  BY DEF Write, IInv, TypeOK
<1> QED
  BY <1>1, GotInv DEF Write, Transfer, Returned

\* The caller holds the buffer that getCachedBlock returns again.
LEMMA WriteBackInv ==
  ASSUME Hold = 1, Retries = FALSE, IInv, NEW b \in Block, NEW d \in Data, WriteBack(b, d)
  PROVE  IInv' /\ disk' = [disk EXCEPT ![b] = d] /\ UNCHANGED answer
<1>1. b \in busy /\ user[b] = First(b) /\ Hit(b)
  BY DEF WriteBack, IInv, Users, Held
<1>2. block[user[b]] = b /\ Got(b) = user[b]
  BY <1>1 DEF Hit, Got
<1>3. user[b] \in Buf
  BY DEF WriteBack, IInv, TypeOK
<1>4. /\ flags' = [flags EXCEPT ![Got(b)] = "VALID"]
      /\ data' = [data EXCEPT ![Got(b)] = d]
      /\ disk' = [disk EXCEPT ![b] = d]
      /\ Took(b) /\ UNCHANGED <<user, lost, answer>>
  BY <1>1, <1>2, <1>3 DEF WriteBack, Took, callers, IInv, TypeOK
<1>5. MayUse(b) /\ Get(b) /\ answer' \in [block : Block, data : Data] \cup {Failure}
  BY <1>2, <1>4 DEF WriteBack, IInv, TypeOK
<1> QED
  BY <1>4, <1>5, GotInv DEF Returned

\* The read of a block fails: its buffer is lost, nobody holds a block, and
\* the block is not used again.
LEMMA ReadFailsInv ==
  ASSUME Hold = 1, Retries = FALSE, IInv, NEW b \in Block, ReadFails(b)
  PROVE  IInv'
<1>1. ~Hit(b) /\ busy = {}
  <2>1. MayUse(b) /\ Get(b) /\ GotFlags(b) # "VALID"
    BY DEF ReadFails
  <2>2. busy \cup {b} = {b} /\ ~Hit(b)
    BY <2>1, ValidIsHit, OneBlock DEF IInv, TypeOK
  <2> QED
    BY <2>2 DEF IInv, Held
<1> DEFINE x == Got(b)
<1>2. Returned(x, b) /\ MayUse(b) /\ Get(b)
  BY DEF Returned, ReadFails
<1> HIDE DEF x
<1>3. /\ x \in Buf /\ order' \in Seq(Buf)
      /\ next' \in [Node -> Node] /\ prev' \in [Node -> Node]
      /\ block' \in [Buf -> Block \cup {-1}] /\ chain' \in [Key -> Node]
      /\ ToSet(order) \ {x} = ToSet(order')
      /\ IsInjective(order') /\ Linked(order', next', prev')
      /\ \A c \in Block \ {b} : Hit(c)' => Hit(c) /\ First(c)' = First(c) /\ First(c) # x
  BY <1>2, GetEffect
<1>4. /\ answer' = Failure /\ bad' = bad \cup {b}
      /\ UNCHANGED <<flags, data, disk, lost, user, busy>>
  BY DEF ReadFails
<1>5. TypeOK'
  BY <1>3, <1>4 DEF IInv, TypeOK
<1>6. Ring' /\ Idle' /\ Held' /\ Users'
  BY <1>1, <1>3, <1>4 DEF Ring, Idle, Held, Users, IInv
<1>7. Known' /\ Coherent'
  BY <1>1, <1>3, <1>4 DEF Known, Coherent, IInv
<1> QED
  BY <1>5, <1>6, <1>7 DEF IInv

LEMMA RunOutInv ==
  ASSUME IInv, NEW b \in Block, RunOut(b)
  PROVE  IInv'
BY DEF RunOut, IInv, TypeOK, Ring, Idle, Held, Users, Known, Coherent, Hit, First,
       cache, callers

\* A released buffer becomes the last of the ring.
LEMMA ReleaseInv ==
  ASSUME IInv, NEW b \in Block, Release(b)
  PROVE  IInv'
<1>1. /\ user[b] \in Buf /\ user[b] = First(b) /\ busy = {b} /\ b \notin bad
      /\ First(b) \notin ToSet(order)
  <2>1. user[b] # NULL /\ user[b] \in Node
    BY DEF Release, IInv, TypeOK
  <2>2. b \in busy /\ user[b] = First(b)
    BY <2>1 DEF IInv, Users
  <2>3. busy = {b} /\ b \notin bad /\ First(b) \notin ToSet(order)
    BY <2>2 DEF IInv, Held
  <2> QED
    BY <2>1, <2>2, <2>3
<1> DEFINE x == user[b]
<1>2. /\ flags' = [flags EXCEPT ![x] = "UNUSED"]
      /\ Joins(x, order, next, prev, order', next', prev')
      /\ user' = [user EXCEPT ![b] = NULL] /\ busy' = busy \ {b}
      /\ UNCHANGED <<block, data, chain, disk, lost, answer, bad>>
  BY DEF Release, Joins
<1>3. x \in Buf /\ x = First(b) /\ x \notin ToSet(order)
  BY <1>1
<1> HIDE DEF x
<1>4. /\ order \in Seq(Buf) /\ IsInjective(order) /\ Linked(order, next, prev)
      /\ next \in [Node -> Node] /\ prev \in [Node -> Node]
  BY DEF IInv, TypeOK, Ring
<1>5. /\ order' \in Seq(Buf) /\ IsInjective(order') /\ Linked(order', next', prev')
      /\ ToSet(order') = ToSet(order) \cup {x}
  <2> HIDE DEF Buf, Node
  <2> QED
    BY <1>2, <1>3, <1>4, ReleaseRing
<1>6. next' \in [Node -> Node] /\ prev' \in [Node -> Node]
  BY <1>2, <1>3, <1>4 DEF Joins
<1>7. TypeOK'
  BY <1>2, <1>5, <1>6 DEF IInv, TypeOK
<1>8. Ring' /\ Idle'
  BY <1>2, <1>3, <1>5 DEF Ring, Idle, IInv, TypeOK
<1>9. Held'
  BY <1>1, <1>2 DEF Held
<1>10. Users'
  <2>1. \A c \in Block : user'[c] = NULL
    BY <1>1, <1>2 DEF IInv, TypeOK, Users
  <2> QED
    BY <2>1 DEF Users
<1>11. Known' /\ Coherent'
  BY <1>1, <1>2, <1>3, <1>5 DEF Known, Coherent, IInv, Hit, First
<1> QED
  BY <1>7, <1>8, <1>9, <1>10, <1>11 DEF IInv

\* Every step preserves the invariant, and looks like a step of a disk.
LEMMA NextInv ==
  ASSUME Hold = 1, Retries = FALSE, IInv, [Next]_vars
  PROVE  IInv' /\ [Backing!ReadBlock \/ Backing!WriteBlock]_(Backing!diskvars)
<1> USE DEF Backing!ReadBlock, Backing!WriteBlock, Backing!diskvars
<1>1. ASSUME NEW b \in Block, ReadCached(b)
      PROVE  IInv' /\ Backing!ReadBlock
  BY <1>1, ReadCachedInv DEF ReadCached
<1>2. ASSUME NEW b \in Block, ReadDisk(b)
      PROVE  IInv' /\ Backing!ReadBlock
  BY <1>2, ReadDiskInv DEF ReadDisk
<1>3. ASSUME NEW b \in Block, ReadFails(b)
      PROVE  IInv' /\ Backing!ReadBlock
  BY <1>3, ReadFailsInv DEF ReadFails
<1>4. ASSUME NEW b \in Block, NEW d \in Data, Write(b, d)
      PROVE  IInv' /\ Backing!WriteBlock
  BY <1>4, WriteInv
<1>5. ASSUME NEW b \in Block, NEW d \in Data, WriteBack(b, d)
      PROVE  IInv' /\ Backing!WriteBlock
  BY <1>5, WriteBackInv
<1>6. ASSUME NEW b \in Block, RunOut(b)
      PROVE  IInv' /\ UNCHANGED Backing!diskvars
  BY <1>6, RunOutInv DEF RunOut
<1>7. ASSUME NEW b \in Block, Release(b)
      PROVE  IInv' /\ UNCHANGED Backing!diskvars
  BY <1>7, ReleaseInv DEF Release
<1>8. CASE UNCHANGED vars
  BY <1>8 DEF vars, cache, callers, IInv, TypeOK, Ring, Idle, Held, Users, Known,
              Coherent, Hit, First
<1> HIDE DEF Backing!ReadBlock, Backing!WriteBlock, Backing!diskvars
<1> QED
  BY <1>1, <1>2, <1>3, <1>4, <1>5, <1>6, <1>7, <1>8 DEF Next

LEMMA InvCorrect == ASSUME Hold = 1, Retries = FALSE PROVE Spec => []IInv
<1>1. Init => IInv
  BY InitInv
<1>2. IInv /\ [Next]_vars => IInv'
  BY NextInv
<1> QED
  BY <1>1, <1>2, PTL DEF Spec

------------------------------------------------------------------------------
(* Theorems *)

(***************************************************************************)
(* Fields, pointers and the history stay in their types (getCachedBlock,   *)
(* blockRead, blockWrite, relCachedBlock).                                 *)
(***************************************************************************)
THEOREM TypeCorrect == ASSUME Hold = 1, Retries = FALSE PROVE Spec => []TypeOK
<1>1. IInv => TypeOK
  BY DEF IInv
<1> QED
  BY <1>1, InvCorrect, PTL

(***************************************************************************)
(* However blocks are found, replaced, used again and released, and        *)
(* whichever reads fail, the pointers spell the buffers that are ready for *)
(* replacement in the order of their release (getCachedBlock,              *)
(* relCachedBlock).                                                        *)
(***************************************************************************)
THEOREM RingCorrect == ASSUME Hold = 1, Retries = FALSE PROVE Spec => []RingIsOrder
<1>1. IInv => RingIsOrder
  <2> SUFFICES ASSUME IInv PROVE RingIsOrder
    OBVIOUS
  <2> DEFINE ring == <<NULL>> \o order \o <<NULL>>
  <2>1. order \in Seq(Buf) /\ IsInjective(order) /\ Linked(order, next, prev)
    BY DEF IInv, TypeOK, Ring
  <2>2. \A i \in 1 .. Len(order) + 2 : ring[i] = At(order, i - 1)
    BY <2>1 DEF At
  <2>3. ASSUME NEW i \in 1 .. Len(order) + 1
        PROVE  next[ring[i]] = ring[i + 1] /\ prev[ring[i + 1]] = ring[i]
    <3>1. ring[i] = At(order, i - 1) /\ ring[i + 1] = At(order, i)
      <4>1. /\ i \in 1 .. Len(order) + 2 /\ i + 1 \in 1 .. Len(order) + 2
            /\ (i + 1) - 1 = i
        BY <2>1
      <4> HIDE DEF ring
      <4> QED
        BY <2>2, <4>1
    <3>2. i - 1 \in 0 .. Len(order) /\ (i - 1) + 1 = i
      BY <2>1
    <3> QED
      BY <2>1, <3>1, <3>2 DEF Linked
  <2> QED
    BY <2>1, <2>3 DEF RingIsOrder
<1> QED
  BY <1>1, InvCorrect, PTL

(***************************************************************************)
(* A buffer that a caller holds is never given to another block            *)
(* (getCachedBlock).                                                       *)
(***************************************************************************)
THEOREM NotStolenCorrect == ASSUME Hold = 1, Retries = FALSE PROVE Spec => []NotStolen
<1>1. IInv => NotStolen
  BY DEF IInv, NotStolen, Users, Held, Hit
<1> QED
  BY <1>1, InvCorrect, PTL

(***************************************************************************)
(* Whatever getCachedBlock would find for a block agrees with the drive,   *)
(* for every number of buffers, chains and blocks (getCachedBlock,         *)
(* blockRead, blockWrite).                                                 *)
(***************************************************************************)
THEOREM CoherentCorrect == ASSUME Hold = 1, Retries = FALSE PROVE Spec => []Coherent
<1>1. IInv => Coherent
  BY DEF IInv
<1> QED
  BY <1>1, InvCorrect, PTL

(***************************************************************************)
(* The cache implements the abstract disk: every call is one read or one   *)
(* write of it, or invisible (blockRead, blockWrite, relCachedBlock).      *)
(***************************************************************************)
THEOREM DiskCorrect == ASSUME Hold = 1, Retries = FALSE PROVE Spec => ImplementsDisk
<1>1. Init => Backing!DiskInit
  BY DEF Init, Backing!DiskInit
<1>2. IInv /\ [Next]_vars => [Backing!ReadBlock \/ Backing!WriteBlock]_(Backing!diskvars)
  BY NextInv
<1> QED
  BY <1>1, <1>2, InvCorrect, PTL DEF Spec, ImplementsDisk, Backing!DiskSpec
==============================================================================
