----------------------------- MODULE MemoryProofs -----------------------------
(***************************************************************************)
(* Theorems about Memory, for any size of pages and memory, when at most   *)
(* one page is free at a time and the memory behind the kernel is zero.    *)
(***************************************************************************)
EXTENDS Memory, Sequences, FiniteSetTheorems, TLAPS

------------------------------------------------------------------------------
(* Arithmetic *)

\* What \div is.
LEMMA DivFact ==
  ASSUME NEW a \in Int, NEW b \in Nat \ {0}
  PROVE  a \div b \in Int /\ b * (a \div b) <= a /\ a < b * (a \div b) + b
BY SMT

\* A quotient is below n when the dividend is below n times the divisor.
LEMMA DivLess ==
  ASSUME NEW a \in Nat, NEW b \in Nat \ {0}, NEW n \in Nat, a < b * n
  PROVE  a \div b \in 0 .. n - 1
BY DivFact, SMT

\* A remainder is below the divisor.
LEMMA ModFact ==
  ASSUME NEW a \in Int, NEW b \in Nat \ {0}
  PROVE  a % b \in 0 .. b - 1
BY SMT

\* There is a virtual page, and a page has a word.
LEMMA VPages == ENTRIES * ENTRIES \in Nat \ {0} /\ ENTRIES \in Nat \ {0}
BY SizesAssumption

\* The parts of a virtual address are indices (PGDINDEX, PGTINDEX).
LEMMA Indices ==
  ASSUME NEW va \in VPage
  PROVE  PGDINDEX(va) \in Index /\ PGTINDEX(va) \in Index
<1>1. va \in Nat /\ va < ENTRIES * ENTRIES
  BY VPages DEF VPage
<1>2. PGDINDEX(va) \in Index
  BY <1>1, VPages, DivLess DEF PGDINDEX, Index
<1>3. PGTINDEX(va) \in Index
  BY <1>1, VPages, ModFact DEF PGTINDEX, Index
<1> QED
  BY <1>2, <1>3

\* PGUPBOUND does not decrease.
LEMMA PgupboundMonotone ==
  ASSUME NEW a \in Nat, NEW b \in Nat, a <= b
  PROVE  PGUPBOUND(a) \in Nat /\ PGUPBOUND(b) \in Nat /\ PGUPBOUND(a) <= PGUPBOUND(b)
<1> DEFINE qa == (a + ENTRIES - 1) \div ENTRIES
           qb == (b + ENTRIES - 1) \div ENTRIES
<1>1. /\ qa \in Int /\ ENTRIES * qa <= a + ENTRIES - 1 /\ a + ENTRIES - 1 < ENTRIES * qa + ENTRIES
      /\ qb \in Int /\ ENTRIES * qb <= b + ENTRIES - 1 /\ b + ENTRIES - 1 < ENTRIES * qb + ENTRIES
  BY VPages, DivFact
<1> HIDE DEF qa, qb
<1>2. ENTRIES * qa < ENTRIES * (qb + 1) /\ ENTRIES * 0 < ENTRIES * (qa + 1)
  BY <1>1, VPages
<1>3. qa < qb + 1 /\ 0 < qa + 1
  BY <1>1, <1>2, VPages, SMT
<1> QED
  BY <1>1, <1>3 DEF PGUPBOUND, qa, qb

\* n pages are PGUPBOUND of their words.
LEMMA PgupboundExact ==
  ASSUME NEW n \in Nat
  PROVE  PGUPBOUND(n * ENTRIES) = n
<1> DEFINE q == (n * ENTRIES + ENTRIES - 1) \div ENTRIES
<1>1. /\ q \in Int /\ ENTRIES * q <= n * ENTRIES + ENTRIES - 1
      /\ n * ENTRIES + ENTRIES - 1 < ENTRIES * q + ENTRIES
  BY VPages, DivFact
<1> HIDE DEF q
<1>2. ENTRIES * q < ENTRIES * (n + 1) /\ ENTRIES * n < ENTRIES * (q + 1)
  BY <1>1, VPages
<1>3. q < n + 1 /\ n < q + 1
  BY <1>1, <1>2, VPages, SMT
<1> QED
  BY <1>1, <1>3 DEF PGUPBOUND, q

\* A size_t reaches into no more pages than there are virtual ones.
LEMMA SizeFits ==
  ASSUME NEW size \in 1 .. MaxSize
  PROVE  PGUPBOUND(size) \in 1 .. ENTRIES * ENTRIES
<1>1. size \in Nat /\ size <= (ENTRIES * ENTRIES) * ENTRIES /\ MaxSize \in Nat /\ 1 <= size
  BY SizesAssumption, VPages, SMT
<1>2. PGUPBOUND((ENTRIES * ENTRIES) * ENTRIES) = ENTRIES * ENTRIES
  BY VPages, PgupboundExact
<1>3. PGUPBOUND(size) \in Nat /\ PGUPBOUND(size) <= ENTRIES * ENTRIES
  BY <1>1, <1>2, VPages, PgupboundMonotone
<1> DEFINE q == (size + ENTRIES - 1) \div ENTRIES
<1>4. q \in Int /\ size + ENTRIES - 1 < ENTRIES * q + ENTRIES
  BY <1>1, VPages, DivFact
<1> HIDE DEF q
<1>5. ENTRIES * 1 < ENTRIES * (q + 1)
  BY <1>1, <1>4, VPages
<1>6. 1 < q + 1
  BY <1>4, <1>5, VPages, SMT
<1> QED
  BY <1>3, <1>4, <1>6, VPages DEF PGUPBOUND, q

------------------------------------------------------------------------------
(* The pool of pages, and the uses of the pages that have left it *)

MemType == [Page -> [Index -> Word \cup {Zero}]]

PoolType == [next : Nodes \cup {None}, avail : 0 .. 1, brk : HEAP .. PAGES,
             node : [Nodes -> [addr : Page \cup {None}, next : Nodes \cup {None}]]]

\* The page on the list, when there is one, is one of the heap's.
Pool(s) ==
  /\ s \in PoolType
  /\ s.avail = 1 => s.next \in Nodes /\ s.node[s.next].addr \in HEAP .. s.brk - 1

\* The pages that can be handed out.
OnList(s) == IF s.avail = 0 THEN {} ELSE {s.node[s.next].addr}
Spare(s) == OnList(s) \cup s.brk .. PAGES - 1

\* The words that are present in directories D, and the tables they name.
Entries(m, D) == {t \in D \X Index : m[t[1]][t[2]] # Zero}
Named(m, t) == m[t[1]][t[2]].page
TablesOf(m, D) == {Named(m, t) : t \in Entries(m, D)}

(***************************************************************************)
(* Directories D, other uses O, tables and spare pages share the pages     *)
(* behind the kernel, each table is named once, and spare pages are zero.  *)
(***************************************************************************)
Sound(m, s, D, O) ==
  /\ m \in MemType /\ Pool(s)
  /\ D \subseteq Page /\ O \subseteq Page /\ D \cap O = {}
  /\ TablesOf(m, D) \cap (D \cup O) = {}
  /\ \A t, u \in Entries(m, D) : Named(m, t) = Named(m, u) => t = u
  /\ (D \cup O \cup TablesOf(m, D)) \cap Spare(s) = {}
  /\ D \cup O \cup TablesOf(m, D) \cup Spare(s) = HEAP .. PAGES - 1
  /\ \A p \in Spare(s) : m[p] = Zeros

\* A word of a table is not the absent one.
LEMMA WordIsPresent == \A w \in Word : w # Zero
BY DEF Word, Zero

LEMMA ZerosType == Zeros \in [Index -> Word \cup {Zero}] /\ \A e \in Index : Zeros[e] = Zero
BY DEF Zeros

LEMMA DataType == Data \in [Index -> Word \cup {Zero}]
BY SizesAssumption DEF Data, Word, Page, Flag

\* Words of directories name pages.
LEMMA NamesPages ==
  ASSUME NEW m \in MemType, NEW D \in SUBSET Page, NEW t \in Entries(m, D)
  PROVE  /\ t[1] \in D /\ t[2] \in Index /\ t = <<t[1], t[2]>>
         /\ m[t[1]][t[2]] \in Word /\ Named(m, t) \in Page /\ Named(m, t) \in TablesOf(m, D)
<1>1. t \in D \X Index /\ m[t[1]][t[2]] # Zero
  BY DEF Entries
<1>2. t[1] \in D /\ t[2] \in Index /\ t = <<t[1], t[2]>>
  BY <1>1
<1>3. m[t[1]][t[2]] \in Word
  BY <1>1, <1>2 DEF MemType
<1>4. Named(m, t) \in Page
  BY <1>3 DEF Word, Named
<1> QED
  BY <1>2, <1>3, <1>4 DEF TablesOf

\* A translation is a word, or none (getpte).
LEMMA ReadsWord ==
  ASSUME NEW m, NEW s, NEW D, NEW O, Sound(m, s, D, O), NEW d \in D, NEW v \in VPage
  PROVE  getpte(m, d, v) \in Word \cup {Zero}
<1>1. PGDINDEX(v) \in Index /\ PGTINDEX(v) \in Index /\ m \in MemType /\ d \in Page
  BY Indices DEF Sound
<1>2. m[d][PGDINDEX(v)] \in Word \cup {Zero}
  BY <1>1 DEF MemType
<1>3. CASE m[d][PGDINDEX(v)] = Zero
  BY <1>3 DEF getpte
<1>4. CASE m[d][PGDINDEX(v)] # Zero
  <2>1. m[d][PGDINDEX(v)].page \in Page
    BY <1>2, <1>4 DEF Word
  <2>2. getpte(m, d, v) = m[m[d][PGDINDEX(v)].page][PGTINDEX(v)]
    BY <1>4 DEF getpte
  <2> QED
    BY <1>1, <2>1, <2>2 DEF MemType
<1> QED
  BY <1>3, <1>4

\* allocPage takes a spare page, and leaves the others.
LEMMA TakesSpare ==
  ASSUME NEW s, Pool(s), Room(Got(s))
  PROVE  /\ Got(s) \in HEAP .. PAGES - 1 /\ Got(s) \in Page
         /\ Got(s) \in Spare(s) /\ Pool(Left(s)) /\ Spare(Left(s)) = Spare(s) \ {Got(s)}
<1> USE SizesAssumption
<1>1. /\ s.next \in Nodes \cup {None} /\ s.avail \in 0 .. 1 /\ s.brk \in HEAP .. PAGES
      /\ s.node \in [Nodes -> [addr : Page \cup {None}, next : Nodes \cup {None}]]
      /\ s = [next |-> s.next, avail |-> s.avail, brk |-> s.brk, node |-> s.node]
  BY DEF Pool, PoolType
<1>2. CASE s.avail = 0
  <2>1. Got(s) = s.brk /\ Left(s) = [s EXCEPT !.brk = @ + 1]
    BY <1>2 DEF Got, Left
  <2>2. Left(s) = [next |-> s.next, avail |-> 0, brk |-> s.brk + 1, node |-> s.node]
    BY <1>1, <1>2, <2>1
  <2>3. s.brk < PAGES
    BY <2>1 DEF Room
  <2>4. Pool(Left(s))
    BY <1>1, <2>2, <2>3 DEF Pool, PoolType
  <2>5. Spare(s) = s.brk .. PAGES - 1 /\ Spare(Left(s)) = s.brk + 1 .. PAGES - 1
    BY <1>2, <2>2 DEF Spare, OnList
  <2>6. /\ Got(s) \in HEAP .. PAGES - 1 /\ Got(s) \in Page /\ Got(s) \in s.brk .. PAGES - 1
        /\ s.brk + 1 .. PAGES - 1 = (s.brk .. PAGES - 1) \ {Got(s)}
    BY <1>1, <2>1, <2>3 DEF Page
  <2> QED
    BY <2>4, <2>5, <2>6
<1>3. CASE s.avail = 1
  <2>1. s.next \in Nodes /\ s.node[s.next].addr \in HEAP .. s.brk - 1
    BY <1>3 DEF Pool
  <2>2. s.node[s.next].next \in Nodes \cup {None}
    BY <1>1, <2>1
  <2>3. /\ Got(s) = s.node[s.next].addr
        /\ Left(s) = [next |-> s.node[s.next].next, avail |-> 0, brk |-> s.brk, node |-> s.node]
    BY <1>3 DEF Got, Left
  <2>4. Pool(Left(s))
    BY <1>1, <2>2, <2>3 DEF Pool, PoolType
  <2>5. Spare(s) = {Got(s)} \cup s.brk .. PAGES - 1 /\ Spare(Left(s)) = s.brk .. PAGES - 1
    BY <1>3, <2>3 DEF Spare, OnList
  <2>6. Got(s) \in HEAP .. s.brk - 1 /\ s.brk \in HEAP .. PAGES
    BY <1>1, <2>1, <2>3
  <2>7. Got(s) \in HEAP .. PAGES - 1 /\ Got(s) \in Page /\ Got(s) \notin s.brk .. PAGES - 1
    BY <2>6 DEF Page
  <2> QED
    BY <2>4, <2>5, <2>7
<1> QED
  BY <1>1, <1>2, <1>3

\* A page that is handed out gets a use (allocPage, vmalloc, copypgt).
LEMMA SoundTake ==
  ASSUME NEW m, NEW s, NEW D, NEW O, Sound(m, s, D, O), Room(Got(s))
  PROVE  Got(s) \notin D \cup O /\ Sound(m, Left(s), D, O \cup {Got(s)})
<1>1. /\ Got(s) \in HEAP .. PAGES - 1 /\ Got(s) \in Page
      /\ Got(s) \in Spare(s) /\ Pool(Left(s)) /\ Spare(Left(s)) = Spare(s) \ {Got(s)}
  BY TakesSpare DEF Sound
<1> QED
  BY <1>1 DEF Sound

\* A page that is handed out is an empty directory (copypgt).
LEMMA SoundDirectory ==
  ASSUME NEW m, NEW s, NEW D, NEW O, Sound(m, s, D, O), Room(Got(s))
  PROVE  Sound(m, Left(s), D \cup {Got(s)}, O)
<1>1. /\ Got(s) \in HEAP .. PAGES - 1 /\ Got(s) \in Page
      /\ Got(s) \in Spare(s) /\ Pool(Left(s)) /\ Spare(Left(s)) = Spare(s) \ {Got(s)}
  BY TakesSpare DEF Sound
<1>2. m[Got(s)] = Zeros
  BY <1>1 DEF Sound
<1>3. Entries(m, D \cup {Got(s)}) = Entries(m, D)
  BY <1>2, ZerosType DEF Entries
<1>4. TablesOf(m, D \cup {Got(s)}) = TablesOf(m, D)
  BY <1>3 DEF TablesOf
<1> QED
  BY <1>1, <1>3, <1>4 DEF Sound

\* Writing to a page of another use disturbs nothing (memset, memmove).
LEMMA SoundWrite ==
  ASSUME NEW m, NEW s, NEW D, NEW O, Sound(m, s, D, O),
         NEW p \in O, NEW c \in [Index -> Word \cup {Zero}]
  PROVE  Sound([m EXCEPT ![p] = c], s, D, O)
<1> DEFINE n == [m EXCEPT ![p] = c]
<1>1. n \in MemType /\ \A q \in Page \ {p} : n[q] = m[q]
  BY DEF Sound, MemType
<1>2. \A q \in D : n[q] = m[q]
  BY <1>1 DEF Sound
<1>3. Entries(n, D) = Entries(m, D)
  BY <1>2 DEF Entries
<1>4. \A t \in Entries(m, D) : Named(n, t) = Named(m, t)
  BY <1>2, NamesPages DEF Named, Sound
<1>5. TablesOf(n, D) = TablesOf(m, D)
  BY <1>3, <1>4 DEF TablesOf
<1>6. Spare(s) \subseteq Page
  BY SizesAssumption DEF Sound, Page
<1>7. \A q \in Spare(s) : n[q] = Zeros
  BY <1>1, <1>6 DEF Sound
<1>8. \A t, u \in Entries(n, D) : Named(n, t) = Named(n, u) => t = u
  BY <1>3, <1>4 DEF Sound
<1> HIDE DEF n
<1>9. Sound(n, s, D, O)
  BY <1>1, <1>3, <1>5, <1>7, <1>8 DEF Sound
<1> QED
  BY <1>9 DEF n

\* A page that is freed is spare again, and zero (freePage).
LEMMA SoundFree ==
  ASSUME NEW m, NEW s, NEW D, NEW O, Sound(m, s, D, O),
         NEW p \in O, NEW n \in Nodes, s.avail = 0
  PROVE  Sound(Wiped(m, p), Pushed(s, p, n), D, O \ {p})
<1> DEFINE r == Pushed(s, p, n)
           w == Wiped(m, p)
<1>1. Sound(w, s, D, O)
  BY SoundWrite, ZerosType DEF Wiped
<1>2. w[p] = Zeros
  BY DEF Wiped, Sound, MemType
<1>3. Spare(s) = s.brk .. PAGES - 1 /\ p \notin Spare(s) /\ p \in HEAP .. PAGES - 1
  BY DEF Sound, Spare, OnList
<1>4. p \in Page /\ s.next \in Nodes \cup {None} /\ s.brk \in HEAP .. PAGES
      /\ s.node \in [Nodes -> [addr : Page \cup {None}, next : Nodes \cup {None}]]
  BY DEF Sound, Pool, PoolType
<1>5. r \in PoolType /\ r.avail = 1 /\ r.next = n /\ r.brk = s.brk /\ r.node[n].addr = p
  BY <1>4 DEF PoolType, Pushed
<1>6. p \in HEAP .. s.brk - 1
  BY <1>3, <1>4, SizesAssumption
<1> HIDE DEF r, w
<1>7. Pool(r) /\ Spare(r) = Spare(s) \cup {p}
  BY <1>3, <1>5, <1>6 DEF Pool, Spare, OnList
<1>8. Sound(w, r, D, O \ {p})
  BY <1>1, <1>2, <1>7 DEF Sound
<1> QED
  BY <1>8 DEF r, w

------------------------------------------------------------------------------
(* Mapping a page *)

\* A new table, cleared and named by its directory.
LEMMA NewTable ==
  ASSUME NEW m \in MemType, NEW pgd \in Page, NEW va \in VPage,
         NEW flags \in SUBSET Flag, NEW s, NeedsTable(m, pgd, va),
         Got(s) \in Page, Got(s) # pgd,
         NEW n, n = WithTable(m, s, pgd, va, flags)
  PROVE  /\ n \in MemType /\ n[Got(s)] = Zeros
         /\ \A q \in Page \ {pgd, Got(s)} : n[q] = m[q]
         /\ n[pgd][PGDINDEX(va)] = [page |-> Got(s), flags |-> flags]
         /\ n[pgd][PGDINDEX(va)] # Zero
         /\ \A e \in Index \ {PGDINDEX(va)} : n[pgd][e] = m[pgd][e]
<1> DEFINE i == PGDINDEX(va)
           w == [page |-> Got(s), flags |-> flags]
           z == [m EXCEPT ![Got(s)] = Zeros]
           k == [z EXCEPT ![pgd] = [z[pgd] EXCEPT ![i] = w]]
<1>1. i \in Index
  BY Indices
<1>2. w \in Word
  BY DEF Word
<1>3. z \in MemType /\ z[pgd] = m[pgd] /\ z[Got(s)] = Zeros
      /\ \A q \in Page \ {Got(s)} : z[q] = m[q]
  BY ZerosType DEF MemType
<1>4. [z[pgd] EXCEPT ![i] = w] \in [Index -> Word \cup {Zero}]
  BY <1>1, <1>2, <1>3 DEF MemType
<1>5. k \in MemType
  BY <1>3, <1>4 DEF MemType
<1>6. k[pgd] = [z[pgd] EXCEPT ![i] = w] /\ k[Got(s)] = Zeros
      /\ \A q \in Page \ {pgd, Got(s)} : k[q] = m[q]
  BY <1>3 DEF MemType
<1>7. k[pgd][i] = w /\ \A e \in Index \ {i} : k[pgd][e] = m[pgd][e]
  BY <1>1, <1>3, <1>6 DEF MemType
<1>8. n = k
  BY DEF WithTable
<1> QED
  BY <1>2, <1>5, <1>6, <1>7, <1>8, WordIsPresent

\* A new table is one more table (map).
LEMMA SoundTable ==
  ASSUME NEW m, NEW s, NEW D, NEW O, Sound(m, s, D, O),
         NEW pgd \in D, NEW va \in VPage, NEW flags \in SUBSET Flag,
         Room(Table(m, s, pgd, va))
  PROVE  LET n == WithTable(m, s, pgd, va, flags)
             t == <<pgd, PGDINDEX(va)>> IN
         /\ Sound(n, PoolMapped(m, s, pgd, va), D, O)
         /\ t \in Entries(n, D) /\ Named(n, t) = Table(m, s, pgd, va)
<1> DEFINE n == WithTable(m, s, pgd, va, flags)
           i == PGDINDEX(va)
           t == <<pgd, i>>
           g == Got(s)
           r == PoolMapped(m, s, pgd, va)
<1>1. i \in Index /\ m \in MemType /\ D \in SUBSET Page /\ pgd \in Page
  BY Indices DEF Sound
<1>2. CASE ~NeedsTable(m, pgd, va)
  <2>1. n = m /\ r = s
    BY <1>2 DEF WithTable, PoolMapped
  <2>2. t \in Entries(m, D) /\ Named(m, t) = Table(m, s, pgd, va)
    BY <1>1, <1>2 DEF Entries, Named, Table, NeedsTable
  <2> QED
    BY <2>1, <2>2
<1>3. CASE NeedsTable(m, pgd, va)
  <2>1. Table(m, s, pgd, va) = g /\ r = Left(s)
    BY <1>3 DEF Table, PoolMapped
  <2>2. /\ g \in HEAP .. PAGES - 1 /\ g \in Page /\ g \in Spare(s)
        /\ Pool(Left(s)) /\ Spare(Left(s)) = Spare(s) \ {g}
    BY <2>1, TakesSpare DEF Sound
  <2>3. g \notin D \cup O \cup TablesOf(m, D)
    BY <2>2 DEF Sound
  <2>4. /\ n \in MemType /\ n[g] = Zeros
        /\ \A q \in Page \ {pgd, g} : n[q] = m[q]
        /\ n[pgd][i] = [page |-> g, flags |-> flags]
        /\ n[pgd][i] # Zero
        /\ \A e \in Index \ {i} : n[pgd][e] = m[pgd][e]
    <3>1. Got(s) \in Page /\ Got(s) # pgd
      BY <2>2, <2>3
    <3> QED
      BY <1>1, <1>3, <3>1, NewTable
  <2>5. m[pgd][i] = Zero
    BY <1>3 DEF NeedsTable
  <2> HIDE DEF n, r, g, i
  <2>6. \A u \in D \X Index : u # t => n[u[1]][u[2]] = m[u[1]][u[2]]
    <3> SUFFICES ASSUME NEW d \in D, NEW e \in Index, <<d, e>> # t
                 PROVE  n[d][e] = m[d][e]
      OBVIOUS
    <3>1. CASE d = pgd
      BY <2>4, <3>1
    <3>2. CASE d # pgd
      BY <1>1, <2>3, <2>4, <3>2
    <3> QED
      BY <3>1, <3>2
  <2>7. t \in Entries(n, D) /\ t \notin Entries(m, D) /\ Named(n, t) = g
    BY <1>1, <2>4, <2>5 DEF Entries, Named
  <2>8. Entries(n, D) = Entries(m, D) \cup {t}
    BY <2>6, <2>7 DEF Entries
  <2>9. \A u \in Entries(m, D) : Named(n, u) = Named(m, u)
    BY <2>6, <2>7 DEF Entries, Named
  <2>10. TablesOf(n, D) = TablesOf(m, D) \cup {g}
    BY <2>7, <2>8, <2>9 DEF TablesOf
  <2>11. \A u \in Entries(m, D) : Named(m, u) # g
    BY <2>3 DEF TablesOf
  <2>12. \A u, v \in Entries(n, D) : Named(n, u) = Named(n, v) => u = v
    BY <2>7, <2>8, <2>9, <2>11 DEF Sound
  <2>13. \A p \in Spare(s) : p \in Page /\ p # pgd
    BY SizesAssumption DEF Sound, Page
  <2>14. \A p \in Spare(Left(s)) : n[p] = Zeros
    BY <2>2, <2>4, <2>13 DEF Sound
  <2>15. Sound(n, Left(s), D, O)
    BY <2>2, <2>3, <2>4, <2>10, <2>12, <2>14 DEF Sound
  <2> QED
    BY <2>1, <2>7, <2>15 DEF n, r, g, i
<1> QED
  BY <1>2, <1>3

\* Writing a word of a table that a directory names disturbs no directory.
LEMMA SoundEntry ==
  ASSUME NEW m, NEW s, NEW D, NEW O, Sound(m, s, D, O),
         NEW b \in TablesOf(m, D), NEW j \in Index, NEW w \in Word
  PROVE  /\ Sound([m EXCEPT ![b][j] = w], s, D, O)
         /\ \A q \in D : [m EXCEPT ![b][j] = w][q] = m[q]
<1> DEFINE n == [m EXCEPT ![b] = [m[b] EXCEPT ![j] = w]]
<1>1. b \in Page /\ b \notin D /\ b \notin Spare(s) /\ m \in MemType
  BY NamesPages DEF Sound, TablesOf
<1>2. [m[b] EXCEPT ![j] = w] \in [Index -> Word \cup {Zero}]
  BY <1>1 DEF MemType
<1>3. n \in MemType /\ \A q \in Page \ {b} : n[q] = m[q]
  BY <1>1, <1>2 DEF MemType
<1>4. \A q \in D : n[q] = m[q]
  BY <1>1, <1>3 DEF Sound
<1>5. Spare(s) \subseteq Page
  BY SizesAssumption DEF Sound, Page
<1>6. \A q \in Spare(s) : n[q] = Zeros
  BY <1>1, <1>3, <1>5 DEF Sound
<1> HIDE DEF n
<1>7. Entries(n, D) = Entries(m, D)
  BY <1>4 DEF Entries
<1>8. \A t \in Entries(m, D) : Named(n, t) = Named(m, t)
  BY <1>4 DEF Named, Entries
<1>9. TablesOf(n, D) = TablesOf(m, D)
  BY <1>7, <1>8 DEF TablesOf
<1>10. \A t, u \in Entries(n, D) : Named(n, t) = Named(n, u) => t = u
  BY <1>7, <1>8 DEF Sound
<1>11. Sound(n, s, D, O)
  BY <1>3, <1>6, <1>9, <1>10 DEF Sound
<1> QED
  BY <1>4, <1>11 DEF n

\* map keeps every page to its one use.
LEMMA SoundMap ==
  ASSUME NEW m, NEW s, NEW D, NEW O, Sound(m, s, D, O),
         NEW pgd \in D, NEW pa \in Page, NEW va \in VPage, NEW flags \in SUBSET Flag,
         Room(Table(m, s, pgd, va))
  PROVE  Sound(Mapped(m, s, pgd, pa, va, flags), PoolMapped(m, s, pgd, va), D, O)
<1> DEFINE n == WithTable(m, s, pgd, va, flags)
           b == Table(m, s, pgd, va)
<1>1. /\ Sound(n, PoolMapped(m, s, pgd, va), D, O)
      /\ <<pgd, PGDINDEX(va)>> \in Entries(n, D) /\ Named(n, <<pgd, PGDINDEX(va)>>) = b
  BY SoundTable
<1>2. b \in TablesOf(n, D)
  BY <1>1 DEF TablesOf
<1>3. [page |-> pa, flags |-> flags] \in Word /\ PGTINDEX(va) \in Index
  BY Indices DEF Word
<1> QED
  BY <1>1, <1>2, <1>3, SoundEntry DEF Mapped

------------------------------------------------------------------------------
(***************************************************************************)
(* The inductive invariant: before kmemInit nothing has a use; after it    *)
(* the pages are shared soundly between the uses, and the loop that runs   *)
(* stays within the memory.                                                *)
(***************************************************************************)
Uses == held \cup heap \cup copies

JobOK ==
  \/ job = Idle
  \/ job \in [op : {"vmalloc"}, left : Nat \ {0}]
  \/ /\ job \in [op : {"range"}, pgd : dirs, pa : Page, va : VPage, left : Nat \ {0},
                 flags : SUBSET Flag]
     /\ job.pa + job.left <= PAGES
  \/ /\ job \in [op : {"copy"}, opgd : dirs, npgd : dirs, p : VPage, left : Nat \ {0}]
     /\ job.p + job.left <= ENTRIES * ENTRIES /\ job.p + job.left <= PAGES

Booting ==
  /\ job = [op |-> "boot"] /\ mem = [p \in Page |-> Zeros]
  /\ pool = [next |-> None, node |-> [n \in Nodes |-> [addr |-> None, next |-> None]],
             avail |-> 0, brk |-> 0]
  /\ kmsize = 0 /\ kpgdir = None
  /\ dirs = {} /\ held = {} /\ heap = {} /\ copies = {}

Booted ==
  /\ Sound(mem, pool, dirs, Uses)
  /\ held \cap (heap \cup copies) = {} /\ heap \cap copies = {}
  /\ JobOK /\ kmsize \in Nat /\ kpgdir \in dirs

Inv == calls \in 0 .. MaxCalls /\ (Booting \/ Booted)

\* A call starts its loop with a job the loop can do (rangemap, copypgt, vmalloc).
LEMMA StartsRange ==
  ASSUME NEW D, NEW pgd \in D, NEW pa \in Nat, NEW va \in VPage, NEW n \in Nat,
         NEW flags \in SUBSET Flag, pa + n <= PAGES,
         NEW j, j = RangeJob(pgd, pa, va, n, flags)
  PROVE  \/ j = Idle
         \/ /\ j \in [op : {"range"}, pgd : D, pa : Page, va : VPage, left : Nat \ {0},
                      flags : SUBSET Flag]
            /\ j.pa + j.left <= PAGES
BY SizesAssumption DEF RangeJob, Page

LEMMA StartsCopy ==
  ASSUME NEW D, NEW o \in D, NEW d \in D, NEW p \in Nat, NEW n \in Nat,
         p + n <= ENTRIES * ENTRIES, p + n <= PAGES,
         NEW j, j = CopyJob(o, d, p, n)
  PROVE  \/ j = Idle
         \/ /\ j \in [op : {"copy"}, opgd : D, npgd : D, p : VPage, left : Nat \ {0}]
            /\ j.p + j.left <= ENTRIES * ENTRIES /\ j.p + j.left <= PAGES
BY VPages DEF CopyJob, VPage

LEMMA StartsTake ==
  ASSUME NEW n \in Nat
  PROVE  HeapJob(n) = Idle \/ HeapJob(n) \in [op : {"vmalloc"}, left : Nat \ {0}]
BY DEF HeapJob

\* The invariant implies the types.
LEMMA InvTypes == Inv => TypeOK
<1> SUFFICES ASSUME Inv PROVE TypeOK
  OBVIOUS
<1>1. CASE Booting
  <2>1. mem \in [Page -> [Index -> Word \cup {Zero}]]
    BY <1>1, ZerosType DEF Booting
  <2>2. pool \in [next : Nodes \cup {None}, avail : Nat, brk : 0 .. PAGES,
                  node : [Nodes -> [addr : Page \cup {None}, next : Nodes \cup {None}]]]
    BY <1>1, SizesAssumption DEF Booting
  <2> QED
    BY <1>1, <2>1, <2>2 DEF Booting, TypeOK, Inv
<1>2. CASE Booted
  <2>1. mem \in [Page -> [Index -> Word \cup {Zero}]]
    BY <1>2 DEF Booted, Sound, MemType
  <2>2. pool \in [next : Nodes \cup {None}, avail : Nat, brk : 0 .. PAGES,
                  node : [Nodes -> [addr : Page \cup {None}, next : Nodes \cup {None}]]]
    BY <1>2, SizesAssumption DEF Booted, Sound, Pool, PoolType
  <2>3. dirs \subseteq Page /\ Uses \subseteq Page
    BY <1>2 DEF Booted, Sound
  <2>4. \/ job \in [op : {"idle", "boot"}] \cup [op : {"vmalloc"}, left : Nat \ {0}]
        \/ job \in [op : {"range"}, pgd : dirs, pa : Page, va : VPage, left : Nat \ {0},
                    flags : SUBSET Flag]
        \/ job \in [op : {"copy"}, opgd : dirs, npgd : dirs, p : VPage, left : Nat \ {0}]
    BY <1>2 DEF Booted, JobOK, Idle
  <2> QED
    BY <1>2, <2>1, <2>2, <2>3, <2>4 DEF Booted, TypeOK, Inv, Uses
<1> QED
  BY <1>1, <1>2 DEF Inv

\* The invariant implies that pages have one use.
LEMMA InvOneUse == Inv => PagesHaveOneUse
<1> SUFFICES ASSUME Booted PROVE PagesHaveOneUse
  BY DEF Inv, Booting, PagesHaveOneUse
<1>1. Sound(mem, pool, dirs, Uses)
  BY DEF Booted
<1>2. Tables = Entries(mem, dirs)
  BY DEF Tables, Entries
<1>3. \A t \in Tables : TablePage[t] = Named(mem, t)
  BY DEF TablePage, Named
<1>4. {TablePage[t] : t \in Tables} = TablesOf(mem, dirs)
  BY <1>2, <1>3 DEF TablesOf
<1>5. \A t \in Tables : TablePage[t] \in TablesOf(mem, dirs)
  BY <1>4
<1>6. DOMAIN Free = 0 .. pool.avail - 1 /\ {Free[k] : k \in DOMAIN Free} = OnList(pool)
      /\ \A j, k \in DOMAIN Free : j = k
  <2>1. pool.avail \in 0 .. 1
    BY <1>1 DEF Sound, Pool, PoolType
  <2>2. CASE pool.avail = 0
    BY <2>2 DEF Free, OnList
  <2>3. CASE pool.avail = 1
    <3>1. pool.next \in Nodes
      BY <1>1, <2>3 DEF Sound, Pool
    <3>2. \E f \in [0 .. pool.avail - 1 -> Nodes] :
            \A k \in DOMAIN f : f[k] = IF k = 0 THEN pool.next ELSE pool.node[f[k - 1]].next
      <4> DEFINE f == [k \in 0 .. pool.avail - 1 |-> pool.next]
      <4>1. f \in [0 .. pool.avail - 1 -> Nodes]
        BY <3>1
      <4>2. \A k \in DOMAIN f : f[k] = IF k = 0 THEN pool.next ELSE pool.node[f[k - 1]].next
        BY <2>3
      <4> QED
        BY <4>1, <4>2
    <3>3. Listed[0] = pool.next
      <4>1. /\ Listed \in [0 .. pool.avail - 1 -> Nodes]
            /\ \A k \in DOMAIN Listed :
                 Listed[k] = IF k = 0 THEN pool.next ELSE pool.node[Listed[k - 1]].next
        BY <3>2, Zenon DEF Listed
      <4> QED
        BY <2>3, <4>1
    <3>4. DOMAIN Free = {0} /\ Free[0] = pool.node[pool.next].addr
      BY <2>3, <3>3 DEF Free
    <3> QED
      BY <2>3, <3>4 DEF OnList
  <2> QED
    BY <2>1, <2>2, <2>3
<1>7. InUse = dirs \cup Uses
  BY DEF InUse, Uses
<1>8. pool.brk \in HEAP .. PAGES /\ OnList(pool) \subseteq HEAP .. pool.brk - 1
  BY <1>1 DEF Sound, Pool, PoolType, OnList
<1>9. InUse \cup TablesOf(mem, dirs) \cup OnList(pool) = HEAP .. pool.brk - 1
  <2>1. (InUse \cup TablesOf(mem, dirs)) \cap (OnList(pool) \cup pool.brk .. PAGES - 1) = {}
    BY <1>1, <1>7 DEF Sound, Spare
  <2>2. InUse \cup TablesOf(mem, dirs) \cup OnList(pool) \cup pool.brk .. PAGES - 1
          = HEAP .. PAGES - 1
    BY <1>1, <1>7 DEF Sound, Spare
  <2>3. HEAP .. PAGES - 1 = HEAP .. pool.brk - 1 \cup pool.brk .. PAGES - 1
    BY <1>8, SizesAssumption
  <2>4. (HEAP .. pool.brk - 1) \cap (pool.brk .. PAGES - 1) = {}
    BY <1>8, SizesAssumption
  <2> QED
    BY <1>8, <2>1, <2>2, <2>3, <2>4, Zenon
<1>10. Apart
  BY <1>1 DEF Booted, Sound, Uses, Apart
<1>11. \A t \in Tables : /\ TablePage[t] \notin InUse
                         /\ \A u \in Tables : TablePage[t] = TablePage[u] => t = u
  BY <1>1, <1>2, <1>3, <1>5, <1>7 DEF Sound
<1>12. \A k \in DOMAIN Free : /\ Free[k] \notin InUse
                              /\ \A t \in Tables : Free[k] # TablePage[t]
                              /\ \A j \in DOMAIN Free : Free[j] = Free[k] => j = k
  BY <1>1, <1>5, <1>6, <1>7 DEF Sound, Spare
<1> QED
  BY <1>4, <1>6, <1>9, <1>10, <1>11, <1>12 DEF PagesHaveOneUse

------------------------------------------------------------------------------
(* The invariant is kept *)

LEMMA InvInit == ASSUME Habits = {} PROVE Init => Inv
<1> SUFFICES ASSUME Init PROVE Inv
  OBVIOUS
<1>1. mem = [p \in Page |-> Zeros]
  BY DEF Init
<1> QED
  BY <1>1, SizesAssumption DEF Init, Inv, Booting

\* kmemInit leaves one empty directory in use.
LEMMA BootNext == ASSUME Inv, kmemInit PROVE Inv'
<1>1. Booting
  BY DEF Inv, kmemInit, Booted, JobOK, Idle
<1>2. HEAP \in Page
  BY SizesAssumption DEF Page
<1>3. mem' = [p \in Page |-> Zeros]
  BY <1>1, <1>2 DEF Booting, kmemInit
<1>4. pool' = [next |-> None, node |-> [n \in Nodes |-> [addr |-> None, next |-> None]],
               avail |-> 0, brk |-> HEAP + 1]
  BY <1>1 DEF Booting, kmemInit
<1>5. Pool(pool') /\ Spare(pool') = HEAP + 1 .. PAGES - 1
  BY <1>4, SizesAssumption DEF Pool, PoolType, Spare, OnList
<1>6. dirs' = {HEAP} /\ Uses' = {}
  BY <1>1 DEF Booting, kmemInit, Uses
<1>7. Entries(mem', {HEAP}) = {}
  BY <1>2, <1>3, ZerosType DEF Entries
<1>8. TablesOf(mem', {HEAP}) = {}
  BY <1>7 DEF TablesOf
<1>9. mem' \in MemType
  BY <1>3, ZerosType DEF MemType
<1>10. Spare(pool') \subseteq Page
  BY <1>5, SizesAssumption DEF Page
<1>11. \A p \in Spare(pool') : mem'[p] = Zeros
  BY <1>3, <1>10
<1>12. {HEAP} \cup Spare(pool') = HEAP .. PAGES - 1 /\ HEAP \notin Spare(pool')
  BY <1>5, SizesAssumption
<1>13. Sound(mem', pool', dirs', Uses')
  BY <1>2, <1>5, <1>6, <1>7, <1>8, <1>9, <1>11, <1>12 DEF Sound
<1>14. JobOK'
  <2>1. PTOV(0) \in VPage /\ KERNSIZE \in Nat /\ 0 + KERNSIZE <= PAGES
    BY SizesAssumption, VPages DEF PTOV, VPage
  <2>2. job' = RangeJob(HEAP, 0, PTOV(0), KERNSIZE, {"rw"}) /\ HEAP \in dirs'
    BY <1>6 DEF kmemInit
  <2>3. {"rw"} \in SUBSET Flag
    BY DEF Flag
  <2> QED
    BY <2>1, <2>2, <2>3, StartsRange DEF JobOK
<1>15. kmsize' \in Nat /\ kpgdir' \in dirs' /\ held' = {} /\ heap' = {} /\ calls' = calls
  BY <1>1, <1>6, SizesAssumption DEF Booting, kmemInit
<1> QED
  BY <1>6, <1>13, <1>14, <1>15 DEF Inv, Booted

\* Giving out a page for a use that no other page has.
LEMMA UseNext ==
  ASSUME Booted, Room(Got(pool)), mem' = mem, pool' = Left(pool), dirs' = dirs,
         Uses' = Uses \cup {Got(pool)}
  PROVE  Sound(mem', pool', dirs', Uses') /\ Got(pool) \notin Uses
BY SoundTake DEF Booted

LEMMA InvNext == ASSUME Habits = {} PROVE Inv /\ [Next]_vars => Inv'
<1> SUFFICES ASSUME Inv, [Next]_vars PROVE Inv'
  OBVIOUS
<1> USE DEF Inv
<1>1. CASE kmemInit
  BY <1>1, BootNext
<1>2. ASSUME job.op # "boot" PROVE Booted
  BY <1>2 DEF Booting
<1>3. ASSUME Call PROVE Booted /\ job = Idle /\ calls' \in 0 .. MaxCalls
  BY <1>2, <1>3, SizesAssumption DEF Call, Idle
<1>4. CASE allocPage
  <2>1. Booted /\ calls' \in 0 .. MaxCalls /\ job' = job
    BY <1>3, <1>4 DEF allocPage
  <2>2. Uses' = Uses \cup {Got(pool)}
    BY <1>4 DEF allocPage, Uses
  <2>3. Sound(mem', pool', dirs', Uses') /\ Got(pool) \notin Uses
    BY <1>4, <2>1, <2>2, UseNext DEF allocPage
  <2> QED
    BY <1>4, <2>1, <2>3 DEF allocPage, Booted, JobOK, Uses
<1>5. CASE Use
  <2>1. Booted /\ calls' \in 0 .. MaxCalls
    BY <1>3, <1>5 DEF Use
  <2>2. PICK p \in held : mem' = [mem EXCEPT ![p] = Data]
    BY <1>5 DEF Use
  <2>3. Sound(mem', pool, dirs, Uses)
    BY <2>1, <2>2, DataType, SoundWrite DEF Booted, Uses
  <2> QED
    BY <1>5, <2>1, <2>3 DEF Use, Booted, JobOK, Uses
<1>6. CASE freePage
  <2>1. Booted /\ calls' \in 0 .. MaxCalls /\ pool.avail = 0
    BY <1>3, <1>6 DEF freePage
  <2>2. PICK p \in held, n \in Nodes :
               /\ held' = held \ {p} /\ mem' = Wiped(mem, p) /\ pool' = Pushed(pool, p, n)
    BY <1>6 DEF freePage
  <2>3. Uses' = Uses \ {p} /\ p \in Uses
    BY <1>6, <2>1, <2>2 DEF freePage, Uses, Booted
  <2>4. Sound(mem', pool', dirs, Uses')
    BY <2>1, <2>2, <2>3, SoundFree DEF Booted
  <2> QED
    BY <1>6, <2>1, <2>2, <2>4 DEF freePage, Booted, JobOK
<1>7. CASE rangemap
  <2>1. Booted /\ calls' \in 0 .. MaxCalls
    BY <1>3, <1>7 DEF rangemap
  <2>2. PICK pgd \in dirs, pa \in Targets, va \in VPage, size \in 1 .. MaxSize,
             flags \in Rights :
               /\ pa + PGUPBOUND(size) <= PAGES
               /\ job' = RangeJob(pgd, pa, va, PGUPBOUND(size), flags)
    BY <1>7 DEF rangemap
  <2>3. pa \in Nat /\ PGUPBOUND(size) \in Nat /\ flags \in SUBSET Flag
    BY NodesAssumption, RightsAssumption, SizesAssumption, SizeFits DEF Flag
  <2>4. JobOK'
    <3>1. dirs' = dirs
      BY <1>7 DEF rangemap
    <3> QED
      BY <2>2, <2>3, <3>1, StartsRange DEF JobOK
  <2> QED
    BY <1>7, <2>1, <2>4 DEF rangemap, Booted, Uses
<1>8. CASE map
  <2>1. Booted /\ calls' \in 0 .. MaxCalls
    BY <1>2, <1>8 DEF map
  <2>2. /\ job.pgd \in dirs /\ job.pa \in Page /\ job.va \in VPage /\ job.left \in Nat \ {0}
        /\ job.flags \in SUBSET Flag /\ job.pa + job.left <= PAGES
    BY <1>8, <2>1 DEF map, Booted, JobOK, Idle
  <2>3. Sound(mem', pool', dirs, Uses)
    BY <1>8, <2>1, <2>2, SoundMap DEF map, Booted
  <2>4. JobOK'
    <3>1. (job.va + 1) % (ENTRIES * ENTRIES) \in VPage
      <4>1. job.va + 1 \in Int
        BY <2>2, VPages DEF VPage
      <4> QED
        BY <4>1, VPages, ModFact DEF VPage
    <3>2. job.pa + 1 \in Nat /\ job.left - 1 \in Nat /\ (job.pa + 1) + (job.left - 1) <= PAGES
      BY <2>2, SizesAssumption DEF Page
    <3>3. /\ dirs' = dirs
          /\ job' = RangeJob(job.pgd, job.pa + 1, (job.va + 1) % (ENTRIES * ENTRIES),
                             job.left - 1, job.flags)
      BY <1>8 DEF map
    <3> QED
      BY <2>2, <3>1, <3>2, <3>3, StartsRange DEF JobOK
  <2> QED
    BY <1>8, <2>1, <2>3, <2>4 DEF map, Booted, Uses
<1>9. CASE copypgt
  <2>1. Booted /\ calls' \in 0 .. MaxCalls
    BY <1>3, <1>9 DEF copypgt
  <2>2. dirs' = dirs \cup {Got(pool)} /\ Uses' = Uses
    BY <1>9 DEF copypgt, Uses
  <2>3. Sound(mem', pool', dirs', Uses')
    BY <1>9, <2>1, <2>2, SoundDirectory DEF copypgt, Booted
  <2>4. PICK opgd \in dirs, size \in 1 .. MaxSize :
               /\ PGUPBOUND(size) <= PAGES
               /\ job' = CopyJob(opgd, Got(pool), 0, PGUPBOUND(size))
    BY <1>9 DEF copypgt
  <2>5. JobOK'
    <3>1. PGUPBOUND(size) \in Nat /\ 0 + PGUPBOUND(size) <= ENTRIES * ENTRIES
      BY SizeFits, VPages
    <3>2. opgd \in dirs' /\ Got(pool) \in dirs'
      BY <2>2
    <3> QED
      BY <2>4, <3>1, <3>2, StartsCopy, SizesAssumption DEF JobOK
  <2> QED
    BY <1>9, <2>1, <2>2, <2>3, <2>5 DEF copypgt, Booted
<1>10. CASE CopyPage
  <2>1. Booted /\ calls' \in 0 .. MaxCalls
    BY <1>2, <1>10 DEF CopyPage
  <2>2. /\ job.opgd \in dirs /\ job.npgd \in dirs /\ job.p \in VPage /\ job.left \in Nat \ {0}
        /\ job.p + job.left <= ENTRIES * ENTRIES /\ job.p + job.left <= PAGES
    BY <1>10, <2>1 DEF CopyPage, Booted, JobOK, Idle
  <2> DEFINE pte == getpte(mem, job.opgd, job.p)
             flags == IF pte = Zero THEN {} ELSE pte.flags
             npa == Got(pool)
             va == VTOP(npa)
  <2>3. flags \in SUBSET Flag
    BY <2>1, <2>2, ReadsWord DEF Booted, Word
  <2>4. Room(npa)
    BY <1>10 DEF CopyPage
  <2>5. PICK c \in Source(pte) :
          LET m == [mem EXCEPT ![npa] = c] IN
          /\ Room(Table(m, Left(pool), job.npgd, va))
          /\ mem' = Mapped(m, Left(pool), job.npgd, job.p, va, flags)
          /\ pool' = PoolMapped(m, Left(pool), job.npgd, va)
    BY <1>10 DEF CopyPage
  <2>6. c \in [Index -> Word \cup {Zero}]
    <3>1. mem \in MemType
      BY <2>1 DEF Booted, Sound
    <3> QED
      BY <3>1, ZerosType, DataType DEF Source, MemType
  <2> DEFINE m == [mem EXCEPT ![npa] = c]
  <2>7. npa \notin Uses /\ npa \in Page /\ Sound(mem, Left(pool), dirs, Uses \cup {npa})
    BY <2>1, <2>4, SoundTake, TakesSpare DEF Booted, Sound
  <2>8. Sound(m, Left(pool), dirs, Uses \cup {npa})
    BY <2>6, <2>7, SoundWrite
  <2>9. va \in VPage
    <3>1. npa - KERNELBASE \in Int
      BY <2>7, SizesAssumption DEF Page
    <3> QED
      BY <3>1, VPages, ModFact DEF VTOP, VPage
  <2> HIDE DEF m, flags, pte, npa, va
  <2>10. job.p \in Page /\ job.p \in Nat
    BY <2>2, VPages, SizesAssumption DEF Page, VPage
  <2>11. Sound(mem', pool', dirs, Uses \cup {npa})
    BY <2>2, <2>3, <2>5, <2>8, <2>9, <2>10, SoundMap DEF m, npa, va, flags, pte
  <2>12. Uses' = Uses \cup {npa} /\ dirs' = dirs
    BY <1>10 DEF CopyPage, Uses, npa
  <2>13. JobOK'
    <3>1. /\ job.p + 1 \in Nat /\ job.left - 1 \in Nat
          /\ (job.p + 1) + (job.left - 1) <= ENTRIES * ENTRIES
          /\ (job.p + 1) + (job.left - 1) <= PAGES
      BY <2>2, <2>10, VPages, SizesAssumption
    <3>2. job' = CopyJob(job.opgd, job.npgd, job.p + 1, job.left - 1)
      BY <1>10 DEF CopyPage
    <3> QED
      <4>1. job.opgd \in dirs' /\ job.npgd \in dirs'
        BY <2>2, <2>12
      <4>2. \/ job' = Idle
            \/ /\ job' \in [op : {"copy"}, opgd : dirs', npgd : dirs', p : VPage, left : Nat \ {0}]
               /\ job'.p + job'.left <= ENTRIES * ENTRIES /\ job'.p + job'.left <= PAGES
        BY <3>1, <3>2, <4>1, StartsCopy
      <4> QED
        BY <4>2 DEF JobOK
  <2>14. /\ copies' = copies \cup {npa} /\ held' = held /\ heap' = heap
         /\ kmsize' = kmsize /\ kpgdir' = kpgdir
    BY <1>10 DEF CopyPage, npa
  <2> QED
    BY <2>1, <2>7, <2>11, <2>12, <2>13, <2>14 DEF Booted, Uses
<1>11. CASE kmalloc
  <2>1. Booted /\ calls' \in 0 .. MaxCalls
    BY <1>3, <1>11 DEF kmalloc
  <2>2. PICK size \in 1 .. MaxSize :
               /\ kmsize' = kmsize + size
               /\ job' = HeapJob(NewPages(kmsize, kmsize + size))
    BY <1>11 DEF kmalloc
  <2>3. size \in Nat /\ kmsize \in Nat /\ kmsize + size \in Nat /\ kmsize <= kmsize + size
    BY <2>1, SizesAssumption DEF Booted
  <2>4. NewPages(kmsize, kmsize + size) \in Nat
    BY <2>3, PgupboundMonotone DEF NewPages
  <2>5. JobOK'
    BY <2>2, <2>4, StartsTake DEF JobOK
  <2> QED
    BY <1>11, <2>1, <2>2, <2>3, <2>5 DEF kmalloc, Booted, Uses
<1>12. CASE vmalloc
  <2>1. Booted /\ calls' \in 0 .. MaxCalls
    BY <1>2, <1>12 DEF vmalloc
  <2>2. job.left \in Nat \ {0}
    BY <1>12, <2>1 DEF vmalloc, Booted, JobOK, Idle
  <2>3. Uses' = Uses \cup {Got(pool)}
    BY <1>12 DEF vmalloc, Uses
  <2>4. Sound(mem', pool', dirs', Uses') /\ Got(pool) \notin Uses
    BY <1>12, <2>1, <2>3, UseNext DEF vmalloc
  <2>5. JobOK'
    <3>1. job.left - 1 \in Nat /\ job' = HeapJob(job.left - 1)
      BY <1>12, <2>2 DEF vmalloc
    <3> QED
      BY <3>1, StartsTake DEF JobOK
  <2> QED
    BY <1>12, <2>1, <2>4, <2>5 DEF vmalloc, Booted, Uses
<1>13. CASE UNCHANGED vars
  BY <1>13 DEF vars, Booting, Booted, JobOK, Uses
<1> QED
  BY <1>1, <1>4, <1>5, <1>6, <1>7, <1>8, <1>9, <1>10, <1>11, <1>12, <1>13 DEF Next

------------------------------------------------------------------------------
(* The theorems about pages *)

LEMMA InvCorrect == ASSUME Habits = {} PROVE Spec => []Inv
<1>1. Init => Inv
  BY InvInit
<1>2. Inv /\ [Next]_vars => Inv'
  BY InvNext
<1> QED
  BY <1>1, <1>2, PTL DEF Spec

\* The memory keeps its types, page tables that callers and copypgt write
\* included (memory.c).
THEOREM TypeCorrect == ASSUME Habits = {} PROVE Spec => []TypeOK
<1>1. Spec => []Inv
  BY InvCorrect
<1> QED
  BY <1>1, InvTypes, PTL

\* Every page behind the kernel that was handed out has exactly one use, and
\* none is lost (allocPage, freePage, map, copypgt, vmalloc).
THEOREM PagesCorrect == ASSUME Habits = {} PROVE Spec => []PagesHaveOneUse
<1>1. Spec => []Inv
  BY InvCorrect
<1> QED
  BY <1>1, InvOneUse, PTL

(***************************************************************************)
(* With the pages vmalloc has still to take, the heap is paid for.         *)
(***************************************************************************)
Owed == IF job.op = "vmalloc" THEN job.left ELSE 0

HeapInv ==
  /\ IsFiniteSet(heap)
  /\ job.op # "boot" => Cardinality(heap) + Owed = PGUPBOUND(kmsize) - HEAP

\* A step that neither is vmalloc nor starts it leaves the account alone.
LEMMA HeapKept ==
  ASSUME HeapInv, job.op \notin {"boot", "vmalloc"}, job'.op \notin {"boot", "vmalloc"},
         heap' = heap, kmsize' = kmsize
  PROVE  HeapInv'
BY DEF HeapInv, Owed

LEMMA JobNames ==
  /\ \A pgd, pa, va, n, flags : RangeJob(pgd, pa, va, n, flags).op \in {"idle", "range"}
  /\ \A o, d, p, n : CopyJob(o, d, p, n).op \in {"idle", "copy"}
  /\ Idle.op = "idle"
BY DEF RangeJob, CopyJob, Idle

LEMMA HeapNext == Inv /\ HeapInv /\ [Next]_vars => HeapInv'
<1> SUFFICES ASSUME Inv, HeapInv, [Next]_vars PROVE HeapInv'
  OBVIOUS
<1>1. CASE kmemInit
  <2>1. heap' = {} /\ kmsize' = HEAP * ENTRIES /\ job'.op \in {"idle", "range"}
    BY <1>1, JobNames DEF Inv, Booting, Booted, JobOK, Idle, kmemInit
  <2>2. PGUPBOUND(HEAP * ENTRIES) = HEAP
    BY SizesAssumption, PgupboundExact
  <2> QED
    BY <2>1, <2>2, FS_EmptySet, SizesAssumption DEF HeapInv, Owed
<1>2. CASE allocPage
  BY <1>2, HeapKept, JobNames DEF allocPage, Call
<1>3. CASE Use
  BY <1>3, HeapKept, JobNames DEF Use, Call
<1>4. CASE freePage
  BY <1>4, HeapKept, JobNames DEF freePage, Call
<1>5. CASE rangemap
  BY <1>5, HeapKept, JobNames DEF rangemap, Call
<1>6. CASE map
  BY <1>6, HeapKept, JobNames DEF map
<1>7. CASE copypgt
  BY <1>7, HeapKept, JobNames DEF copypgt, Call
<1>8. CASE CopyPage
  BY <1>8, HeapKept, JobNames DEF CopyPage
<1>9. CASE kmalloc
  <2>1. PICK size \in 1 .. MaxSize :
               /\ kmsize' = kmsize + size
               /\ job' = HeapJob(NewPages(kmsize, kmsize + size))
    BY <1>9 DEF kmalloc
  <2>2. job = Idle /\ heap' = heap /\ kmsize \in Nat
    BY <1>9 DEF kmalloc, Call, Inv, Booting, Booted, Idle
  <2>3. size \in Nat /\ kmsize + size \in Nat /\ kmsize <= kmsize + size
    BY <2>2, SizesAssumption
  <2>4. /\ PGUPBOUND(kmsize) \in Nat /\ PGUPBOUND(kmsize + size) \in Nat
        /\ PGUPBOUND(kmsize) <= PGUPBOUND(kmsize + size)
    BY <2>2, <2>3, PgupboundMonotone
  <2>5. Owed' = PGUPBOUND(kmsize + size) - PGUPBOUND(kmsize)
    BY <2>1, <2>4 DEF Owed, HeapJob, NewPages, Idle
  <2>6. Cardinality(heap) \in Nat /\ Cardinality(heap) + 0 = PGUPBOUND(kmsize) - HEAP
    BY <2>2, FS_CardinalityType DEF HeapInv, Owed, Idle
  <2> QED
    BY <2>1, <2>2, <2>4, <2>5, <2>6, SizesAssumption DEF HeapInv
<1>10. CASE vmalloc
  <2>1. Booted
    BY <1>10 DEF Inv, Booting, vmalloc
  <2>2. job.left \in Nat \ {0}
    BY <1>10, <2>1 DEF vmalloc, Booted, JobOK, Idle
  <2>3. heap' = heap \cup {Got(pool)} /\ kmsize' = kmsize /\ Got(pool) \notin heap
    BY <1>10, <2>1, SoundTake DEF vmalloc, Booted, Uses
  <2>4. Owed = job.left /\ Owed' = job.left - 1 /\ job'.op # "boot"
    BY <1>10, <2>2 DEF vmalloc, Owed, HeapJob, Idle
  <2>5. IsFiniteSet(heap') /\ Cardinality(heap') = Cardinality(heap) + 1
    BY <2>3, FS_AddElement DEF HeapInv
  <2>6. Cardinality(heap) \in Nat /\ Cardinality(heap) + job.left = PGUPBOUND(kmsize) - HEAP
    BY <1>10, <2>4, FS_CardinalityType DEF HeapInv, vmalloc
  <2> QED
    BY <2>2, <2>3, <2>4, <2>5, <2>6 DEF HeapInv
<1>11. CASE UNCHANGED vars
  BY <1>11 DEF vars, HeapInv, Owed
<1> QED
  BY <1>1, <1>2, <1>3, <1>4, <1>5, <1>6, <1>7, <1>8, <1>9, <1>10, <1>11 DEF Next

\* The heap has as many pages as kmsize has grown by, rounded up (sbrk, vmalloc).
THEOREM HeapCorrect == ASSUME Habits = {} PROVE Spec => []HeapIsPaid
<1>1. Spec => []Inv
  BY InvCorrect
<1>2. Init => HeapInv
  BY FS_EmptySet DEF Init, HeapInv
<1>3. Inv /\ HeapInv /\ [Next]_vars => HeapInv'
  BY HeapNext
<1>4. HeapInv => HeapIsPaid
  BY FS_CardinalityType, SizesAssumption DEF HeapInv, HeapIsPaid, Owed
<1> QED
  BY <1>1, <1>2, <1>3, <1>4, PTL DEF Spec

------------------------------------------------------------------------------
(***************************************************************************)
(* Memory implements AddressMap for the kernel's page directory, for any   *)
(* size of pages and memory, under the assumptions above.                  *)
(***************************************************************************)

------------------------------------------------------------------------------
(* Arithmetic of addresses that wrap around *)

\* What % is.
LEMMA ModDiv ==
  ASSUME NEW x \in Int, NEW n \in Nat \ {0}
  PROVE  x % n = x - n * (x \div n)
BY SMT

\* A multiple of n strictly between -n and n is zero.
LEMMA SmallMultiple ==
  ASSUME NEW n \in Nat \ {0}, NEW z \in Int, NEW d \in Int, d = n * z, d < n, d > 0 - n
  PROVE  d = 0
<1>1. CASE z >= 1
  <2>1. n * z >= n * 1
    BY <1>1, SMT
  <2> QED
    BY <2>1
<1>2. CASE z <= 0 - 1
  <2>1. n * z <= n * (0 - 1)
    BY <1>2, SMT
  <2> QED
    BY <2>1
<1>3. CASE z = 0
  BY <1>3
<1> QED
  BY <1>1, <1>2, <1>3

\* Reducing a sum twice is reducing it once.
LEMMA ModTwice ==
  ASSUME NEW a \in Int, NEW k \in Int, NEW n \in Nat \ {0}
  PROVE  ((a % n) + k) % n = (a + k) % n
<1> DEFINE p == a \div n
           q == (a + k) \div n
           r == (a % n) + k
           s == r \div n
           x == r % n
           y == (a + k) % n
<1>1. p \in Int /\ q \in Int /\ a % n \in Int /\ r \in Int
  BY DivFact, ModFact
<1>2. s \in Int /\ x \in 0 .. n - 1 /\ y \in 0 .. n - 1
  BY <1>1, DivFact, ModFact
<1>3. r = a - n * p + k /\ x = r - n * s /\ y = a + k - n * q
  <2>1. a % n = a - n * p
    BY ModDiv
  <2>2. x = r - n * s
    BY <1>1, ModDiv
  <2>3. a + k \in Int
    OBVIOUS
  <2>4. y = a + k - n * q
    BY <2>3, ModDiv
  <2> QED
    BY <2>1, <2>2, <2>4
<1> HIDE DEF p, q, r, s, x, y
<1>4. x - y = n * q - n * p - n * s
  BY <1>1, <1>2, <1>3
<1>5. n * q - n * p - n * s = n * (q - p - s)
  BY <1>1, <1>2
<1>6. x - y < n /\ x - y > 0 - n /\ x - y \in Int /\ q - p - s \in Int
  BY <1>1, <1>2
<1>7. x - y = 0
  BY <1>4, <1>5, <1>6, SmallMultiple
<1>8. x = y
  BY <1>2, <1>7
<1> QED
  BY <1>8 DEF x, y, r

------------------------------------------------------------------------------
(* Translations of a directory *)

\* A virtual address is given by its two indices.
LEMMA IndicesDetermine ==
  ASSUME NEW u \in VPage, NEW v \in VPage,
         PGDINDEX(u) = PGDINDEX(v), PGTINDEX(u) = PGTINDEX(v)
  PROVE  u = v
<1>1. u \in Nat /\ v \in Nat /\ ENTRIES \in Nat \ {0}
  BY VPages DEF VPage
<1>2. u \div ENTRIES = v \div ENTRIES /\ u % ENTRIES = v % ENTRIES
  BY DEF PGDINDEX, PGTINDEX
<1> QED
  BY <1>1, <1>2, SMT

\* Translations are read from the directory and the tables it names.
LEMMA SameTranslation ==
  ASSUME NEW m, NEW s, NEW D, NEW O, Sound(m, s, D, O),
         NEW n, \A q \in D \cup TablesOf(m, D) : n[q] = m[q],
         NEW d \in D, NEW v \in VPage
  PROVE  getpte(n, d, v) = getpte(m, d, v)
<1>1. PGDINDEX(v) \in Index
  BY Indices
<1>2. n[d][PGDINDEX(v)] = m[d][PGDINDEX(v)]
  OBVIOUS
<1>3. CASE m[d][PGDINDEX(v)] = Zero
  BY <1>2, <1>3 DEF getpte
<1>4. CASE m[d][PGDINDEX(v)] # Zero
  <2>1. <<d, PGDINDEX(v)>> \in Entries(m, D)
    BY <1>1, <1>4 DEF Entries
  <2>2. m[d][PGDINDEX(v)].page \in TablesOf(m, D)
    BY <2>1 DEF TablesOf, Named
  <2>3. n[m[d][PGDINDEX(v)].page] = m[m[d][PGDINDEX(v)].page]
    BY <2>2
  <2> QED
    BY <1>2, <1>4, <2>3 DEF getpte
<1> QED
  BY <1>3, <1>4

\* A new table translates nothing, as no table does (map).
LEMMA TableTranslatesNothing ==
  ASSUME NEW m, NEW s, NEW D, NEW O, Sound(m, s, D, O),
         NEW pgd \in D, NEW va \in VPage, NEW flags \in SUBSET Flag,
         Room(Table(m, s, pgd, va)),
         NEW n, n = WithTable(m, s, pgd, va, flags),
         NEW d \in D, NEW v \in VPage
  PROVE  getpte(n, d, v) = getpte(m, d, v)
<1>1. CASE ~NeedsTable(m, pgd, va)
  BY <1>1 DEF WithTable
<1>2. CASE NeedsTable(m, pgd, va)
  <2>1. /\ Got(s) \in Page /\ Got(s) \in Spare(s) /\ pgd \in Page /\ m \in MemType
    BY <1>2, TakesSpare DEF Sound, Table
  <2>2. Got(s) \notin D /\ Got(s) \notin TablesOf(m, D) /\ Got(s) # pgd
    BY <2>1 DEF Sound
  <2>3. /\ n[Got(s)] = Zeros
        /\ \A q \in Page \ {pgd, Got(s)} : n[q] = m[q]
        /\ n[pgd][PGDINDEX(va)] = [page |-> Got(s), flags |-> flags]
        /\ n[pgd][PGDINDEX(va)] # Zero
        /\ \A e \in Index \ {PGDINDEX(va)} : n[pgd][e] = m[pgd][e]
    <3> DEFINE g == Got(s)
    <3>1. g # pgd /\ g \in Page /\ pgd \in Page /\ m \in MemType
      BY <2>1, <2>2
    <3>2. ASSUME NEW k, k = WithTable(m, s, pgd, va, flags)
          PROVE  /\ k[g] = Zeros
                 /\ \A q \in Page \ {pgd, g} : k[q] = m[q]
                 /\ k[pgd][PGDINDEX(va)] = [page |-> g, flags |-> flags]
                 /\ k[pgd][PGDINDEX(va)] # Zero
                 /\ \A e \in Index \ {PGDINDEX(va)} : k[pgd][e] = m[pgd][e]
      BY <1>2, <3>1, <3>2, NewTable
    <3> QED
      BY <3>2
  <2>4. PGDINDEX(v) \in Index /\ PGTINDEX(v) \in Index /\ d \in Page
    BY Indices DEF Sound
  <2>5. CASE d = pgd /\ PGDINDEX(v) = PGDINDEX(va)
    <3>1. getpte(n, d, v) = Zeros[PGTINDEX(v)]
      BY <2>3, <2>5 DEF getpte
    <3>2. getpte(m, d, v) = Zero
      BY <1>2, <2>5 DEF getpte, NeedsTable
    <3> QED
      BY <2>4, <3>1, <3>2, ZerosType
  <2>6. CASE ~(d = pgd /\ PGDINDEX(v) = PGDINDEX(va))
    <3>1. n[d][PGDINDEX(v)] = m[d][PGDINDEX(v)]
      BY <2>2, <2>3, <2>4, <2>6
    <3>2. CASE m[d][PGDINDEX(v)] = Zero
      BY <3>1, <3>2 DEF getpte
    <3>3. CASE m[d][PGDINDEX(v)] # Zero
      <4>1. <<d, PGDINDEX(v)>> \in Entries(m, D)
        BY <2>4, <3>3 DEF Entries
      <4>2. m[d][PGDINDEX(v)].page \in TablesOf(m, D) /\ m[d][PGDINDEX(v)].page \in Page
        BY <2>1, <4>1, NamesPages DEF Named, Sound
      <4>3. m[d][PGDINDEX(v)].page \notin {pgd, Got(s)}
        BY <2>2, <4>2 DEF Sound
      <4>4. n[m[d][PGDINDEX(v)].page] = m[m[d][PGDINDEX(v)].page]
        BY <2>3, <4>2, <4>3
      <4> QED
        BY <3>1, <3>3, <4>4 DEF getpte
    <3> QED
      BY <3>2, <3>3
  <2> QED
    BY <2>5, <2>6
<1> QED
  BY <1>1, <1>2

\* map changes the one translation it is asked to change.
LEMMA MapTranslates ==
  ASSUME NEW m, NEW s, NEW D, NEW O, Sound(m, s, D, O),
         NEW pgd \in D, NEW pa \in Page, NEW va \in VPage, NEW flags \in SUBSET Flag,
         Room(Table(m, s, pgd, va)),
         NEW d \in D, NEW v \in VPage
  PROVE  getpte(Mapped(m, s, pgd, pa, va, flags), d, v)
           = IF d = pgd /\ v = va THEN [page |-> pa, flags |-> flags] ELSE getpte(m, d, v)
<1> DEFINE n == WithTable(m, s, pgd, va, flags)
           r == PoolMapped(m, s, pgd, va)
           b == Table(m, s, pgd, va)
           w == [page |-> pa, flags |-> flags]
           k == [n EXCEPT ![b] = [n[b] EXCEPT ![PGTINDEX(va)] = w]]
           t == <<pgd, PGDINDEX(va)>>
<1>1. Sound(n, r, D, O) /\ t \in Entries(n, D) /\ Named(n, t) = b
  BY SoundTable
<1>2. getpte(n, d, v) = getpte(m, d, v)
  BY TableTranslatesNothing
<1>3. Mapped(m, s, pgd, pa, va, flags) = k
  BY DEF Mapped
<1>4. /\ b \in TablesOf(n, D) /\ b \in Page /\ b \notin D /\ n \in MemType
      /\ pgd \in Page /\ d \in Page
  BY <1>1, NamesPages DEF Sound, TablesOf
<1>5. PGDINDEX(v) \in Index /\ PGTINDEX(v) \in Index /\ PGTINDEX(va) \in Index
  BY Indices
<1> HIDE DEF n, r, b, w
<1>6. k[d] = n[d] /\ k[b] = [n[b] EXCEPT ![PGTINDEX(va)] = w]
      /\ \A q \in Page \ {b} : k[q] = n[q]
  BY <1>4 DEF MemType
<1> HIDE DEF k
<1>7. CASE n[d][PGDINDEX(v)] = Zero
  <2>1. ~(d = pgd /\ v = va)
    BY <1>1, <1>7 DEF Entries
  <2> QED
    BY <1>2, <1>3, <1>6, <1>7, <2>1 DEF getpte
<1>8. CASE n[d][PGDINDEX(v)] # Zero
  <2> DEFINE u == <<d, PGDINDEX(v)>>
             c == Named(n, u)
  <2>1. u \in Entries(n, D) /\ c = n[d][PGDINDEX(v)].page /\ c \in Page
    BY <1>4, <1>5, <1>8, NamesPages DEF Entries, Named, Sound
  <2>2. getpte(k, d, v) = k[c][PGTINDEX(v)] /\ getpte(n, d, v) = n[c][PGTINDEX(v)]
    BY <1>6, <1>8, <2>1 DEF getpte
  <2>3. CASE u = t
    <3>1. c = b /\ d = pgd /\ PGDINDEX(v) = PGDINDEX(va)
      BY <1>1, <2>3
    <3>2. CASE v = va
      <4>1. k[b][PGTINDEX(va)] = w
        BY <1>4, <1>5, <1>6 DEF MemType
      <4> QED
        BY <1>3, <2>2, <3>1, <3>2, <4>1 DEF w
    <3>3. CASE v # va
      <4>1. PGTINDEX(v) # PGTINDEX(va)
        BY <3>1, <3>3, IndicesDetermine
      <4>2. k[b][PGTINDEX(v)] = n[b][PGTINDEX(v)]
        BY <1>4, <1>5, <1>6, <4>1 DEF MemType
      <4> QED
        BY <1>2, <1>3, <2>2, <3>1, <3>3, <4>2
    <3> QED
      BY <3>2, <3>3
  <2>4. CASE u # t
    <3>1. c # b
      BY <1>1, <2>1, <2>4 DEF Sound
    <3>2. k[c] = n[c]
      BY <1>6, <2>1, <3>1
    <3>3. ~(d = pgd /\ v = va)
      BY <2>4
    <3> QED
      BY <1>2, <1>3, <2>2, <3>2, <3>3
  <2> QED
    BY <2>3, <2>4
<1> QED
  BY <1>7, <1>8

------------------------------------------------------------------------------
(* What the steps do to the address map *)

\* Nothing changes, and nothing is wanted.
LEMMA MapStutter ==
  ASSUME Translations' = Translations, Wanted' = Wanted
  PROVE  [Kernel!Next]_(Kernel!vars)
BY DEF Kernel!vars

\* Nothing is wanted when rangemap does not run.
LEMMA NothingWanted ==
  /\ job.op # "range" => Wanted = << >>
  /\ job'.op # "range" => Wanted' = << >>
BY DEF Wanted

\* The kernel's translations stay when its directory's pages do.
LEMMA TranslationsKept ==
  ASSUME Booted, kpgdir' = kpgdir,
         \A v \in VPage : getpte(mem', kpgdir, v) = getpte(mem, kpgdir, v)
  PROVE  Translations' = Translations
BY DEF Translations

\* Writing to pages of other uses keeps translations.
LEMMA OtherPageKept ==
  ASSUME NEW m, NEW s, NEW D, NEW O, Sound(m, s, D, O), NEW p \in O, NEW c,
         NEW d \in D, NEW v \in VPage
  PROVE  getpte([m EXCEPT ![p] = c], d, v) = getpte(m, d, v)
<1>1. p \notin D \cup TablesOf(m, D) /\ D \cup TablesOf(m, D) \subseteq Page /\ m \in MemType
  BY NamesPages DEF Sound, TablesOf
<1> DEFINE n == [m EXCEPT ![p] = c]
<1>2. \A q \in D \cup TablesOf(m, D) : n[q] = m[q]
  BY <1>1 DEF MemType
<1> HIDE DEF n
<1>3. getpte(n, d, v) = getpte(m, d, v)
  BY <1>2, SameTranslation
<1> QED
  BY <1>3 DEF n

\* A call of rangemap for the kernel's directory is a request, if it asks for
\* a page at all.
LEMMA AsksRange ==
  ASSUME Translations' = Translations, kpgdir' # None, Wanted = << >>,
         NEW pgd, NEW pa \in Page, NEW va \in VPage, NEW n \in Nat,
         NEW flags \in SUBSET Flag,
         job' = RangeJob(pgd, pa, va, n, flags)
  PROVE  [Kernel!Next]_(Kernel!vars)
<1>1. CASE n = 0 \/ pgd # kpgdir'
  <2>1. Wanted' = << >>
    BY <1>1 DEF Wanted, RangeJob, Idle
  <2> QED
    BY <2>1, MapStutter
<1>2. CASE n # 0 /\ pgd = kpgdir'
  <2> DEFINE reqs == [k \in 1 .. n |-> [va |-> (va + k - 1) % (ENTRIES * ENTRIES),
                                        word |-> [page |-> pa + k - 1, flags |-> flags]]]
  <2>1. Wanted' = reqs
    BY <1>2 DEF Wanted, RangeJob
  <2>2. Len(reqs) = n
    OBVIOUS
  <2>3. Kernel!Requests(pa, va, Len(Wanted'), flags) = reqs
    BY <2>1, <2>2 DEF Kernel!Requests
  <2> HIDE DEF reqs
  <2>4. Wanted' = Kernel!Requests(pa, va, Len(Wanted'), flags)
    BY <2>1, <2>3
  <2>5. va \in Kernel!VPage
    BY DEF Kernel!VPage, VPage
  <2>6. Kernel!Ask
    BY <2>4, <2>5 DEF Kernel!Ask
  <2> QED
    BY <2>6 DEF Kernel!Next
<1> QED
  BY <1>1, <1>2

\* One round of rangemap in the kernel's directory serves the first request.
LEMMA MapServes ==
  ASSUME Booted, map, job.pgd = kpgdir
  PROVE  Kernel!Next
<1>1. /\ job.op = "range" /\ job.pgd \in dirs /\ job.pa \in Page /\ job.va \in VPage
      /\ job.left \in Nat \ {0} /\ job.flags \in SUBSET Flag
  BY DEF map, Booted, JobOK, Idle
<1>2. job.pa \in Nat /\ job.va \in Nat /\ ENTRIES * ENTRIES \in Nat \ {0}
  BY <1>1, SizesAssumption, VPages DEF Page, VPage
<1> DEFINE V == ENTRIES * ENTRIES
           req(k) == [va |-> (job.va + k - 1) % V,
                      word |-> [page |-> job.pa + k - 1, flags |-> job.flags]]
           reqs == [k \in 1 .. job.left |-> req(k)]
           rest == [k \in 1 .. job.left - 1 |-> req(k + 1)]
<1>3. Wanted = reqs
  BY <1>1 DEF Wanted
<1>4. Head(reqs) = req(1) /\ Tail(reqs) = rest /\ reqs # << >>
  BY <1>1
<1>5. (job.va + 1 - 1) % V = job.va /\ job.pa + 1 - 1 = job.pa
  <2>1. job.va < V
    BY <1>1, <1>2 DEF VPage
  <2>2. job.va % V = job.va
    BY <1>2, <2>1, SMT
  <2> QED
    BY <1>2, <2>2
<1>6. Wanted' = rest
  <2>1. job' = RangeJob(job.pgd, job.pa + 1, (job.va + 1) % V, job.left - 1, job.flags)
        /\ kpgdir' = kpgdir
    BY DEF map
  <2>2. CASE job.left = 1
    <3>1. Wanted' = << >>
      BY <2>1, <2>2 DEF Wanted, RangeJob, Idle
    <3> QED
      BY <2>2, <3>1
  <2>3. CASE job.left # 1
    <3>1. Wanted' = [k \in 1 .. job.left - 1 |->
                       [va |-> (((job.va + 1) % V) + k - 1) % V,
                        word |-> [page |-> job.pa + 1 + k - 1, flags |-> job.flags]]]
      BY <1>1, <2>1, <2>3 DEF Wanted, RangeJob
    <3>2. ASSUME NEW k \in 1 .. job.left - 1
          PROVE  /\ (((job.va + 1) % V) + k - 1) % V = (job.va + (k + 1) - 1) % V
                 /\ job.pa + 1 + k - 1 = job.pa + (k + 1) - 1
      <4>1. k \in Nat /\ k - 1 \in Int /\ job.va + 1 \in Int
        BY <1>1, <1>2
      <4>2. (((job.va + 1) % V) + (k - 1)) % V = ((job.va + 1) + (k - 1)) % V
        BY <1>2, <4>1, ModTwice
      <4> HIDE DEF V
      <4>3. (job.va + 1) % V \in 0 .. V - 1
        BY <1>2, <4>1, ModFact DEF V
      <4>4. ((job.va + 1) % V) + k - 1 = ((job.va + 1) % V) + (k - 1)
            /\ (job.va + 1) + (k - 1) = job.va + (k + 1) - 1
        BY <1>2, <4>1, <4>3
      <4> QED
        BY <1>2, <4>1, <4>2, <4>4
    <3> QED
      BY <3>1, <3>2
  <2> QED
    BY <2>2, <2>3
<1>7. Translations' = [Translations EXCEPT ![job.va] = [page |-> job.pa, flags |-> job.flags]]
  <2>1. \A v \in VPage : getpte(mem', kpgdir, v)
                          = IF v = job.va THEN [page |-> job.pa, flags |-> job.flags]
                                          ELSE getpte(mem, kpgdir, v)
    <3>1. /\ mem' = Mapped(mem, pool, job.pgd, job.pa, job.va, job.flags)
          /\ Room(Table(mem, pool, job.pgd, job.va))
      BY DEF map
    <3>2. Sound(mem, pool, dirs, Uses)
      BY DEF Booted
    <3> QED
      BY <1>1, <3>1, <3>2, MapTranslates
  <2>2. kpgdir' = kpgdir /\ kpgdir # None
    BY SizesAssumption DEF map, Booted, Sound, Page, None
  <2> QED
    BY <1>1, <2>1, <2>2 DEF Translations
<1> HIDE DEF reqs, rest
<1>8. Head(Wanted).va = job.va
      /\ Head(Wanted).word = [page |-> job.pa, flags |-> job.flags]
  BY <1>3, <1>4, <1>5
<1>9. Wanted # << >> /\ Wanted' = Tail(Wanted)
  BY <1>3, <1>4, <1>6
<1> QED
  BY <1>7, <1>8, <1>9 DEF Kernel!Serve, Kernel!Next

\* A step with no request before or after it that keeps the kernel's translations.
LEMMA KeepsMap ==
  ASSUME Booted, kpgdir' = kpgdir,
         job.op # "range" \/ job.pgd # kpgdir, job'.op # "range" \/ job'.pgd # kpgdir,
         \A v \in VPage : getpte(mem', kpgdir, v) = getpte(mem, kpgdir, v)
  PROVE  [Kernel!Next]_(Kernel!vars)
<1>1. Wanted = << >> /\ Wanted' = << >>
  BY DEF Wanted
<1>2. Translations' = Translations
  BY TranslationsKept
<1> QED
  BY <1>1, <1>2, MapStutter

\* The directory copypgt writes to is not the kernel's.
OwnCopy == job.op = "copy" => job.npgd # kpgdir

LEMMA OwnCopyNext == Inv /\ OwnCopy /\ [Next]_vars => OwnCopy'
<1> SUFFICES ASSUME Inv, OwnCopy, [Next]_vars PROVE OwnCopy'
  OBVIOUS
<1>1. CASE kmemInit \/ rangemap \/ map
  BY <1>1, JobNames DEF kmemInit, rangemap, map, OwnCopy
<1>2. CASE allocPage \/ Use \/ freePage
  BY <1>2 DEF allocPage, Use, freePage, OwnCopy
<1>3. CASE copypgt
  <2>1. Booted
    BY <1>3 DEF Inv, Booting, copypgt, Call, Idle
  <2>2. Got(pool) # kpgdir /\ kpgdir' = kpgdir
    <3>1. Room(Got(pool)) /\ kpgdir' = kpgdir
      BY <1>3 DEF copypgt
    <3>2. Sound(mem, pool, dirs, Uses) /\ kpgdir \in dirs
      BY <2>1 DEF Booted
    <3>3. Got(pool) \notin dirs
      BY <3>1, <3>2, SoundTake
    <3> QED
      BY <3>1, <3>2, <3>3
  <2>3. PICK opgd \in dirs, n \in {PGUPBOUND(size) : size \in 1 .. MaxSize} :
               job' = CopyJob(opgd, Got(pool), 0, n)
    BY <1>3 DEF copypgt
  <2> QED
    BY <2>2, <2>3 DEF OwnCopy, CopyJob, Idle
<1>4. CASE CopyPage
  <2>1. job' = CopyJob(job.opgd, job.npgd, job.p + 1, job.left - 1) /\ kpgdir' = kpgdir
        /\ job.npgd # kpgdir
    BY <1>4 DEF CopyPage, OwnCopy
  <2> QED
    BY <2>1 DEF OwnCopy, CopyJob, Idle
<1>5. CASE kmalloc \/ vmalloc
  <2>1. job'.op \in {"idle", "vmalloc"}
    BY <1>5 DEF kmalloc, vmalloc, HeapJob, Idle
  <2> QED
    BY <2>1 DEF OwnCopy
<1>6. CASE UNCHANGED vars
  BY <1>6 DEF vars, OwnCopy
<1> QED
  BY <1>1, <1>2, <1>3, <1>4, <1>5, <1>6 DEF Next

\* Every step serves a request, makes some, or keeps the map.
LEMMA MapNext == ASSUME Habits = {} PROVE Inv /\ OwnCopy /\ [Next]_vars => [Kernel!Next]_(Kernel!vars)
<1> SUFFICES ASSUME Inv, OwnCopy, [Next]_vars PROVE [Kernel!Next]_(Kernel!vars)
  OBVIOUS
<1>1. CASE kmemInit
  <2>1. Booting /\ HEAP \in Page /\ HEAP # None
    BY <1>1, SizesAssumption DEF Inv, kmemInit, Booted, JobOK, Idle, Page, None
  <2>2. mem' = [p \in Page |-> Zeros] /\ kpgdir = None /\ kpgdir' = HEAP
    BY <1>1, <2>1 DEF Booting, kmemInit
  <2>3. \A v \in VPage : getpte(mem', HEAP, v) = Zero
    BY <2>1, <2>2, Indices, ZerosType DEF getpte
  <2>4. Translations' = Translations
    BY <2>1, <2>2, <2>3 DEF Translations
  <2>5. Wanted = << >>
    BY <2>1 DEF Wanted, Booting
  <2>6. KERNSIZE \in Nat /\ PTOV(0) \in VPage /\ 0 \in Page /\ {"rw"} \in SUBSET Flag
    BY SizesAssumption, VPages DEF PTOV, VPage, Page, Flag
  <2>7. job' = RangeJob(HEAP, 0, PTOV(0), KERNSIZE, {"rw"})
    BY <1>1 DEF kmemInit
  <2> QED
    BY <2>1, <2>2, <2>4, <2>5, <2>6, <2>7, AsksRange
<1>2. ASSUME job.op # "boot" PROVE Booted /\ Sound(mem, pool, dirs, Uses) /\ kpgdir \in dirs
  BY <1>2 DEF Inv, Booting, Booted
<1>3. ASSUME Call PROVE Booted /\ job = Idle /\ Idle.op = "idle"
  BY <1>2, <1>3 DEF Call, Idle
<1>4. CASE allocPage
  BY <1>3, <1>4, KeepsMap DEF allocPage
<1>5. CASE Use
  <2>1. Booted /\ job.op = "idle" /\ job' = job /\ kpgdir' = kpgdir
    BY <1>3, <1>5 DEF Use
  <2>2. PICK p \in held : mem' = [mem EXCEPT ![p] = Data]
    BY <1>5 DEF Use
  <2>3. p \in Uses /\ Sound(mem, pool, dirs, Uses) /\ kpgdir \in dirs
    BY <2>1 DEF Uses, Booted
  <2>4. \A v \in VPage : getpte(mem', kpgdir, v) = getpte(mem, kpgdir, v)
    <3>1. \A v \in VPage : getpte([mem EXCEPT ![p] = Data], kpgdir, v) = getpte(mem, kpgdir, v)
      BY <2>3, OtherPageKept
    <3> QED
      BY <2>2, <3>1
  <2> QED
    BY <2>1, <2>4, KeepsMap
<1>6. CASE freePage
  <2>1. Booted /\ job.op = "idle" /\ job' = job /\ kpgdir' = kpgdir
    BY <1>3, <1>6 DEF freePage
  <2>2. PICK p \in held : mem' = [mem EXCEPT ![p] = Zeros]
    BY <1>6 DEF freePage, Wiped
  <2>3. p \in Uses /\ Sound(mem, pool, dirs, Uses) /\ kpgdir \in dirs
    BY <2>1 DEF Uses, Booted
  <2>4. \A v \in VPage : getpte(mem', kpgdir, v) = getpte(mem, kpgdir, v)
    <3>1. \A v \in VPage : getpte([mem EXCEPT ![p] = Zeros], kpgdir, v) = getpte(mem, kpgdir, v)
      BY <2>3, OtherPageKept
    <3> QED
      BY <2>2, <3>1
  <2> QED
    BY <2>1, <2>4, KeepsMap
<1>7. CASE rangemap
  <2>1. Booted /\ job.op = "idle" /\ kpgdir' = kpgdir /\ mem' = mem
    BY <1>3, <1>7 DEF rangemap
  <2>2. PICK pgd \in dirs, pa \in Targets, va \in VPage, size \in 1 .. MaxSize,
             flags \in Rights : job' = RangeJob(pgd, pa, va, PGUPBOUND(size), flags)
    BY <1>7 DEF rangemap
  <2>3. pa \in Page /\ PGUPBOUND(size) \in Nat /\ flags \in SUBSET Flag
    BY NodesAssumption, RightsAssumption, SizeFits DEF Flag, Page
  <2>4. Translations' = Translations /\ Wanted = << >>
    BY <2>1 DEF Translations, Wanted
  <2>5. kpgdir' # None
    BY <2>1, SizesAssumption DEF Booted, Sound, Page, None
  <2> QED
    BY <2>2, <2>3, <2>4, <2>5, AsksRange
<1>8. CASE map
  <2>1. Booted /\ kpgdir' = kpgdir
    BY <1>2, <1>8 DEF map
  <2>2. CASE job.pgd = kpgdir
    BY <1>8, <2>1, <2>2, MapServes
  <2>3. CASE job.pgd # kpgdir
    <3>1. /\ job.pgd \in dirs /\ job.pa \in Page /\ job.va \in VPage
          /\ job.flags \in SUBSET Flag
      BY <1>8, <2>1 DEF map, Booted, JobOK, Idle
    <3>2. job'.op # "range" \/ job'.pgd # kpgdir
      BY <1>8, <2>3 DEF map, RangeJob, Idle
    <3>3. /\ mem' = Mapped(mem, pool, job.pgd, job.pa, job.va, job.flags)
          /\ Room(Table(mem, pool, job.pgd, job.va))
          /\ Sound(mem, pool, dirs, Uses) /\ kpgdir \in dirs
      BY <1>8, <2>1 DEF map, Booted
    <3>4. \A v \in VPage : getpte(mem', kpgdir, v) = getpte(mem, kpgdir, v)
      BY <2>3, <3>1, <3>3, MapTranslates
    <3> QED
      BY <2>1, <2>3, <3>2, <3>4, KeepsMap
  <2> QED
    BY <2>2, <2>3
<1>9. CASE copypgt
  <2>1. Booted /\ job.op = "idle" /\ kpgdir' = kpgdir /\ mem' = mem
    BY <1>3, <1>9 DEF copypgt
  <2>2. job'.op # "range"
    BY <1>9, JobNames DEF copypgt
  <2> QED
    BY <2>1, <2>2, KeepsMap
<1>10. CASE CopyPage
  <2>1. Booted /\ job.op = "copy" /\ kpgdir' = kpgdir
    BY <1>2, <1>10 DEF CopyPage
  <2>2. job'.op # "range"
    BY <1>10, JobNames DEF CopyPage
  <2>3. /\ job.npgd \in dirs /\ job.opgd \in dirs /\ job.p \in VPage
        /\ job.left \in Nat \ {0} /\ job.p + job.left <= PAGES
    BY <2>1 DEF Booted, JobOK, Idle
  <2> DEFINE pte == getpte(mem, job.opgd, job.p)
             flags == IF pte = Zero THEN {} ELSE pte.flags
             npa == Got(pool)
             va == VTOP(npa)
  <2>4. flags \in SUBSET Flag
    BY <2>1, <2>3, ReadsWord DEF Booted, Word
  <2>5. PICK c \in Source(pte) :
          LET m == [mem EXCEPT ![npa] = c] IN
          /\ Room(Table(m, Left(pool), job.npgd, va))
          /\ mem' = Mapped(m, Left(pool), job.npgd, job.p, va, flags)
    BY <1>10 DEF CopyPage
  <2> DEFINE m == [mem EXCEPT ![npa] = c]
  <2>6. Room(npa)
    BY <1>10 DEF CopyPage
  <2>7. npa \in Page /\ Sound(mem, Left(pool), dirs, Uses \cup {npa})
    BY <2>1, <2>6, SoundTake, TakesSpare DEF Booted, Sound
  <2>8. c \in [Index -> Word \cup {Zero}]
    <3>1. mem \in MemType
      BY <2>1 DEF Booted, Sound
    <3> QED
      BY <3>1, ZerosType, DataType DEF Source, MemType
  <2>9. Sound(m, Left(pool), dirs, Uses \cup {npa})
    BY <2>7, <2>8, SoundWrite
  <2>10. va \in VPage
    <3>1. npa - KERNELBASE \in Int
      BY <2>7, SizesAssumption DEF Page
    <3> QED
      BY <3>1, VPages, ModFact DEF VTOP, VPage
  <2>11. job.p \in Page
    BY <2>3, VPages, SizesAssumption DEF Page, VPage
  <2>12. kpgdir \in dirs /\ npa \in Uses \cup {npa} /\ job.npgd # kpgdir
    BY <2>1 DEF Booted, OwnCopy
  <2>13. \A v \in VPage : getpte(m, kpgdir, v) = getpte(mem, kpgdir, v)
    <3> DEFINE O == Uses \cup {npa}
               s == Left(pool)
    <3>1. Sound(mem, s, dirs, O) /\ npa \in O
      BY <2>7
    <3> HIDE DEF O, s, pte, flags, npa
    <3> QED
      BY <2>12, <3>1, OtherPageKept
  <2> HIDE DEF m, flags, pte, npa, va
  <2>14. Room(Table(m, Left(pool), job.npgd, va))
         /\ mem' = Mapped(m, Left(pool), job.npgd, job.p, va, flags)
    BY <2>5 DEF m
  <2>15. \A v \in VPage : getpte(mem', kpgdir, v) = getpte(m, kpgdir, v)
    BY <2>3, <2>4, <2>9, <2>10, <2>11, <2>12, <2>14, MapTranslates
  <2> QED
    BY <2>1, <2>2, <2>13, <2>15, KeepsMap
<1>11. CASE kmalloc
  <2>1. Booted /\ job.op = "idle" /\ kpgdir' = kpgdir /\ mem' = mem
    BY <1>3, <1>11 DEF kmalloc
  <2>2. job'.op # "range"
    BY <1>11 DEF kmalloc, HeapJob, Idle
  <2> QED
    BY <2>1, <2>2, KeepsMap
<1>12. CASE vmalloc
  <2>1. Booted /\ job.op = "vmalloc" /\ kpgdir' = kpgdir /\ mem' = mem
    BY <1>2, <1>12 DEF vmalloc
  <2>2. job'.op # "range"
    BY <1>12 DEF vmalloc, HeapJob, Idle
  <2> QED
    BY <2>1, <2>2, KeepsMap
<1>13. CASE UNCHANGED vars
  BY <1>13, MapStutter DEF vars, Translations, Wanted
<1> QED
  BY <1>1, <1>4, <1>5, <1>6, <1>7, <1>8, <1>9, <1>10, <1>11, <1>12, <1>13 DEF Next

------------------------------------------------------------------------------
(***************************************************************************)
(* Whatever the callers and copypgt do, the kernel's address map changes   *)
(* only as map and rangemap are asked to change it (memory.c).             *)
(***************************************************************************)
THEOREM AddressMapCorrect == ASSUME Habits = {} PROVE Spec => ImplementsAddressMap
<1>1. Init => OwnCopy /\ Kernel!Init
  <2>1. Init => OwnCopy
    BY DEF Init, OwnCopy
  <2>2. Init => Wanted = << >> /\ Translations = [v \in VPage |-> Zero]
    BY DEF Init, Wanted, Translations
  <2>3. Kernel!VPage = VPage
    BY DEF Kernel!VPage, VPage
  <2> QED
    BY <2>1, <2>2, <2>3 DEF Kernel!Init
<1>2. Spec => []Inv
  BY InvCorrect
<1>3. Inv /\ OwnCopy /\ [Next]_vars => OwnCopy'
  BY OwnCopyNext
<1>4. Inv /\ OwnCopy /\ [Next]_vars => [Kernel!Next]_(Kernel!vars)
  BY MapNext
<1> QED
  BY <1>1, <1>2, <1>3, <1>4, PTL DEF Spec, ImplementsAddressMap, Kernel!Spec
==============================================================================
