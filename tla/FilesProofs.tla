----------------------------- MODULE FilesProofs -----------------------------
(***************************************************************************)
(* Theorems about Files, for any size of blocks, files, maps and names,    *)
(* when callers respect what the code does not provide for and the stray   *)
(* writes miss the data area.                                              *)
(***************************************************************************)
EXTENDS Files, FiniteSetTheorems, TLAPS

------------------------------------------------------------------------------
(* Arithmetic *)

\* What \div and % are.
LEMMA DivMod ==
  ASSUME NEW x \in Int, NEW n \in Nat \ {0}
  PROVE  /\ x \div n \in Int /\ x % n \in 0 .. n - 1
         /\ x = n * (x \div n) + (x % n)
<1>1. x \div n \in Int /\ x % n \in 0 .. n - 1
  BY SMT
<1>2. x = n * (x \div n) + (x % n)
  BY SMT
<1> QED
  BY <1>1, <1>2

\* A number has one quotient and one remainder.
LEMMA DivModUnique ==
  ASSUME NEW n \in Nat \ {0}, NEW q \in Int, NEW r \in 0 .. n - 1
  PROVE  (n * q + r) \div n = q /\ (n * q + r) % n = r
<1> DEFINE x == n * q + r
           p == x \div n
           s == x % n
<1>1. x \in Int /\ p \in Int /\ s \in 0 .. n - 1 /\ x = n * p + s
  BY DivMod
<1>2. n * (p - q) = r - s
  BY <1>1
<1>3. p - q = 0
  <2> DEFINE d == p - q
  <2>1. d \in Int /\ n * d < n /\ n * d > 0 - n
    BY <1>1, <1>2
  <2> HIDE DEF d
  <2>2. CASE d >= 1
    <3>1. n * d >= n * 1
      BY <2>1, <2>2, SMT
    <3> QED
      BY <2>1, <3>1
  <2>3. CASE d <= 0 - 1
    <3>1. n * d <= n * (0 - 1)
      BY <2>1, <2>3, SMT
    <3> QED
      BY <2>1, <3>1
  <2>4. d = 0
    BY <2>1, <2>2, <2>3
  <2> QED
    BY <2>4 DEF d
<1> QED
  BY <1>1, <1>3

\* Products keep the order.
LEMMA ProductOrder ==
  ASSUME NEW n \in Nat, NEW x \in Int, NEW y \in Int, x <= y
  PROVE  n * x \in Int /\ n * y \in Int /\ n * x <= n * y
<1> DEFINE d == y - x
<1>1. d \in Nat /\ y = x + d
  OBVIOUS
<1> HIDE DEF d
<1>2. n * (x + d) = n * x + n * d
  BY <1>1
<1>3. n * d \in Nat /\ n * x \in Int
  BY <1>1
<1> QED
  BY <1>1, <1>2, <1>3

\* A nonempty set of numbers has a least one.
LEMMA LeastNat ==
  ASSUME NEW S \in SUBSET Nat, S # {}
  PROVE  \E n \in S : \A m \in S : n <= m
<1>1. \E n \in S : \A m \in S : <<m, n>> \notin OpToRel(<, Nat)
  BY NatLessThanWellFounded, WFMin
<1>2. PICK n \in S : \A m \in S : <<m, n>> \notin OpToRel(<, Nat)
  BY <1>1
<1>3. \A m \in S : ~(m < n)
  BY <1>2 DEF OpToRel
<1> QED
  BY <1>3

\* The least of a set of places.
LEMMA MinPlace ==
  ASSUME NEW S \in SUBSET Nat, S # {}
  PROVE  Min(S) \in S /\ \A m \in S : Min(S) <= m
BY LeastNat DEF Min

------------------------------------------------------------------------------
(* allocData *)

\* What the search of allocData looks at.
LEMMA FreeFinite ==
  /\ IsFiniteSet(FreeData) /\ Cardinality(FreeData) \in Nat
  /\ \A S \in SUBSET FreeData : IsFiniteSet(S) /\ Cardinality(S) \in Nat
<1>1. IsFiniteSet(0 .. nDataBlock - 1)
  BY FS_Interval, LayoutAssumption
<1>2. FreeData \subseteq 0 .. nDataBlock - 1
  BY DEF FreeData
<1>3. IsFiniteSet(FreeData)
  BY <1>1, <1>2, FS_Subset
<1>4. \A S \in SUBSET FreeData : IsFiniteSet(S)
  BY <1>3, FS_Subset
<1> QED
  BY <1>3, <1>4, FS_CardinalityType

\* Later free entries have a higher rank.
LEMMA RankOrder ==
  ASSUME NEW d \in FreeData, NEW e \in FreeData, d < e
  PROVE  Rank(d) < Rank(e)
<1> DEFINE S == {x \in FreeData : x < d}
           T == {x \in FreeData : x < e}
<1>1. d \in Int /\ e \in Int /\ \A x \in FreeData : x \in Int
  BY DEF FreeData
<1>2. S \cup {d} \subseteq T /\ d \notin S
  <2>1. \A x \in FreeData : x < d => x < e
    BY <1>1
  <2>2. S \subseteq T /\ d \in T
    BY <2>1
  <2>3. d \notin S
    BY <1>1
  <2> QED
    BY <2>2, <2>3
<1>3. IsFiniteSet(S) /\ IsFiniteSet(T) /\ Cardinality(S) \in Nat /\ Cardinality(T) \in Nat
  BY FreeFinite
<1> HIDE DEF S, T
<1>4. Cardinality(S \cup {d}) = Cardinality(S) + 1
  BY <1>2, <1>3, FS_AddElement
<1>5. Cardinality(S \cup {d}) <= Cardinality(T)
  BY <1>2, <1>3, FS_Subset
<1>6. Cardinality(S) < Cardinality(T)
  BY <1>3, <1>4, <1>5
<1> QED
  BY <1>6 DEF S, T, Rank

LEMMA RankRange ==
  ASSUME NEW d \in FreeData
  PROVE  Rank(d) \in 0 .. Cardinality(FreeData) - 1
<1> DEFINE S == {x \in FreeData : x < d}
<1>1. d \notin S /\ S \subseteq FreeData
  BY DEF FreeData
<1>2. IsFiniteSet(S) /\ Cardinality(S) \in Nat /\ IsFiniteSet(FreeData)
      /\ Cardinality(FreeData) \in Nat
  BY FreeFinite
<1> HIDE DEF S
<1>3. Cardinality(S \cup {d}) = Cardinality(S) + 1
  BY <1>1, <1>2, FS_AddElement
<1>4. S \cup {d} \subseteq FreeData
  BY <1>1
<1>5. Cardinality(S \cup {d}) <= Cardinality(FreeData)
  BY <1>2, <1>4, FS_Subset
<1>6. Cardinality(S) \in 0 .. Cardinality(FreeData) - 1
  BY <1>2, <1>3, <1>5
<1> QED
  BY <1>6 DEF S, Rank

\* Every rank is the rank of one free entry: a counting argument.
LEMMA RankOf ==
  ASSUME NEW n \in Nat, n < Cardinality(FreeData)
  PROVE  /\ \E d \in FreeData : Rank(d) = n
         /\ \A d, e \in FreeData : Rank(d) = n /\ Rank(e) = n => d = e
<1> DEFINE T == 0 .. Cardinality(FreeData) - 1
           R == [d \in FreeData |-> Rank(d)]
<1>1. IsFiniteSet(T) /\ Cardinality(T) = Cardinality(FreeData)
  <2>1. Cardinality(FreeData) - 1 \in Int /\ Cardinality(FreeData) \in Nat
    BY FreeFinite
  <2> QED
    BY <2>1, FS_Interval
<1>2. \A d, e \in FreeData : Rank(d) = Rank(e) => d = e
  <2>1. ASSUME NEW d \in FreeData, NEW e \in FreeData, Rank(d) = Rank(e), d # e
        PROVE  FALSE
    <3>1. d < e \/ e < d
      BY <2>1 DEF FreeData
    <3>2. Rank(d) \in Int /\ Rank(e) \in Int
      BY RankRange
    <3> QED
      BY <2>1, <3>1, <3>2, RankOrder
  <2> QED
    BY <2>1
<1>3. R \in Injection(FreeData, T)
  BY <1>2, RankRange DEF Injection, IsInjective
<1>4. R \in Surjection(FreeData, T)
  BY <1>1, <1>3, FS_Injection
<1>5. n \in T
  BY FreeFinite
<1> QED
  BY <1>2, <1>4, <1>5 DEF Surjection

\* What allocData returns while blocks are left.
LEMMA AddressOf ==
  ASSUME NEW n \in Nat, n < Cardinality(FreeData)
  PROVE  \E d \in FreeData : Rank(d) = n /\ DataAddr(n) = dataStart + d
<1>1. PICK d \in FreeData : d = CHOOSE e \in FreeData : Rank(e) = n
  BY RankOf
<1>2. Rank(d) = n
  BY <1>1, RankOf
<1> QED
  BY <1>1, <1>2 DEF DataAddr

\* n calls of allocData return n free blocks of the data area, all different,
\* and mark these and no others.
LEMMA Allocation ==
  ASSUME NEW n \in Nat, n <= Cardinality(FreeData), DOMAIN dbit = 0 .. nDataBlock
  PROVE  /\ \A j \in 0 .. n - 1 : DataAddr(j) \in Area /\ DataAddr(j) - dataStart \in FreeData
         /\ \A j, k \in 0 .. n - 1 : DataAddr(j) = DataAddr(k) => j = k
         /\ \A d \in 0 .. nDataBlock :
              Taken(n)[d] <=> (dbit[d] \/ \E j \in 0 .. n - 1 : DataAddr(j) = dataStart + d)
<1> USE LayoutAssumption
<1>1. Cardinality(FreeData) \in Nat
  BY FreeFinite
<1>2. \A j \in 0 .. n - 1 : \E d \in FreeData : Rank(d) = j /\ DataAddr(j) = dataStart + d
  BY <1>1, AddressOf
<1>3. FreeData \subseteq 0 .. nDataBlock - 1
  BY DEF FreeData
<1>4. \A j \in 0 .. n - 1 : DataAddr(j) \in Area /\ DataAddr(j) - dataStart \in FreeData
  BY <1>2, <1>3 DEF Area
<1>5. \A j, k \in 0 .. n - 1 : DataAddr(j) = DataAddr(k) => j = k
  BY <1>2, <1>3
<1>6. ASSUME NEW d \in 0 .. nDataBlock
      PROVE  Taken(n)[d] <=> (dbit[d] \/ \E j \in 0 .. n - 1 : DataAddr(j) = dataStart + d)
  <2>1. Taken(n)[d] <=> (dbit[d] \/ (d \in FreeData /\ Rank(d) < n))
    BY DEF Taken
  <2>2. ASSUME d \in FreeData, Rank(d) < n
        PROVE  \E j \in 0 .. n - 1 : DataAddr(j) = dataStart + d
    <3>1. Rank(d) \in 0 .. n - 1
      BY <1>1, <2>2, RankRange
    <3>2. PICK e \in FreeData : Rank(e) = Rank(d) /\ DataAddr(Rank(d)) = dataStart + e
      BY <1>2, <3>1
    <3>3. e = d
      BY <1>1, <2>2, <3>1, <3>2, RankOf
    <3> QED
      BY <3>1, <3>2, <3>3
  <2>3. ASSUME NEW j \in 0 .. n - 1, DataAddr(j) = dataStart + d
        PROVE  d \in FreeData /\ Rank(d) < n
    <3>1. PICK e \in FreeData : Rank(e) = j /\ DataAddr(j) = dataStart + e
      BY <1>2
    <3>2. e = d
      BY <1>3, <2>3, <3>1
    <3> QED
      BY <3>1, <3>2
  <2> QED
    BY <2>1, <2>2, <2>3
<1> QED
  BY <1>4, <1>5, <1>6


------------------------------------------------------------------------------
(* The inductive invariant *)

\* Callers respect what the code does not provide for, and no stray write hits
\* a data block.
Careful == Habits = {} /\ Strays \cap Area = {}

\* The root is never freed, and has no type.
RootKept == ibit[Root] /\ inode[Root].type = "I_NONE" /\ inode[Root].block[0] # 0

\* Every use of a block, by inodes with a name and without, allocated or not.
\* Only inodes whose creation failed have no first block.
Held == {u \in Inode \X (0 .. NDATA - 1) :
           u[2] <= inode[u[1]].size \div BSIZE /\ inode[u[1]].block[u[2]] # 0}

Address(u) == inode[u[1]].block[u[2]]

\* Blocks are used once, are marked, and reach to the end of every inode.
Placed ==
  /\ \A i \in Inode : inode[i].size \div BSIZE < NDATA
  /\ \A i \in Inode : \A k \in 1 .. inode[i].size \div BSIZE : inode[i].block[k] # 0
  /\ \A u \in Held : Address(u) \in Area /\ dbit[Address(u) - dataStart]
  /\ \A u, v \in Held : Address(u) = Address(v) => u = v

\* Blocks never used are zero: they are allocated once and never freed.
Unused == \A b \in Area : ~dbit[b - dataStart] => \A c \in Offset : store[b][c] = Zero

\* A place of the first block of a directory.
Item(d, c) == store[inode[d].block[0]][c]

\* A directory stays in its first block, which has entries, and zeros that were
\* entries once, or will be.
Listed ==
  \A d \in Inode : IsDir(d) =>
    /\ inode[d].size < BSIZE
    /\ inode[d].block[0] = 0 => inode[d].size = 0
    /\ inode[d].block[0] # 0 => \A c \in Offset :
         \/ Item(d, c) = Zero
         \/ c < inode[d].size /\ Item(d, c).ino \in Inode /\ Item(d, c).tag \in Names

Links == {e \in Inode \X Offset :
            IsDir(e[1]) /\ e[2] < inode[e[1]].size /\ Item(e[1], e[2]).tag \in Names}

Child1(e) == Item(e[1], e[2]).ino

\* Entries name complete inodes, not their own directory, and no two the same.
Linked ==
  /\ \A e \in Links : LET i == Child1(e) IN
       /\ ibit[i] /\ i # Root /\ i # e[1]
       /\ inode[i].type # "I_NONE" /\ inode[i].block[0] # 0
  /\ \A e, g \in Links : Child1(e) = Child1(g) => e = g

CwdKept == IsDir(cwd) /\ inode[cwd].block[0] # 0

\* Every byte of a file is where size and block[] say, whoever still names it.
Bytes ==
  \A i \in Inode : inode[i].type = "I_FILE" /\ inode[i].block[0] # 0 =>
    \A n \in 0 .. inode[i].size - 1 :
      store[inode[i].block[n \div BSIZE]][n % BSIZE] = [ino |-> i, tag |-> n]

\* The inductive invariant.
IInv == TypeOK /\ RootKept /\ Placed /\ Unused /\ Listed /\ Linked /\ CwdKept /\ Bytes

USE DEF Root

------------------------------------------------------------------------------
(* What the invariant says *)

\* Block 0 and the block in front of the data area are not in it.
LEMMA AreaFacts ==
  /\ 0 \notin Area /\ Area \subseteq Block /\ 0 \in Block /\ Root \in Inode /\ 0 \in Offset
  /\ \A b \in Area : b - dataStart \in 0 .. nDataBlock - 1 /\ b - dataStart \in 0 .. nDataBlock
  /\ \A d \in 0 .. nDataBlock - 1 : dataStart + d \in Area
BY LayoutAssumption, FileAssumption DEF Area, Block, Inode, Offset

\* The types, field by field.
LEMMA Types1 ==
  ASSUME TypeOK
  PROVE  /\ ibit \in [Inode -> BOOLEAN] /\ dbit \in [0 .. nDataBlock -> BOOLEAN]
         /\ \A i \in Inode : /\ inode[i].type \in Types /\ inode[i].size \in 0 .. NDATA * BSIZE
                             /\ inode[i].size \in Nat
                             /\ \A k \in 0 .. NDATA : inode[i].block[k] \in Block
         /\ DOMAIN store = Block /\ \A b \in Block : DOMAIN store[b] = Offset
         /\ cwd \in Inode
<1>1. ibit \in [Inode -> BOOLEAN] /\ dbit \in [0 .. nDataBlock -> BOOLEAN] /\ cwd \in Inode
  BY DEF TypeOK, DiskTypeOK
<1>2. DOMAIN store = Block /\ \A b \in Block : DOMAIN store[b] = Offset
  BY DEF TypeOK, DiskTypeOK
<1>3. ASSUME NEW i \in Inode
      PROVE  /\ inode[i].type \in Types /\ inode[i].size \in 0 .. NDATA * BSIZE
             /\ inode[i].size \in Nat
             /\ \A k \in 0 .. NDATA : inode[i].block[k] \in Block
  <2>1. inode \in [Inode -> [type : Types, size : 0 .. NDATA * BSIZE,
                              block : [0 .. NDATA -> Block]]]
    BY DEF TypeOK, DiskTypeOK
  <2>2. inode[i] \in [type : Types, size : 0 .. NDATA * BSIZE, block : [0 .. NDATA -> Block]]
    BY <2>1
  <2>3. inode[i].type \in Types /\ inode[i].size \in 0 .. NDATA * BSIZE
        /\ inode[i].block \in [0 .. NDATA -> Block]
    BY <2>2
  <2>4. NDATA * BSIZE \in Nat
    BY FileAssumption
  <2>5. inode[i].size \in Nat
    BY <2>3, <2>4
  <2> QED
    BY <2>3, <2>5
<1> QED
  BY <1>1, <1>2, <1>3

\* Sizes below the size of a block.
LEMMA Small ==
  ASSUME NEW s \in 0 .. BSIZE - 1
  PROVE  s \div BSIZE = 0 /\ s % BSIZE = s
<1>1. BSIZE * 0 + s = s /\ BSIZE \in Nat \ {0}
  BY FileAssumption
<1>2. (BSIZE * 0 + s) \div BSIZE = 0 /\ (BSIZE * 0 + s) % BSIZE = s
  BY <1>1, DivModUnique
<1> QED
  BY <1>1, <1>2

\* The entries of the directories are in their first blocks.
EntriesAreLinks == /\ Entries = Links
                   /\ \A e \in Links : Entry(e[1], e[2]) = Item(e[1], e[2])

LEMMA EntriesLinks == TypeOK /\ Listed => EntriesAreLinks
<1> SUFFICES ASSUME TypeOK, Listed PROVE EntriesAreLinks
  OBVIOUS
<1> USE FileAssumption
<1>1. ASSUME NEW d \in Inode, IsDir(d), NEW p \in Nat, p < inode[d].size
      PROVE  /\ p \in Offset /\ p \in 0 .. NDATA * BSIZE - 1
             /\ Entry(d, p) = Item(d, p)
  <2>1. inode[d].size < BSIZE /\ inode[d].size \in 0 .. NDATA * BSIZE
    BY <1>1, Types1 DEF Listed
  <2>2. p \in 0 .. BSIZE - 1 /\ p \in 0 .. NDATA * BSIZE - 1
    BY <1>1, <2>1
  <2>3. p \div BSIZE = 0 /\ p % BSIZE = p
    BY <2>2, Small
  <2> QED
    BY <2>2, <2>3 DEF Offset, Entry, Item
<1>2. ASSUME NEW d \in Inode, NEW p
      PROVE  <<d, p>> \in Entries <=> <<d, p>> \in Links
  <2>1. Offset \subseteq Nat /\ 0 .. NDATA * BSIZE - 1 \subseteq Nat
    BY DEF Offset
  <2> QED
    BY <1>1, <2>1 DEF Entries, Links
<1>3. Entries = Links
  <2>1. Entries \subseteq Inode \X (0 .. NDATA * BSIZE - 1) /\ Links \subseteq Inode \X Offset
    BY DEF Entries, Links
  <2>2. \A e \in Entries : e[1] \in Inode /\ e = <<e[1], e[2]>>
    BY <2>1
  <2>3. \A e \in Links : e[1] \in Inode /\ e = <<e[1], e[2]>>
    BY <2>1
  <2>4. \A e \in Entries : e \in Links
    BY <1>2, <2>2
  <2>5. \A e \in Links : e \in Entries
    BY <1>2, <2>3
  <2> QED
    BY <2>4, <2>5
<1>4. \A e \in Links : Entry(e[1], e[2]) = Item(e[1], e[2])
  <2>1. \A e \in Links : e[1] \in Inode /\ IsDir(e[1]) /\ e[2] \in Nat /\ e[2] < inode[e[1]].size
    BY DEF Links, Offset
  <2> QED
    BY <1>1, <2>1
<1> QED
  BY <1>3, <1>4 DEF EntriesAreLinks


\* Block and place of a byte.
LEMMA InBlocks ==
  \A x \in Nat : /\ x % BSIZE \in 0 .. BSIZE - 1
                 /\ x = BSIZE * (x \div BSIZE) + (x % BSIZE)
<1>1. BSIZE \in Nat \ {0} /\ \A x \in Nat : x \in Int
  BY FileAssumption
<1> QED
  BY <1>1, DivMod

\* What is in a block, block by block.
LEMMA DivOrder ==
  ASSUME NEW x \in Nat, NEW y \in Nat, x <= y
  PROVE  x \div BSIZE \in Nat /\ y \div BSIZE \in Nat /\ x \div BSIZE <= y \div BSIZE
<1> DEFINE B == BSIZE
           p == x \div B
           q == y \div B
<1>1. B \in Nat \ {0}
  BY FileAssumption
<1>2. p \in Int /\ x % B \in 0 .. B - 1 /\ x = B * p + (x % B)
  BY <1>1, DivMod
<1>3. q \in Int /\ y % B \in 0 .. B - 1 /\ y = B * q + (y % B)
  BY <1>1, DivMod
<1>4. p \in Nat /\ q \in Nat
  BY <1>1, SMT
<1> HIDE DEF p, q
<1>5. p <= q
  <2>1. B * (p - q) < B
    BY <1>1, <1>2, <1>3
  <2>2. CASE p - q >= 1
    <3>1. B * (p - q) >= B * 1
      BY <1>1, <1>4, <2>2, SMT
    <3> QED
      BY <1>1, <1>4, <2>1, <3>1
  <2> QED
    BY <1>4, <2>2
<1> QED
  BY <1>4, <1>5 DEF p, q

\* The place of byte n, and of the byte after the last one.
LEMMA Place ==
  ASSUME TypeOK, Placed, NEW j \in Inode, inode[j].block[0] # 0,
         NEW n \in Nat, n <= inode[j].size
  PROVE  /\ <<j, n \div BSIZE>> \in Held /\ inode[j].block[n \div BSIZE] \in Area
         /\ dbit[inode[j].block[n \div BSIZE] - dataStart]
<1> DEFINE k == n \div BSIZE
           last == inode[j].size \div BSIZE
<1>1. k \in Nat /\ last \in Nat /\ k <= last
  BY DivOrder, Types1
<1>2. last < NDATA /\ \A l \in 1 .. last : inode[j].block[l] # 0
  BY DEF Placed
<1>3. k \in 0 .. NDATA - 1
  BY <1>1, <1>2, FileAssumption
<1>4. inode[j].block[k] # 0
  BY <1>1, <1>2
<1> HIDE DEF k
<1>5. <<j, k>> \in Held /\ Address(<<j, k>>) = inode[j].block[k]
  BY <1>1, <1>3, <1>4 DEF Held, Address
<1>6. Address(<<j, k>>) \in Area /\ dbit[Address(<<j, k>>) - dataStart]
  BY <1>5 DEF Placed
<1> QED
  BY <1>5, <1>6 DEF k

\* The first block.
LEMMA First ==
  ASSUME TypeOK, Placed, NEW j \in Inode, inode[j].block[0] # 0
  PROVE  <<j, 0>> \in Held /\ inode[j].block[0] \in Area /\ dbit[inode[j].block[0] - dataStart]
<1>1. 0 \in Nat /\ 0 <= inode[j].size /\ 0 \div BSIZE = 0
  BY Types1, Small, FileAssumption
<1> QED
  BY <1>1, Place

\* Two uses are of one block only if they are the same.
LEMMA OneUse ==
  ASSUME Placed, NEW i, NEW k, NEW j, NEW l, <<i, k>> \in Held, <<j, l>> \in Held,
         inode[i].block[k] = inode[j].block[l]
  PROVE  i = j /\ k = l
<1>1. Address(<<i, k>>) = Address(<<j, l>>)
  BY DEF Address
<1>2. <<i, k>> = <<j, l>>
  BY <1>1 DEF Placed
<1> QED
  BY <1>2


------------------------------------------------------------------------------
(* creat and mk, complete or not *)

\* What creat and mk do to the disk: inode i is new, with block a, or with none
\* when the entry could not be written.
Created(i, type, name, a) ==
  /\ i \in Inode /\ ~ibit[i] /\ i # cwd /\ i # Root /\ type \in {"I_FILE", "I_DIR"}
  /\ inode[cwd].size + 1 < BSIZE
  /\ a = 0 \/ (a \in Area /\ ~dbit[a - dataStart] /\ name \in Names)
  /\ a # 0 => \A g \in Links : g[1] = cwd => Item(g[1], g[2]).tag # name
  /\ cwd' = cwd
  /\ \A j \in Inode : ibit'[j] <=> (ibit[j] \/ j = i)
  /\ \A b \in Area : dbit'[b - dataStart] <=> (dbit[b - dataStart] \/ b = a)
  /\ \A j \in Inode : j # i =>
       /\ inode'[j].type = inode[j].type
       /\ inode'[j].size = IF j = cwd THEN inode[j].size + 1 ELSE inode[j].size
       /\ \A k \in 0 .. NDATA : inode'[j].block[k] = inode[j].block[k]
  /\ inode'[i].type = type /\ inode'[i].size = 0
  /\ \A k \in 0 .. NDATA : inode'[i].block[k] = IF k = 0 THEN a ELSE 0
  /\ \A b \in Area, c \in Offset :
       store'[b][c] = IF a # 0 /\ b = inode[cwd].block[0] /\ c = inode[cwd].size
                      THEN [ino |-> i, tag |-> name] ELSE store[b][c]

\* The inodes after allocInode and the new size of the directory.
LEMMA GrownFresh ==
  ASSUME TypeOK, NEW i \in Inode, NEW type, i # cwd, NEW t, t = Grown(Fresh(i, type))
  PROVE  /\ DOMAIN t = Inode
         /\ \A j \in Inode : j # i =>
              /\ t[j].type = inode[j].type /\ t[j].block = inode[j].block
              /\ t[j].size = IF j = cwd THEN inode[j].size + 1 ELSE inode[j].size
              /\ j # cwd => t[j] = inode[j]
         /\ t[i] = Blank(type)
         /\ t[cwd] = [inode[cwd] EXCEPT !.size = @ + 1]
<1>1. cwd \in Inode /\ DOMAIN inode = Inode
  BY Types1 DEF TypeOK, DiskTypeOK
<1>2. inode[cwd] \in [type : Types, size : 0 .. NDATA * BSIZE, block : [0 .. NDATA -> Block]]
  BY <1>1 DEF TypeOK, DiskTypeOK
<1> DEFINE f == Fresh(i, type)
<1>3. DOMAIN f = Inode /\ f[i] = Blank(type) /\ \A j \in Inode : j # i => f[j] = inode[j]
  BY <1>1 DEF Fresh
<1> HIDE DEF f
<1>4. t = [f EXCEPT ![cwd] = [f[cwd] EXCEPT !.size = f[cwd].size + 1]]
  BY DEF Grown, f
<1>5. DOMAIN t = Inode /\ t[i] = Blank(type) /\ \A j \in Inode : j # i /\ j # cwd => t[j] = inode[j]
  BY <1>1, <1>3, <1>4
<1>6. t[cwd] = [inode[cwd] EXCEPT !.size = @ + 1]
  BY <1>1, <1>3, <1>4
<1>7. t[cwd].type = inode[cwd].type /\ t[cwd].block = inode[cwd].block
      /\ t[cwd].size = inode[cwd].size + 1
  BY <1>2, <1>6
<1> QED
  BY <1>5, <1>6, <1>7


\* A stray write leaves the data area alone.
LEMMA StrayMisses ==
  ASSUME TypeOK, Careful, NEW s \in Stray
  PROVE  /\ DOMAIN s = Block /\ \A b \in Block : DOMAIN s[b] = Offset
         /\ \A b \in Area : s[b] = store[b]
<1>1. DOMAIN store = Block /\ \A b \in Block : DOMAIN store[b] = Offset
  BY Types1
<1>2. CASE s = store
  BY <1>1, <1>2
<1>3. ASSUME NEW b \in Strays, s = [store EXCEPT ![b] = [c \in Offset |-> Garbage]]
      PROVE  /\ DOMAIN s = Block /\ \A d \in Block : DOMAIN s[d] = Offset
             /\ \A d \in Area : s[d] = store[d]
  <2>1. b \notin Area
    BY DEF Careful
  <2>2. Area \subseteq Block
    BY AreaFacts
  <2> QED
    BY <1>1, <1>3, <2>1, <2>2
<1> QED
  BY <1>2, <1>3 DEF Stray

\* The inode that allocInode finds is neither the root nor the directory.
LEMMA NewInode ==
  ASSUME IInv, NEW i \in Inode, FreeInode(i)
  PROVE  ~ibit[i] /\ i # cwd /\ i # Root
BY DEF FreeInode, IInv, CwdKept, IsDir, RootKept

\* The current directory has room in its first block.
LEMMA Room ==
  ASSUME IInv
  PROVE  /\ cwd \in Inode /\ inode[cwd].size \in Offset /\ inode[cwd].size \in Nat
         /\ inode[cwd].size \div BSIZE = 0 /\ inode[cwd].size % BSIZE = inode[cwd].size
         /\ inode[cwd].block[0] \in Area /\ dbit[inode[cwd].block[0] - dataStart]
         /\ <<cwd, 0>> \in Held
<1>1. cwd \in Inode /\ inode[cwd].size \in Nat
  BY Types1 DEF IInv
<1>2. inode[cwd].size < BSIZE
  BY <1>1 DEF IInv, Listed, CwdKept
<1>3. inode[cwd].size \in 0 .. BSIZE - 1
  BY <1>1, <1>2, FileAssumption
<1>4. inode[cwd].block[0] # 0
  BY DEF IInv, CwdKept
<1>5. inode[cwd].block[0] \in Area /\ dbit[inode[cwd].block[0] - dataStart] /\ <<cwd, 0>> \in Held
  BY <1>1, <1>4, First DEF IInv
<1> QED
  BY <1>1, <1>3, <1>5, Small DEF Offset

\* creat and mk that cannot read the block of the directory.
LEMMA MakeFailsCreates ==
  ASSUME IInv, Careful, NEW type \in {"I_FILE", "I_DIR"}, MakeFails(type)
  PROVE  \E i \in Inode : Created(i, type, i, 0)
<1>1. PICK i \in Inode : FreeInode(i) /\ ibit' = Marked(i) /\ inode' = Grown(Fresh(i, type))
  BY DEF MakeFails
<1>2. ~ibit[i] /\ i # cwd /\ i # Root
  BY <1>1, NewInode
<1>3. inode[cwd].size + 1 < BSIZE /\ cwd' = cwd /\ dbit' = dbit /\ store' \in Stray
  BY DEF MakeFails
<1>4. \A j \in Inode : ibit'[j] <=> (ibit[j] \/ j = i)
  BY <1>1, Types1 DEF IInv, Marked
<1>5. /\ \A j \in Inode : j # i =>
           /\ inode'[j].type = inode[j].type /\ inode'[j].block = inode[j].block
           /\ inode'[j].size = IF j = cwd THEN inode[j].size + 1 ELSE inode[j].size
      /\ inode'[i] = Blank(type)
  BY <1>1, <1>2, GrownFresh DEF IInv
<1>6. inode'[i].type = type /\ inode'[i].size = 0
      /\ \A k \in 0 .. NDATA : inode'[i].block[k] = IF k = 0 THEN 0 ELSE 0
  BY <1>5 DEF Blank
<1>7. \A b \in Area : store'[b] = store[b]
  BY <1>3, StrayMisses DEF IInv
<1>8. \A b \in Area : dbit'[b - dataStart] <=> (dbit[b - dataStart] \/ b = 0)
  BY <1>3, AreaFacts
<1> QED
  BY <1>2, <1>3, <1>4, <1>5, <1>6, <1>7, <1>8 DEF Created

\* creat and mk that succeed.
LEMMA MakeCreates ==
  ASSUME IInv, Careful, NEW type \in {"I_FILE", "I_DIR"}, NEW i \in Inode, NEW name \in Names,
         Make(i, type, name)
  PROVE  Created(i, type, name, DataAddr(0)) /\ DataAddr(0) \in Area
<1> DEFINE a == DataAddr(0)
           t == Fresh(i, type)
           g == Grown(t)
           size == inode[cwd].size
           first == inode[cwd].block[0]
<1>1. ~ibit[i] /\ i # cwd /\ i # Root
  BY NewInode DEF Make
<1>2. inode[cwd].size + 1 < BSIZE /\ cwd' = cwd /\ dbit' = Taken(1) /\ ibit' = Marked(i)
      /\ Cardinality(FreeData) >= 1
  BY DEF Make, MayAdd, Enough, Careful
<1>3. \A j \in Inode : ibit'[j] <=> (ibit[j] \/ j = i)
  BY <1>2, Types1 DEF IInv, Marked
<1>4. DOMAIN dbit = 0 .. nDataBlock
  BY Types1 DEF IInv
<1>5. 1 \in Nat /\ 1 <= Cardinality(FreeData) /\ 0 \in 0 .. 1 - 1 /\ \A j \in 0 .. 1 - 1 : j = 0
  BY <1>2, FreeFinite
<1>6. a \in Area /\ a - dataStart \in FreeData
  BY <1>4, <1>5, Allocation
<1>7. \A d \in 0 .. nDataBlock :
        Taken(1)[d] <=> (dbit[d] \/ \E j \in 0 .. 1 - 1 : DataAddr(j) = dataStart + d)
  BY <1>4, <1>5, Allocation
<1>8. ~dbit[a - dataStart]
  BY <1>6 DEF FreeData
<1>9. ASSUME NEW b \in Area
      PROVE  dbit'[b - dataStart] <=> (dbit[b - dataStart] \/ b = a)
  <2> DEFINE d == b - dataStart
  <2>1. d \in 0 .. nDataBlock /\ dataStart + d = b
    BY AreaFacts, LayoutAssumption DEF Area
  <2>2. Taken(1)[d] <=> (dbit[d] \/ \E j \in 0 .. 1 - 1 : DataAddr(j) = dataStart + d)
    BY <1>7, <2>1
  <2>3. Taken(1)[d] <=> (dbit[d] \/ DataAddr(0) = b)
    BY <1>5, <2>1, <2>2
  <2> QED
    BY <1>2, <2>3
<1>10. /\ DOMAIN g = Inode
       /\ \A j \in Inode : j # i =>
            /\ g[j].type = inode[j].type /\ g[j].block = inode[j].block
            /\ g[j].size = IF j = cwd THEN inode[j].size + 1 ELSE inode[j].size
       /\ g[i] = Blank(type)
  BY <1>1, GrownFresh DEF IInv
<1>11. inode' = [g EXCEPT ![i].block[0] = a]
  BY DEF Make
<1> HIDE DEF g, a
<1>12. \A j \in Inode : j # i => inode'[j] = g[j]
  BY <1>10, <1>11
<1>13. inode'[i] = [Blank(type) EXCEPT !.block = [Blank(type).block EXCEPT ![0] = a]]
  BY <1>10, <1>11
<1>14. 0 \in 0 .. NDATA
  BY FileAssumption
<1>15. inode'[i].type = type /\ inode'[i].size = 0
       /\ \A k \in 0 .. NDATA : inode'[i].block[k] = IF k = 0 THEN a ELSE 0
  BY <1>13, <1>14 DEF Blank
<1>16. PICK s \in Stray : store' = Append1(s, t, i, name)
  BY DEF Make
<1>17. t[cwd] = inode[cwd]
  BY <1>1, Room, Types1 DEF IInv, Fresh, TypeOK, DiskTypeOK
<1>18. /\ size \in Offset /\ size \div BSIZE = 0 /\ size % BSIZE = size /\ first \in Area
  BY Room
<1>19. store' = [s EXCEPT ![first][size] = [ino |-> i, tag |-> name]]
  BY <1>16, <1>17, <1>18 DEF Append1
<1>20. DOMAIN s = Block /\ \A b \in Block : DOMAIN s[b] = Offset
  BY StrayMisses DEF IInv
<1>21. \A b \in Area : s[b] = store[b] /\ b \in Block
  BY StrayMisses, AreaFacts DEF IInv
<1> HIDE DEF first, size, t
<1>23. ASSUME NEW e \in Links, e[1] = cwd
       PROVE  Item(e[1], e[2]).tag # name
  <2>1. e[2] \in Offset /\ e[2] < inode[cwd].size
    BY <1>23 DEF Links
  <2>2. e[2] \in 0 .. inode[cwd].size - 1 /\ e[2] \in 0 .. BSIZE - 1
    BY <2>1, Room DEF Offset
  <2>3. Entry(cwd, e[2]) = Item(cwd, e[2])
    BY <2>2, Small DEF Entry, Item
  <2>4. Places(cwd, name) = {}
    BY DEF Make, MayAdd
  <2> QED
    BY <1>23, <2>2, <2>3, <2>4 DEF Places
<1>22. ASSUME NEW b \in Area, NEW c \in Offset
       PROVE  store'[b][c] = IF a # 0 /\ b = first /\ c = size
                             THEN [ino |-> i, tag |-> name] ELSE store[b][c]
  <2>1. a # 0 /\ b \in DOMAIN s /\ c \in DOMAIN s[b]
    BY <1>6, <1>20, <1>21, AreaFacts DEF a
  <2>2. s[b] = store[b]
    BY <1>21
  <2> QED
    BY <1>19, <2>1, <2>2
<1> QED
  BY <1>1, <1>2, <1>3, <1>6, <1>8, <1>9, <1>10, <1>12, <1>15, <1>22, <1>23
  DEF Created, a, first, size


\* The uses of blocks after it: those of other inodes, and a.
LEMMA CreatedUses ==
  ASSUME IInv, NEW i, NEW type, NEW name, NEW a, Created(i, type, name, a)
  PROVE  /\ \A j \in Inode, k \in 0 .. NDATA - 1 : <<j, k>> \in Held' =>
              \/ j # i /\ <<j, k>> \in Held /\ inode'[j].block[k] = inode[j].block[k]
              \/ j = i /\ k = 0 /\ a \in Area /\ inode'[j].block[k] = a
         /\ \A j \in Inode : inode'[j].size \in Nat
         /\ \A j \in Inode : inode'[j].size \div BSIZE < NDATA
         /\ \A j \in Inode : \A k \in 1 .. inode'[j].size \div BSIZE : inode'[j].block[k] # 0
<1> USE FileAssumption
<1>1. /\ i \in Inode /\ i # cwd /\ (a = 0 \/ a \in Area)
      /\ inode[cwd].size + 1 < BSIZE /\ cwd \in Inode /\ inode[cwd].size \in Nat
      /\ inode[cwd].size \div BSIZE = 0
  BY Room DEF Created
<1>2. inode'[i].size = 0 /\ \A k \in 0 .. NDATA : inode'[i].block[k] = IF k = 0 THEN a ELSE 0
  BY DEF Created
<1>3. \A j \in Inode : j # i =>
        /\ inode'[j].size = IF j = cwd THEN inode[j].size + 1 ELSE inode[j].size
        /\ \A k \in 0 .. NDATA : inode'[j].block[k] = inode[j].block[k]
  BY DEF Created
<1>4. inode'[cwd].size \div BSIZE = 0 /\ inode'[i].size \div BSIZE = 0
  <2>1. inode[cwd].size + 1 \in 0 .. BSIZE - 1 /\ 0 \in 0 .. BSIZE - 1
    BY <1>1
  <2> QED
    BY <1>1, <1>2, <1>3, <2>1, Small
<1>5. \A j \in Inode : inode'[j].size \in Nat
  BY <1>1, <1>2, <1>3, Types1 DEF IInv
<1>6. \A j \in Inode : j # i => inode'[j].size \div BSIZE = inode[j].size \div BSIZE
  BY <1>1, <1>3, <1>4
<1>7. \A j \in Inode : inode[j].size \div BSIZE < NDATA /\
        \A k \in 1 .. inode[j].size \div BSIZE : inode[j].block[k] # 0
  BY DEF IInv, Placed
<1>8. \A j \in Inode : inode'[j].size \div BSIZE < NDATA
  BY <1>4, <1>6, <1>7
<1>9. ASSUME NEW j \in Inode, NEW k \in 1 .. inode'[j].size \div BSIZE
      PROVE  inode'[j].block[k] # 0
  <2>1. j # i
    BY <1>4
  <2>2. k \in 1 .. inode[j].size \div BSIZE
    BY <1>6, <2>1
  <2>3. k \in 0 .. NDATA
    <3>1. inode[j].size \in Nat /\ inode[j].size <= inode[j].size
      BY Types1 DEF IInv
    <3>2. inode[j].size \div BSIZE \in Nat
      BY <3>1, DivOrder
    <3> QED
      BY <1>7, <2>2, <3>2
  <2> QED
    BY <1>3, <1>7, <2>1, <2>2, <2>3
<1>10. ASSUME NEW j \in Inode, NEW k \in 0 .. NDATA - 1, <<j, k>> \in Held'
       PROVE  \/ j # i /\ <<j, k>> \in Held /\ inode'[j].block[k] = inode[j].block[k]
              \/ j = i /\ k = 0 /\ a \in Area /\ inode'[j].block[k] = a
  <2>1. k <= inode'[j].size \div BSIZE /\ inode'[j].block[k] # 0
    BY <1>10 DEF Held
  <2>2. k \in 0 .. NDATA
    OBVIOUS
  <2>3. CASE j = i
    BY <1>1, <1>2, <1>4, <2>1, <2>2, <2>3
  <2>4. CASE j # i
    <3>1. inode'[j].block[k] = inode[j].block[k]
      BY <1>3, <2>2, <2>4
    <3>2. k <= inode[j].size \div BSIZE /\ inode[j].block[k] # 0
      BY <1>6, <2>1, <2>4, <3>1
    <3> QED
      BY <2>4, <3>1, <3>2 DEF Held
  <2> QED
    BY <2>3, <2>4
<1> QED
  BY <1>5, <1>8, <1>9, <1>10

\* Held is a set of pairs.
LEMMA HeldPairs ==
  \A u \in Held : u[1] \in Inode /\ u[2] \in 0 .. NDATA - 1 /\ u = <<u[1], u[2]>>
<1>1. \A u \in Held : u \in Inode \X (0 .. NDATA - 1)
  BY DEF Held
<1> QED
  BY <1>1

\* The same of the next state.
LEMMA HeldPairsNext ==
  \A u \in Held' : u[1] \in Inode /\ u[2] \in 0 .. NDATA - 1 /\ u = <<u[1], u[2]>>
<1>1. \A u \in Held' : u \in Inode \X (0 .. NDATA - 1)
  BY DEF Held
<1> QED
  BY <1>1

LEMMA CreatedPlaced ==
  ASSUME IInv, NEW i, NEW type, NEW name, NEW a, Created(i, type, name, a)
  PROVE  Placed'
<1>1. \A j \in Inode, k \in 0 .. NDATA - 1 : <<j, k>> \in Held' =>
        \/ j # i /\ <<j, k>> \in Held /\ inode'[j].block[k] = inode[j].block[k]
        \/ j = i /\ k = 0 /\ a \in Area /\ inode'[j].block[k] = a
  BY CreatedUses
<1>2. /\ \A j \in Inode : inode'[j].size \div BSIZE < NDATA
      /\ \A j \in Inode : \A k \in 1 .. inode'[j].size \div BSIZE : inode'[j].block[k] # 0
  BY CreatedUses
<1>3. \A j \in Inode, k \in 0 .. NDATA - 1 : <<j, k>> \in Held =>
        inode[j].block[k] \in Area /\ dbit[inode[j].block[k] - dataStart]
  BY DEF IInv, Placed, Address
<1>4. \A b \in Area : dbit'[b - dataStart] <=> (dbit[b - dataStart] \/ b = a)
  BY DEF Created
<1>5. a \in Area => ~dbit[a - dataStart]
  BY AreaFacts DEF Created
<1>6. ASSUME NEW u \in Held'
      PROVE  (Address(u) \in Area /\ dbit[Address(u) - dataStart])'
  <2>1. u[1] \in Inode /\ u[2] \in 0 .. NDATA - 1 /\ u = <<u[1], u[2]>>
    BY HeldPairsNext
  <2>2. inode'[u[1]].block[u[2]] \in Area /\ dbit'[inode'[u[1]].block[u[2]] - dataStart]
    BY <1>1, <1>3, <1>4, <2>1
  <2> QED
    BY <2>2 DEF Address, Area
<1>7. ASSUME NEW u \in Held', NEW v \in Held', Address(u)' = Address(v)'
      PROVE  u = v
  <2>1. u[1] \in Inode /\ u[2] \in 0 .. NDATA - 1 /\ u = <<u[1], u[2]>>
    BY HeldPairsNext
  <2>2. v[1] \in Inode /\ v[2] \in 0 .. NDATA - 1 /\ v = <<v[1], v[2]>>
    BY HeldPairsNext
  <2>3. inode'[u[1]].block[u[2]] = inode'[v[1]].block[v[2]]
    BY <1>7 DEF Address
  <2>4. u[1] = v[1] /\ u[2] = v[2]
    <3>1. CASE u[1] = i /\ v[1] = i
      BY <1>1, <2>1, <2>2, <3>1
    <3>2. CASE u[1] = i /\ v[1] # i
      BY <1>1, <1>3, <1>5, <2>1, <2>2, <2>3, <3>2
    <3>3. CASE u[1] # i /\ v[1] = i
      BY <1>1, <1>3, <1>5, <2>1, <2>2, <2>3, <3>3
    <3>4. CASE u[1] # i /\ v[1] # i
      <4>1. <<u[1], u[2]>> \in Held /\ <<v[1], v[2]>> \in Held
            /\ inode[u[1]].block[u[2]] = inode[v[1]].block[v[2]]
        BY <1>1, <2>1, <2>2, <2>3, <3>4
      <4> QED
        BY <4>1, OneUse DEF IInv
    <3> QED
      BY <3>1, <3>2, <3>3, <3>4
  <2> QED
    BY <2>1, <2>2, <2>4
<1> QED
  BY <1>2, <1>6, <1>7 DEF Placed


\* A place of the first block of a directory in the next state.
ItemNext(d, c) == store'[inode'[d].block[0]][c]

\* The first block of the current directory is the only one that changes.
LEMMA CreatedStore ==
  ASSUME IInv, NEW i, NEW type, NEW name, NEW a, Created(i, type, name, a)
  PROVE  /\ \A b \in Area, c \in Offset : b # inode[cwd].block[0] => store'[b][c] = store[b][c]
         /\ \A c \in Offset : c # inode[cwd].size \/ a = 0 => ItemNext(cwd, c) = Item(cwd, c)
         /\ a # 0 => /\ ItemNext(cwd, inode[cwd].size).ino = i
                     /\ ItemNext(cwd, inode[cwd].size).tag \in Names
         /\ inode'[cwd].block[0] = inode[cwd].block[0]
<1>1. \A b \in Area, c \in Offset :
        store'[b][c] = IF a # 0 /\ b = inode[cwd].block[0] /\ c = inode[cwd].size
                       THEN [ino |-> i, tag |-> name] ELSE store[b][c]
  BY DEF Created
<1>2. cwd' = cwd /\ i # cwd /\ cwd \in Inode /\ inode[cwd].size \in Offset
      /\ inode[cwd].block[0] \in Area /\ 0 \in 0 .. NDATA
  BY Room, FileAssumption DEF Created
<1>3. inode'[cwd].block[0] = inode[cwd].block[0]
  BY <1>2 DEF Created
<1>4. \A c \in Offset : /\ ItemNext(cwd, c) = store'[inode[cwd].block[0]][c]
                        /\ Item(cwd, c) = store[inode[cwd].block[0]][c]
  BY <1>2, <1>3 DEF Item, ItemNext
<1>5. \A c \in Offset : c # inode[cwd].size \/ a = 0 => ItemNext(cwd, c) = Item(cwd, c)
  BY <1>1, <1>2, <1>4
<1>6. ASSUME a # 0
      PROVE  /\ ItemNext(cwd, inode[cwd].size).ino = i
             /\ ItemNext(cwd, inode[cwd].size).tag \in Names
  <2>1. ItemNext(cwd, inode[cwd].size) = store'[inode[cwd].block[0]][inode[cwd].size]
    BY <1>2, <1>4
  <2>2. ItemNext(cwd, inode[cwd].size) = [ino |-> i, tag |-> name]
    BY <1>1, <1>2, <1>6, <2>1
  <2>3. name \in Names
    BY <1>6 DEF Created
  <2> QED
    BY <2>2, <2>3
<1> QED
  BY <1>1, <1>3, <1>5, <1>6

LEMMA CreatedUnused ==
  ASSUME IInv, NEW i, NEW type, NEW name, NEW a, Created(i, type, name, a)
  PROVE  Unused'
<1>1. dbit[inode[cwd].block[0] - dataStart]
  BY Room
<1>2. \A b \in Area : ~dbit'[b - dataStart] => ~dbit[b - dataStart]
  BY DEF Created
<1>3. \A b \in Area, c \in Offset : b # inode[cwd].block[0] => store'[b][c] = store[b][c]
  BY CreatedStore
<1>4. \A b \in Area : ~dbit[b - dataStart] => \A c \in Offset : store[b][c] = Zero
  BY DEF IInv, Unused
<1>5. \A b \in Area : ~dbit'[b - dataStart] => \A c \in Offset : store'[b][c] = Zero
  BY <1>1, <1>2, <1>3, <1>4
<1> QED
  BY <1>5 DEF Unused, Area, Offset, Zero

\* The directories after it.
LEMMA CreatedDirs ==
  ASSUME IInv, NEW i, NEW type, NEW name, NEW a, Created(i, type, name, a)
  PROVE  /\ \A d \in Inode : d # i => (IsDir(d)' <=> IsDir(d))
         /\ \A d \in Inode, c \in Offset : d # i /\ d # cwd /\ inode[d].block[0] # 0 =>
              ItemNext(d, c) = Item(d, c)
         /\ \A c \in Offset : a # 0 => ItemNext(i, c) = Zero
<1>1. \A d \in Inode : d # i => (IsDir(d)' <=> IsDir(d))
  BY DEF Created, IsDir
<1>2. 0 \in 0 .. NDATA
  BY FileAssumption
<1>3. ASSUME NEW d \in Inode, NEW c \in Offset, d # i, d # cwd, inode[d].block[0] # 0
      PROVE  ItemNext(d, c) = Item(d, c)
  <2>1. <<d, 0>> \in Held /\ inode[d].block[0] \in Area /\ <<cwd, 0>> \in Held
    BY <1>3, First, Room DEF IInv
  <2>2. inode[d].block[0] # inode[cwd].block[0]
    BY <1>3, <2>1, OneUse DEF IInv
  <2>3. store'[inode[d].block[0]][c] = store[inode[d].block[0]][c]
    BY <2>1, <2>2, CreatedStore
  <2>4. inode'[d].block[0] = inode[d].block[0]
    BY <1>2, <1>3 DEF Created
  <2> QED
    BY <2>3, <2>4 DEF Item, ItemNext
<1>4. ASSUME NEW c \in Offset, a # 0
      PROVE  ItemNext(i, c) = Zero
  <2>1. a \in Area /\ ~dbit[a - dataStart]
    BY <1>4 DEF Created
  <2>2. store[a][c] = Zero /\ a # inode[cwd].block[0]
    BY <2>1, Room DEF IInv, Unused
  <2>3. store'[a][c] = Zero
    BY <2>1, <2>2, CreatedStore
  <2>4. inode'[i].block[0] = a
    BY <1>2 DEF Created
  <2> QED
    BY <2>3, <2>4 DEF Item, ItemNext
<1> QED
  BY <1>1, <1>3, <1>4

LEMMA CreatedListed ==
  ASSUME IInv, NEW i, NEW type, NEW name, NEW a, Created(i, type, name, a)
  PROVE  Listed'
<1> DEFINE Fine(d) == /\ inode'[d].size < BSIZE
                      /\ inode'[d].block[0] = 0 => inode'[d].size = 0
                      /\ inode'[d].block[0] # 0 => \A c \in Offset :
                           \/ ItemNext(d, c) = Zero
                           \/ /\ c < inode'[d].size
                              /\ ItemNext(d, c).ino \in Inode /\ ItemNext(d, c).tag \in Names
<1>1. 0 \in 0 .. NDATA /\ BSIZE > 0 /\ i \in Inode /\ (a = 0 \/ a \in Area)
  BY FileAssumption DEF Created
<1>2. inode'[i].size = 0 /\ inode'[i].block[0] = a
  BY <1>1 DEF Created
<1>3. Fine(i)
  BY <1>1, <1>2, CreatedDirs
<1>4. \A d \in Inode : d # i =>
        /\ inode'[d].size = IF d = cwd THEN inode[d].size + 1 ELSE inode[d].size
        /\ inode'[d].block[0] = inode[d].block[0]
  BY <1>1 DEF Created
<1>5. \A d \in Inode : IsDir(d) =>
        /\ inode[d].size < BSIZE
        /\ inode[d].block[0] = 0 => inode[d].size = 0
        /\ inode[d].block[0] # 0 => \A c \in Offset :
             \/ Item(d, c) = Zero
             \/ c < inode[d].size /\ Item(d, c).ino \in Inode /\ Item(d, c).tag \in Names
  BY DEF IInv, Listed
<1>6. ASSUME NEW d \in Inode, IsDir(d), d # i, d # cwd
      PROVE  Fine(d)
  <2>1. \A c \in Offset : inode[d].block[0] # 0 => ItemNext(d, c) = Item(d, c)
    BY <1>6, CreatedDirs
  <2> QED
    BY <1>4, <1>5, <1>6, <2>1
<1>7. Fine(cwd)
  <2>1. cwd \in Inode /\ cwd # i /\ IsDir(cwd) /\ inode[cwd].block[0] # 0
        /\ inode[cwd].size + 1 < BSIZE /\ inode[cwd].size \in Nat
    BY Room DEF IInv, CwdKept, Created
  <2>2. inode'[cwd].size = inode[cwd].size + 1 /\ inode'[cwd].block[0] = inode[cwd].block[0]
    BY <1>4, <2>1
  <2>3. \A c \in Offset : c \in Int
    BY DEF Offset
  <2>4. \A c \in Offset : c # inode[cwd].size \/ a = 0 => ItemNext(cwd, c) = Item(cwd, c)
    BY CreatedStore
  <2>5. ASSUME a # 0
        PROVE  /\ ItemNext(cwd, inode[cwd].size).ino = i
               /\ ItemNext(cwd, inode[cwd].size).tag \in Names
    BY <2>5, CreatedStore
  <2>6. ASSUME NEW c \in Offset
        PROVE  \/ ItemNext(cwd, c) = Zero
               \/ /\ c < inode'[cwd].size
                  /\ ItemNext(cwd, c).ino \in Inode /\ ItemNext(cwd, c).tag \in Names
    <3>1. CASE c # inode[cwd].size \/ a = 0
      <4>1. \/ Item(cwd, c) = Zero
            \/ c < inode[cwd].size /\ Item(cwd, c).ino \in Inode /\ Item(cwd, c).tag \in Names
        BY <1>5, <2>1
      <4>2. ItemNext(cwd, c) = Item(cwd, c)
        BY <2>4, <3>1
      <4> QED
        BY <2>1, <2>2, <2>3, <4>1, <4>2
    <3>2. CASE c = inode[cwd].size /\ a # 0
      <4>1. c < inode'[cwd].size
        BY <2>1, <2>2, <3>2
      <4> QED
        BY <1>1, <2>5, <3>2, <4>1
    <3> QED
      BY <3>1, <3>2
  <2> QED
    BY <2>1, <2>2, <2>6
<1>8. ASSUME NEW d \in Inode, IsDir(d)'
      PROVE  Fine(d)
  <2>1. d # i => IsDir(d)
    BY <1>8, CreatedDirs
  <2> QED
    BY <1>3, <1>6, <1>7, <2>1
<1> QED
  BY <1>8 DEF Listed, Zero, Offset, Inode, Item, ItemNext


\* Links is a set of pairs.
LEMMA LinkPairs ==
  \A e \in Links : /\ e[1] \in Inode /\ e[2] \in Offset /\ e = <<e[1], e[2]>>
                   /\ IsDir(e[1]) /\ e[2] < inode[e[1]].size /\ Item(e[1], e[2]).tag \in Names
<1>1. \A e \in Links : e \in Inode \X Offset
  BY DEF Links
<1> QED
  BY <1>1 DEF Links

\* The same of the next state.
LEMMA LinkPairsNext ==
  \A e \in Links' : /\ e[1] \in Inode /\ e[2] \in Offset /\ e = <<e[1], e[2]>>
                    /\ IsDir(e[1])' /\ e[2] < inode'[e[1]].size
                    /\ ItemNext(e[1], e[2]).tag \in Names
                    /\ Child1(e)' = ItemNext(e[1], e[2]).ino
<1> SUFFICES ASSUME NEW e \in Links'
             PROVE  /\ e[1] \in Inode /\ e[2] \in Offset /\ e = <<e[1], e[2]>>
                    /\ IsDir(e[1])' /\ e[2] < inode'[e[1]].size
                    /\ ItemNext(e[1], e[2]).tag \in Names
                    /\ Child1(e)' = ItemNext(e[1], e[2]).ino
  OBVIOUS
<1>1. e \in Inode \X Offset
  BY DEF Links, Inode, Offset
<1>2. IsDir(e[1])' /\ e[2] < inode'[e[1]].size /\ ItemNext(e[1], e[2]).tag \in Names
  BY DEF Links, Item, ItemNext
<1>3. Child1(e)' = ItemNext(e[1], e[2]).ino
  BY DEF Child1, Item, ItemNext
<1> QED
  BY <1>1, <1>2, <1>3

\* An entry that is still there.
LEMMA LinkStays ==
  ASSUME NEW g \in Links, IsDir(g[1])', g[2] < inode'[g[1]].size,
         ItemNext(g[1], g[2]) = Item(g[1], g[2])
  PROVE  g \in Links'
<1>1. g \in Inode \X Offset /\ Item(g[1], g[2]).tag \in Names
  BY DEF Links
<1>2. Item(g[1], g[2])' = ItemNext(g[1], g[2])
  BY DEF Item, ItemNext
<1> QED
  BY <1>1, <1>2 DEF Links, Inode, Offset

\* Zero is the entry of nothing.
LEMMA ZeroTag == Zero.tag \notin Names /\ Zero.ino = 0
BY NamesAssumption DEF Zero

\* The entries after it: those before, and the new one.
LEMMA CreatedLinks ==
  ASSUME IInv, NEW i, NEW type, NEW name, NEW a, Created(i, type, name, a),
         NEW e \in Links'
  PROVE  \/ e \in Links /\ e[1] # i /\ Child1(e)' = Child1(e)
         \/ e = <<cwd, inode[cwd].size>> /\ a # 0 /\ Child1(e)' = i
<1>12. a # 0 => ItemNext(cwd, inode[cwd].size).ino = i
  BY CreatedStore
<1> DEFINE d == e[1]
           c == e[2]
<1>1. d \in Inode /\ c \in Offset /\ e = <<d, c>> /\ IsDir(d)' /\ c < inode'[d].size
      /\ ItemNext(d, c).tag \in Names /\ Child1(e)' = ItemNext(d, c).ino
  BY LinkPairsNext
<1>2. c \in Nat /\ inode[cwd].size \in Nat
  BY <1>1, Room DEF Offset
<1>3. /\ d = i => inode'[d].size = 0
      /\ d # i => /\ inode'[d].size = IF d = cwd THEN inode[d].size + 1 ELSE inode[d].size
  BY <1>1 DEF Created
<1> HIDE DEF d, c
<1>4. d # i
  BY <1>1, <1>2, <1>3
<1>5. IsDir(d)
  BY <1>1, <1>4, CreatedDirs
<1>6. /\ inode[d].block[0] = 0 => inode[d].size = 0
      /\ inode[d].block[0] # 0 => Item(d, c) = Zero \/ c < inode[d].size
  BY <1>1, <1>5 DEF IInv, Listed
<1>7. e[1] = d /\ e[2] = c
  BY DEF d, c
<1>8. ASSUME ItemNext(d, c) = Item(d, c), c < inode[d].size
      PROVE  e \in Links /\ Child1(e)' = Child1(e)
  <2>1. e \in Links
    BY <1>1, <1>5, <1>7, <1>8 DEF Links
  <2>2. Child1(e) = Item(d, c).ino
    BY <1>7 DEF Child1
  <2> QED
    BY <1>1, <1>8, <2>1, <2>2
<1>9. CASE d # cwd
  <2>1. c < inode[d].size
    BY <1>1, <1>3, <1>4, <1>9
  <2>2. inode[d].block[0] # 0
    BY <1>2, <1>6, <2>1
  <2>3. ItemNext(d, c) = Item(d, c)
    BY <1>1, <1>4, <1>9, <2>2, CreatedDirs
  <2> QED
    BY <1>4, <1>7, <1>8, <2>1, <2>3
<1>10. CASE d = cwd /\ (c # inode[cwd].size \/ a = 0)
  <2>1. ItemNext(d, c) = Item(d, c)
    BY <1>1, <1>10, CreatedStore
  <2>2. inode[cwd].block[0] # 0
    BY DEF IInv, CwdKept
  <2>3. c < inode[d].size
    BY <1>1, <1>6, <1>10, <2>1, <2>2, ZeroTag
  <2> QED
    BY <1>4, <1>7, <1>8, <2>1, <2>3
<1>11. CASE d = cwd /\ c = inode[cwd].size /\ a # 0
  <2>1. ItemNext(d, c).ino = i
    BY <1>11, <1>12
  <2>2. Child1(e)' = i
    BY <1>1, <2>1
  <2> QED
    BY <1>1, <1>11, <2>2
<1> QED
  BY <1>9, <1>10, <1>11

LEMMA CreatedLinked ==
  ASSUME IInv, NEW i, NEW type, NEW name, NEW a, Created(i, type, name, a)
  PROVE  Linked'
<1>1. \A e \in Links' : \/ e \in Links /\ e[1] # i /\ Child1(e)' = Child1(e)
                        \/ e = <<cwd, inode[cwd].size>> /\ a # 0 /\ Child1(e)' = i
  BY CreatedLinks
<1>2. /\ \A e \in Links : /\ ibit[Child1(e)] /\ Child1(e) # Root /\ Child1(e) # e[1]
                          /\ inode[Child1(e)].type # "I_NONE"
                          /\ inode[Child1(e)].block[0] # 0
      /\ \A e, g \in Links : Child1(e) = Child1(g) => e = g
  BY DEF IInv, Linked
<1>3. \A e \in Links : Child1(e) \in Inode
  <2>1. ASSUME NEW e \in Links PROVE Child1(e) \in Inode
    <3>1. IsDir(e[1]) /\ e[1] \in Inode /\ e[2] \in Offset /\ e[2] < inode[e[1]].size
          /\ Item(e[1], e[2]).tag \in Names
      BY LinkPairs
    <3>2. ~(e[2] < 0)
      BY <3>1 DEF Offset
    <3>3. Item(e[1], e[2]).ino \in Inode
      BY <3>1, <3>2, ZeroTag DEF IInv, Listed
    <3> QED
      BY <3>3 DEF Child1
  <2> QED
    BY <2>1
<1>4. ~ibit[i] /\ i \in Inode /\ i # cwd /\ i # Root /\ type # "I_NONE" /\ 0 \in 0 .. NDATA
  BY FileAssumption DEF Created
<1>5. /\ \A j \in Inode : ibit'[j] <=> (ibit[j] \/ j = i)
      /\ \A j \in Inode : j # i => inode'[j].type = inode[j].type
                                /\ inode'[j].block[0] = inode[j].block[0]
      /\ inode'[i].type = type /\ inode'[i].block[0] = a
  BY <1>4 DEF Created
<1>6. ASSUME NEW e \in Links'
      PROVE  /\ ibit'[Child1(e)'] /\ Child1(e)' # Root /\ Child1(e)' # e[1]
             /\ inode'[Child1(e)'].type # "I_NONE" /\ inode'[Child1(e)'].block[0] # 0
  <2>1. CASE e \in Links /\ e[1] # i /\ Child1(e)' = Child1(e)
    BY <1>2, <1>3, <1>4, <1>5, <2>1
  <2>2. CASE e = <<cwd, inode[cwd].size>> /\ a # 0 /\ Child1(e)' = i
    BY <1>4, <1>5, <2>2
  <2> QED
    BY <1>1, <2>1, <2>2
<1>7. ASSUME NEW e \in Links', NEW g \in Links', Child1(e)' = Child1(g)'
      PROVE  e = g
  BY <1>1, <1>2, <1>4, <1>7
<1> QED
  BY <1>6, <1>7 DEF Linked

LEMMA CreatedKept ==
  ASSUME IInv, NEW i, NEW type, NEW name, NEW a, Created(i, type, name, a)
  PROVE  RootKept' /\ CwdKept'
<1>1. i # Root /\ i # cwd /\ Root \in Inode /\ cwd \in Inode /\ cwd' = cwd /\ 0 \in 0 .. NDATA
  BY Room, AreaFacts, FileAssumption DEF Created
<1>2. \A j \in Inode : j # i => /\ inode'[j].type = inode[j].type
                                /\ inode'[j].block[0] = inode[j].block[0]
  BY <1>1 DEF Created
<1>3. \A j \in Inode : ibit[j] => ibit'[j]
  BY DEF Created
<1> QED
  BY <1>1, <1>2, <1>3 DEF IInv, RootKept, CwdKept, IsDir

\* A file is neither the root nor a directory in use.
LEMMA NotDir ==
  ASSUME IInv, NEW j \in Inode, inode[j].type = "I_FILE"
  PROVE  j # cwd /\ j # Root /\ ~IsDir(j)
BY DEF IInv, RootKept, CwdKept, IsDir

LEMMA CreatedBytes ==
  ASSUME IInv, NEW i, NEW type, NEW name, NEW a, Created(i, type, name, a)
  PROVE  Bytes'
<1>1. ASSUME NEW j \in Inode, inode'[j].type = "I_FILE", inode'[j].block[0] # 0,
             NEW n \in 0 .. inode'[j].size - 1
      PROVE  store'[inode'[j].block[n \div BSIZE]][n % BSIZE] = [ino |-> j, tag |-> n]
  <2>1. j # i
    <3>1. j = i => inode'[j].size = 0
      BY DEF Created
    <3> QED
      BY <1>1, <3>1
  <2>2. 0 \in 0 .. NDATA
    BY FileAssumption
  <2>3. inode[j].type = "I_FILE" /\ inode[j].block[0] # 0
    BY <1>1, <2>1, <2>2 DEF Created
  <2>4. j # cwd
    BY <2>3, NotDir
  <2>5. inode'[j].size = inode[j].size /\ inode[j].size \in Nat
    BY <2>1, <2>4, Types1 DEF Created, IInv
  <2>6. n \in Nat /\ n <= inode[j].size /\ n \in 0 .. inode[j].size - 1
    BY <1>1, <2>5
  <2> DEFINE k == n \div BSIZE
  <2>7. <<j, k>> \in Held /\ inode[j].block[k] \in Area
    BY <2>3, <2>6, Place DEF IInv
  <2>8. k \in 0 .. NDATA
    <3> HIDE DEF k
    <3>1. <<j, k>> \in Inode \X (0 .. NDATA - 1)
      BY <2>7 DEF Held
    <3> QED
      BY <3>1, FileAssumption
  <2>9. inode'[j].block[k] = inode[j].block[k]
    BY <2>1, <2>8 DEF Created
  <2>10. inode[j].block[k] # inode[cwd].block[0]
    BY <2>4, <2>7, OneUse, Room DEF IInv
  <2>11. n % BSIZE \in Offset
    BY <2>6, FileAssumption, DivMod DEF Offset
  <2>12. store'[inode[j].block[k]][n % BSIZE] = store[inode[j].block[k]][n % BSIZE]
    BY <2>7, <2>10, <2>11, CreatedStore
  <2>13. store[inode[j].block[k]][n % BSIZE] = [ino |-> j, tag |-> n]
    BY <2>3, <2>6 DEF IInv, Bytes
  <2> QED
    BY <2>9, <2>12, <2>13
<1> QED
  BY <1>1 DEF Bytes, Inode


\* What an inode is.
Dinode == [type : Types, size : 0 .. NDATA * BSIZE, block : [0 .. NDATA -> Block]]

\* A directory fits below the largest size of an inode.
LEMMA SizeFits ==
  ASSUME NEW s \in Nat, s < BSIZE
  PROVE  s \in 0 .. NDATA * BSIZE
<1>1. NDATA * BSIZE >= 1 * BSIZE
  BY FileAssumption, SMT
<1>2. NDATA * BSIZE \in Nat /\ BSIZE \in Nat
  BY FileAssumption
<1> QED
  BY <1>1, <1>2

\* The inodes after allocInode and the new size of the directory.
LEMMA GrownTyped ==
  ASSUME IInv, NEW i \in Inode, i # cwd, NEW type \in Types, inode[cwd].size + 1 < BSIZE
  PROVE  Grown(Fresh(i, type)) \in [Inode -> Dinode]
<1> DEFINE g == Grown(Fresh(i, type))
<1>1. /\ DOMAIN g = Inode
      /\ \A j \in Inode : j # i /\ j # cwd => g[j] = inode[j]
      /\ g[i] = Blank(type)
      /\ g[cwd] = [inode[cwd] EXCEPT !.size = @ + 1]
  BY GrownFresh DEF IInv
<1>2. inode \in [Inode -> Dinode] /\ cwd \in Inode
  BY DEF IInv, TypeOK, DiskTypeOK, Dinode
<1>3. Blank(type) \in Dinode
  <2>1. 0 \in Block /\ 0 \in Nat /\ 0 < BSIZE
    BY FileAssumption, AreaFacts
  <2>2. 0 \in 0 .. NDATA * BSIZE
    BY <2>1, SizeFits
  <2> QED
    BY <2>1, <2>2 DEF Blank, Dinode
<1>4. [inode[cwd] EXCEPT !.size = @ + 1] \in Dinode
  <2>1. inode[cwd].size + 1 \in Nat
    BY Room
  <2>2. inode[cwd].size + 1 \in 0 .. NDATA * BSIZE
    BY <2>1, SizeFits
  <2>3. inode[cwd] \in Dinode
    BY <1>2
  <2> QED
    BY <2>2, <2>3 DEF Dinode
<1> HIDE DEF g
<1>5. \A j \in Inode : g[j] \in Dinode
  BY <1>1, <1>2, <1>3, <1>4
<1>6. g = [j \in Inode |-> g[j]]
  <2>1. Grown(Fresh(i, type)) = [j \in DOMAIN Grown(Fresh(i, type)) |-> Grown(Fresh(i, type))[j]]
    BY DEF Grown
  <2> QED
    BY <1>1, <2>1 DEF g
<1>7. g \in [Inode -> Dinode]
  BY <1>5, <1>6
<1> QED
  BY <1>7 DEF g

LEMMA MakeTyped ==
  ASSUME IInv, Careful, NEW type \in {"I_FILE", "I_DIR"}, NEW i \in Inode, NEW name \in Names,
         Make(i, type, name)
  PROVE  DiskTypeOK' /\ cwd' \in Inode
<1> DEFINE a == DataAddr(0)
           g == Grown(Fresh(i, type))
<1>1. i # cwd /\ inode[cwd].size + 1 < BSIZE /\ cwd' = cwd /\ cwd \in Inode
  BY NewInode, Room DEF Make, MayAdd
<1>2. ibit' \in [Inode -> BOOLEAN]
  BY Types1 DEF IInv, Make, Marked
<1>3. dbit' \in [0 .. nDataBlock -> BOOLEAN]
  <2>1. DOMAIN dbit = 0 .. nDataBlock /\ \A d \in DOMAIN dbit : dbit[d] \in BOOLEAN
    BY Types1 DEF IInv
  <2> QED
    BY <2>1 DEF Make, Taken
<1>4. inode' \in [Inode -> Dinode]
  <2>1. g \in [Inode -> Dinode]
    BY <1>1, GrownTyped DEF Types
  <2>2. a \in Block
    BY MakeCreates, AreaFacts
  <2>3. inode' = [g EXCEPT ![i] = [g[i] EXCEPT !.block = [g[i].block EXCEPT ![0] = a]]]
    BY DEF Make
  <2> HIDE DEF g, a
  <2>4. g[i] \in Dinode
    BY <2>1
  <2>5. [g[i].block EXCEPT ![0] = a] \in [0 .. NDATA -> Block]
    BY <2>2, <2>4 DEF Dinode
  <2>6. [g[i] EXCEPT !.block = [g[i].block EXCEPT ![0] = a]] \in Dinode
    BY <2>4, <2>5 DEF Dinode
  <2> QED
    BY <2>1, <2>3, <2>6
<1>5. DOMAIN store' = Block /\ \A b \in Block : DOMAIN store'[b] = Offset
  <2>1. PICK s \in Stray : store' = Append1(s, Fresh(i, type), i, name)
    BY DEF Make
  <2>2. DOMAIN s = Block /\ \A b \in Block : DOMAIN s[b] = Offset
    BY StrayMisses DEF IInv
  <2> QED
    BY <2>1, <2>2 DEF Append1
<1> QED
  BY <1>1, <1>2, <1>3, <1>4, <1>5 DEF DiskTypeOK, Dinode, Inode, Block, Offset, Area, Spill, Types

LEMMA MakeFailsTyped ==
  ASSUME IInv, Careful, NEW type \in {"I_FILE", "I_DIR"}, MakeFails(type)
  PROVE  DiskTypeOK' /\ cwd' \in Inode
<1>1. PICK i \in Inode : FreeInode(i) /\ ibit' = Marked(i) /\ inode' = Grown(Fresh(i, type))
  BY DEF MakeFails
<1>2. i # cwd /\ inode[cwd].size + 1 < BSIZE /\ cwd' = cwd /\ dbit' = dbit /\ cwd \in Inode
      /\ store' \in Stray
  BY <1>1, NewInode, Room DEF MakeFails
<1>3. ibit' \in [Inode -> BOOLEAN] /\ dbit' \in [0 .. nDataBlock -> BOOLEAN]
  BY <1>1, <1>2, Types1 DEF IInv, Marked
<1>4. inode' \in [Inode -> Dinode]
  BY <1>1, <1>2, GrownTyped DEF Types
<1>5. DOMAIN store' = Block /\ \A b \in Block : DOMAIN store'[b] = Offset
  BY <1>2, StrayMisses DEF IInv
<1> QED
  BY <1>2, <1>3, <1>4, <1>5 DEF DiskTypeOK, Dinode


------------------------------------------------------------------------------
(* rm *)

\* What rm does to the disk: an entry of the current directory is cleared, and
\* the number of its inode is free.
Removing(e) ==
  /\ e \in Links /\ e[1] = cwd
  /\ inode' = inode /\ dbit' = dbit /\ cwd' = cwd
  /\ ibit' = [ibit EXCEPT ![Child1(e)] = FALSE]
  /\ \A b \in Area, c \in Offset :
       store'[b][c] = IF b = inode[cwd].block[0] /\ c = e[2] THEN Zero ELSE store[b][c]

\* Every block of a complete inode is in the data area.
LEMMA InArea ==
  ASSUME TypeOK, Placed, NEW j \in Inode, inode[j].block[0] # 0,
         NEW k \in 0 .. inode[j].size \div BSIZE
  PROVE  k \in 0 .. NDATA - 1 /\ <<j, k>> \in Held /\ inode[j].block[k] \in Area
         /\ dbit[inode[j].block[k] - dataStart]
<1>1. inode[j].size \div BSIZE \in Nat
  BY Types1, DivOrder
<1>2. /\ inode[j].size \div BSIZE < NDATA
      /\ \A l \in 1 .. inode[j].size \div BSIZE : inode[j].block[l] # 0
  BY DEF Placed
<1>3. k \in 0 .. NDATA - 1 /\ k <= inode[j].size \div BSIZE
  BY <1>1, <1>2, FileAssumption
<1>4. inode[j].block[k] # 0
  BY <1>1, <1>2, <1>3
<1>5. <<j, k>> \in Held /\ Address(<<j, k>>) = inode[j].block[k]
  BY <1>3, <1>4 DEF Held, Address
<1> QED
  BY <1>3, <1>5 DEF Placed

\* Entries name inodes.
LEMMA ChildInode ==
  ASSUME IInv, NEW e \in Links
  PROVE  Child1(e) \in Inode
<1>1. IsDir(e[1]) /\ e[1] \in Inode /\ e[2] \in Offset /\ e[2] < inode[e[1]].size
      /\ Item(e[1], e[2]).tag \in Names
  BY LinkPairs
<1>2. ~(e[2] < 0)
  BY <1>1 DEF Offset
<1>3. Item(e[1], e[2]).ino \in Inode
  BY <1>1, <1>2, ZeroTag DEF IInv, Listed
<1> QED
  BY <1>3 DEF Child1

\* The entry that rm finds.
LEMMA Found ==
  ASSUME IInv, NEW name \in Names, Places(cwd, name) # {}
  PROVE  LET p == Min(Places(cwd, name)) IN
         /\ <<cwd, p>> \in Links /\ Entry(cwd, p).ino = Child1(<<cwd, p>>)
         /\ p \in Offset /\ p \div BSIZE = 0 /\ p % BSIZE = p
<1> DEFINE p == Min(Places(cwd, name))
<1>1. cwd \in Inode /\ inode[cwd].size \in Nat /\ inode[cwd].size < BSIZE /\ BSIZE \in Nat
  BY Room, FileAssumption DEF Offset
<1>2. Places(cwd, name) \in SUBSET Nat
  BY <1>1 DEF Places
<1>3. p \in Places(cwd, name)
  BY <1>2, MinPlace
<1> HIDE DEF p
<1>4. p \in Nat /\ p < inode[cwd].size /\ Entry(cwd, p).tag = name
  BY <1>1, <1>3 DEF Places
<1>5. p \in 0 .. BSIZE - 1
  BY <1>1, <1>4
<1>6. p \div BSIZE = 0 /\ p % BSIZE = p
  BY <1>5, Small
<1>7. Entry(cwd, p) = Item(cwd, p)
  BY <1>6 DEF Entry, Item
<1>8. IsDir(cwd)
  BY DEF IInv, CwdKept
<1>9. <<cwd, p>> \in Links /\ Entry(cwd, p).ino = Child1(<<cwd, p>>)
  BY <1>1, <1>4, <1>5, <1>7, <1>8 DEF Links, Child1, Offset
<1> QED
  BY <1>5, <1>6, <1>9 DEF p, Offset

LEMMA RmRemoves ==
  ASSUME IInv, Careful, rm
  PROVE  DiskTypeOK' /\ \E e \in Links : Removing(e)
<1>1. PICK name \in Names, i \in Inode :
        /\ Places(cwd, name) # {} \/ "missing" \in Habits
        /\ i \in Removed(name)
        /\ inode' = Reread(i)
        /\ LET A == {inode'[i].block[k] : k \in 0 .. inode[i].size \div BSIZE} IN
             /\ dbit' = Released(A)
             /\ \E s \in {t \in Stray : t = store \/ \E a \in A : Frees(a)} :
                  store' = Cleared(s, name)
        /\ ibit' = FreedInode(Number(i))
  BY DEF rm
<1> DEFINE p == Min(Places(cwd, name))
           e == <<cwd, p>>
<1>2. Places(cwd, name) # {} /\ cwd' = cwd
  BY <1>1 DEF Careful, rm
<1>3. /\ e \in Links /\ Entry(cwd, p).ino = Child1(e)
      /\ p \in Offset /\ p \div BSIZE = 0 /\ p % BSIZE = p
  BY <1>2, Found
<1>4. i = Child1(e)
  BY <1>1, <1>2, <1>3 DEF Removed
<1> HIDE DEF p
<1>5. ibit[i] /\ inode[i].type # "I_NONE" /\ inode[i].block[0] # 0
  BY <1>3, <1>4 DEF IInv, Linked
<1>6. inode' = inode /\ ibit' = [ibit EXCEPT ![Child1(e)] = FALSE]
  BY <1>1, <1>4, <1>5 DEF Reread, Number, FreedInode
<1>7. \A k \in 0 .. inode[i].size \div BSIZE : inode[i].block[k] \in Area
  BY <1>5, InArea DEF IInv
<1>8. \A b \in Area : ~Frees(b)
  BY LayoutAssumption DEF Area, Frees
<1> DEFINE A == {inode'[i].block[k] : k \in 0 .. inode[i].size \div BSIZE}
<1>9. \A b \in A : b \in Area /\ ~Frees(b)
  BY <1>6, <1>7, <1>8
<1>10. /\ dbit' = Released(A)
       /\ \E s \in {t \in Stray : t = store \/ \E b \in A : Frees(b)} : store' = Cleared(s, name)
  BY <1>1
<1> HIDE DEF A
<1>11. store' = Cleared(store, name)
  BY <1>9, <1>10
<1>12. dbit' = dbit
  <2>1. dbit \in [0 .. nDataBlock -> BOOLEAN]
    BY Types1 DEF IInv
  <2>2. \A d \in DOMAIN dbit : (dbit[d] /\ ~(d \in A /\ Frees(d))) = dbit[d]
    BY <1>9, <2>1
  <2>3. dbit' = [d \in DOMAIN dbit |-> dbit[d] /\ ~(d \in A /\ Frees(d))]
    BY <1>10 DEF Released
  <2> QED
    BY <2>1, <2>2, <2>3
<1>13. store' = [store EXCEPT ![inode[cwd].block[0]][p] = Zero]
  BY <1>2, <1>3, <1>11 DEF Cleared, p
<1>14. /\ DOMAIN store = Block /\ \A b \in Block : DOMAIN store[b] = Offset
       /\ inode[cwd].block[0] \in Block /\ \A b \in Area : b \in Block
  BY Types1, Room, AreaFacts DEF IInv
<1>15. \A b \in Area, c \in Offset :
         store'[b][c] = IF b = inode[cwd].block[0] /\ c = p THEN Zero ELSE store[b][c]
  BY <1>13, <1>14
<1>16. Removing(e)
  BY <1>2, <1>3, <1>6, <1>12, <1>15 DEF Removing
<1>17. DOMAIN store' = Block /\ \A b \in Block : DOMAIN store'[b] = Offset
  BY <1>13, <1>14
<1>18. ibit' \in [Inode -> BOOLEAN]
  BY <1>6, Types1 DEF IInv
<1>19. dbit' \in [0 .. nDataBlock -> BOOLEAN] /\ inode' \in [Inode -> Dinode]
  BY <1>6, <1>12 DEF IInv, TypeOK, DiskTypeOK, Dinode
<1> QED
  BY <1>3, <1>16, <1>17, <1>18, <1>19 DEF DiskTypeOK, Dinode


LEMMA RemovingKeeps ==
  ASSUME IInv, NEW e \in Links, Removing(e)
  PROVE  /\ RootKept' /\ Placed' /\ Unused' /\ Listed' /\ Linked' /\ CwdKept' /\ Bytes'
         /\ \A g \in Links' : /\ g \in Links /\ g # e /\ g[1] # Child1(e)
                               /\ ItemNext(g[1], g[2]) = Item(g[1], g[2])
         /\ \A g \in Links : g # e /\ g[1] # Child1(e) => g \in Links'
<1> DEFINE first == inode[cwd].block[0]
           i == Child1(e)
<1>1. /\ e[1] = cwd /\ e \in Inode \X Offset /\ inode' = inode /\ dbit' = dbit /\ cwd' = cwd
      /\ ibit' = [ibit EXCEPT ![i] = FALSE]
      /\ \A b \in Area, c \in Offset :
           store'[b][c] = IF b = first /\ c = e[2] THEN Zero ELSE store[b][c]
  BY DEF Removing, Links
<1>2. /\ i # Root /\ i # cwd /\ i \in Inode
      /\ \A g \in Links : Child1(g) = i => g = e
  BY <1>1, ChildInode DEF IInv, Linked
<1>3. first \in Area /\ first # 0 /\ cwd \in Inode /\ <<cwd, 0>> \in Held
  BY Room DEF IInv, CwdKept
<1>4. ibit \in [Inode -> BOOLEAN]
  BY Types1 DEF IInv
<1> HIDE DEF first, i
<1>5. \A j \in Inode : ibit'[j] <=> ibit[j] /\ j # i
  BY <1>1, <1>2, <1>4
<1>6. Placed'
  <2>1. Held' = Held /\ \A u : Address(u)' = Address(u)
    BY <1>1 DEF Held, Address
  <2> QED
    BY <1>1, <2>1 DEF IInv, Placed
<1>7. Unused'
  <2>1. \A b \in Area : ~dbit'[b - dataStart] => \A c \in Offset : store'[b][c] = Zero
    BY <1>1 DEF IInv, Unused
  <2> QED
    BY <2>1 DEF Unused, Area, Offset, Zero
<1>8. RootKept' /\ CwdKept'
  BY <1>1, <1>2, <1>3, <1>5, AreaFacts DEF IInv, RootKept, CwdKept, IsDir
<1>9. \A d \in Inode : IsDir(d)' <=> IsDir(d) /\ d # i
  BY <1>1, <1>5 DEF IsDir
<1>10. \A d \in Inode, c \in Offset : inode[d].block[0] # 0 =>
         ItemNext(d, c) = IF d = cwd /\ c = e[2] THEN Zero ELSE Item(d, c)
  <2>1. ASSUME NEW d \in Inode, NEW c \in Offset, inode[d].block[0] # 0
        PROVE  ItemNext(d, c) = IF d = cwd /\ c = e[2] THEN Zero ELSE Item(d, c)
    <3>1. inode[d].block[0] \in Area /\ <<d, 0>> \in Held
      BY <2>1, First DEF IInv
    <3>2. inode[d].block[0] = first => d = cwd
      BY <1>3, <3>1, OneUse DEF IInv, first
    <3> QED
      BY <1>1, <3>1, <3>2 DEF Item, ItemNext, first
  <2> QED
    BY <2>1
<1>11. Listed'
  <2>1. ASSUME NEW d \in Inode, IsDir(d)'
        PROVE  /\ inode'[d].size < BSIZE
               /\ inode'[d].block[0] = 0 => inode'[d].size = 0
               /\ inode'[d].block[0] # 0 => \A c \in Offset :
                    \/ ItemNext(d, c) = Zero
                    \/ /\ c < inode'[d].size
                       /\ ItemNext(d, c).ino \in Inode /\ ItemNext(d, c).tag \in Names
    <3>1. /\ inode[d].size < BSIZE
          /\ inode[d].block[0] = 0 => inode[d].size = 0
          /\ inode[d].block[0] # 0 => \A c \in Offset :
               \/ Item(d, c) = Zero
               \/ c < inode[d].size /\ Item(d, c).ino \in Inode /\ Item(d, c).tag \in Names
      BY <1>9, <2>1 DEF IInv, Listed
    <3> QED
      BY <1>1, <1>10, <3>1
  <2> QED
    BY <2>1 DEF Listed, Zero, Offset, Inode, Item, ItemNext
<1>12. \A g \in Links' : /\ g \in Links /\ g # e /\ Child1(g)' = Child1(g) /\ g[1] # i
                          /\ ItemNext(g[1], g[2]) = Item(g[1], g[2])
  <2>1. ASSUME NEW g \in Links'
        PROVE  /\ g \in Links /\ g # e /\ Child1(g)' = Child1(g) /\ g[1] # i
               /\ ItemNext(g[1], g[2]) = Item(g[1], g[2])
    <3>1. /\ g[1] \in Inode /\ g[2] \in Offset /\ g = <<g[1], g[2]>>
          /\ IsDir(g[1])' /\ g[2] < inode'[g[1]].size
          /\ ItemNext(g[1], g[2]).tag \in Names
          /\ Child1(g)' = ItemNext(g[1], g[2]).ino
      BY LinkPairsNext
    <3>2. IsDir(g[1]) /\ g[2] < inode[g[1]].size /\ ~(g[2] < 0)
      BY <1>1, <1>9, <3>1 DEF Offset
    <3>3. inode[g[1]].block[0] # 0
      BY <3>1, <3>2 DEF IInv, Listed
    <3>4. ~(g[1] = cwd /\ g[2] = e[2])
      BY <1>10, <3>1, <3>3, ZeroTag
    <3>5. ItemNext(g[1], g[2]) = Item(g[1], g[2])
      BY <1>10, <3>1, <3>3, <3>4
    <3>6. g \in Links
      BY <3>1, <3>2, <3>5 DEF Links
    <3> QED
      BY <1>1, <1>9, <3>1, <3>4, <3>5, <3>6 DEF Child1
  <2> QED
    BY <2>1
<1>15. \A g \in Links : g # e /\ g[1] # i => g \in Links'
  <2>1. ASSUME NEW g \in Links, g # e, g[1] # i
        PROVE  g \in Links'
    <3>1. /\ g[1] \in Inode /\ g[2] \in Offset /\ g = <<g[1], g[2]>> /\ IsDir(g[1])
          /\ g[2] < inode[g[1]].size /\ ~(g[2] < 0) /\ e = <<e[1], e[2]>>
      BY LinkPairs DEF Offset
    <3>2. IsDir(g[1])' /\ g[2] < inode'[g[1]].size
      BY <1>1, <1>9, <2>1, <3>1
    <3>3. inode[g[1]].block[0] # 0
      BY <3>1 DEF IInv, Listed
    <3>4. ~(g[1] = cwd /\ g[2] = e[2])
      BY <1>1, <2>1, <3>1
    <3>5. ItemNext(g[1], g[2]) = Item(g[1], g[2])
      BY <1>10, <3>1, <3>3, <3>4
    <3> QED
      BY <3>2, <3>5, LinkStays
  <2> QED
    BY <2>1
<1>13. Linked'
  <2>1. \A g \in Links : /\ ibit[Child1(g)] /\ Child1(g) # Root /\ Child1(g) # g[1]
                         /\ inode[Child1(g)].type # "I_NONE"
                         /\ inode[Child1(g)].block[0] # 0 /\ Child1(g) \in Inode
    BY ChildInode DEF IInv, Linked
  <2>2. \A g \in Links' :
          /\ ibit'[Child1(g)'] /\ Child1(g)' # Root /\ Child1(g)' # g[1]
          /\ inode'[Child1(g)'].type # "I_NONE" /\ inode'[Child1(g)'].block[0] # 0
    BY <1>1, <1>2, <1>5, <1>12, <2>1
  <2>3. \A g, h \in Links' : Child1(g)' = Child1(h)' => g = h
    BY <1>12 DEF IInv, Linked
  <2> QED
    BY <2>2, <2>3 DEF Linked
<1>14. Bytes'
  <2>1. ASSUME NEW j \in Inode, inode[j].type = "I_FILE", inode[j].block[0] # 0,
               NEW n \in 0 .. inode[j].size - 1
        PROVE  store'[inode[j].block[n \div BSIZE]][n % BSIZE] = [ino |-> j, tag |-> n]
    <3> DEFINE k == n \div BSIZE
    <3>1. j # cwd
      BY <2>1, NotDir
    <3>2. n \in Nat /\ n <= inode[j].size
      BY Types1 DEF IInv
    <3>3. <<j, k>> \in Held /\ inode[j].block[k] \in Area
      BY <2>1, <3>2, Place DEF IInv
    <3>4. inode[j].block[k] # first
      BY <1>3, <3>1, <3>3, OneUse DEF IInv, first
    <3>5. n % BSIZE \in Offset
      BY <3>2, FileAssumption, DivMod DEF Offset
    <3>6. store'[inode[j].block[k]][n % BSIZE] = store[inode[j].block[k]][n % BSIZE]
      BY <1>1, <3>3, <3>4, <3>5
    <3> QED
      BY <2>1, <3>6 DEF IInv, Bytes
  <2> QED
    BY <1>1, <2>1 DEF Bytes, Inode
<1> QED
  BY <1>6, <1>7, <1>8, <1>11, <1>12, <1>13, <1>14, <1>15 DEF i


------------------------------------------------------------------------------
(* read and write *)

\* How bytes are cut into pieces.
LEMMA Cut ==
  ASSUME NEW off \in Offset, NEW n \in Nat
  PROVE  /\ Pieces(off, n) \in Nat
         /\ off + n # (Pieces(off, n) + 1) * BSIZE =>
              (off + n) \div BSIZE = Pieces(off, n)
         /\ \A j \in 0 .. Pieces(off, n) : \A c \in Offset :
              /\ From(off, j) - At(off, j) = j * BSIZE - off
              /\ c \in At(off, j) .. At(off, j) + PieceLen(off, n, j) - 1
                   <=> off <= j * BSIZE + c /\ j * BSIZE + c < off + n
<1> DEFINE B == BSIZE
           m == n - (B - off)
           q == m \div B
           r == m % B
           na == Pieces(off, n)
<1>1. B \in Nat \ {0} /\ off \in 0 .. B - 1
  BY FileAssumption DEF Offset
<1>2. m \in Int /\ q \in Int /\ r \in 0 .. B - 1 /\ m = B * q + r
  BY <1>1, DivMod
<1>3. CASE n <= B - off
  <2>1. na = 0
    BY <1>1, <1>3 DEF Pieces
  <2>2. off + n # B => (off + n) \div B = 0
    <3>1. off + n # B => off + n \in 0 .. B - 1
      BY <1>1, <1>3
    <3> QED
      BY <3>1, Small
  <2>3. From(off, 0) = 0 /\ At(off, 0) = off /\ PieceLen(off, n, 0) = n
    BY <1>1, <1>3 DEF From, At, PieceLen
  <2>4. \A c \in Offset :
          /\ From(off, 0) - At(off, 0) = 0 * B - off
          /\ c \in At(off, 0) .. At(off, 0) + PieceLen(off, n, 0) - 1
               <=> off <= 0 * B + c /\ 0 * B + c < off + n
    BY <1>1, <2>3 DEF Offset
  <2>5. \A j \in 0 .. na : j = 0
    BY <2>1
  <2>6. (na + 1) * B = B
    BY <1>1, <2>1
  <2> QED
    BY <2>1, <2>2, <2>4, <2>5, <2>6
<1>4. CASE n > B - off
  <2>1. m \in Nat /\ m > 0 /\ off + n = B + m
    BY <1>1, <1>4
  <2>2. q \in Nat
    BY <1>1, <2>1, SMT
  <2>3. na = q + 1
    BY <1>4 DEF Pieces
  <2> HIDE DEF q, r, na, m
  <2>4. off + n = B * (q + 1) + r
    BY <1>1, <1>2, <2>1, <2>2
  <2>5. (off + n) \div B = na
    <3>1. (B * (q + 1) + r) \div B = q + 1
      BY <1>1, <1>2, <2>2, DivModUnique
    <3> QED
      BY <2>3, <2>4, <3>1
  <2>6. ASSUME NEW j \in 0 .. na, NEW c \in Offset
        PROVE  /\ From(off, j) - At(off, j) = j * B - off
               /\ c \in At(off, j) .. At(off, j) + PieceLen(off, n, j) - 1
                    <=> off <= j * B + c /\ j * B + c < off + n
    <3>1. c \in 0 .. B - 1 /\ j \in Nat
      BY <2>2, <2>3 DEF Offset
    <3>2. CASE j = 0
      <4>1. From(off, j) = 0 /\ At(off, j) = off /\ PieceLen(off, n, j) = B - off /\ j * B = 0
        BY <1>1, <1>4, <3>2 DEF From, At, PieceLen
      <4> QED
        BY <1>1, <1>4, <3>1, <4>1
    <3>3. CASE j # 0 /\ j < na
      <4>1. From(off, j) = B - off + (j - 1) * B /\ At(off, j) = 0 /\ PieceLen(off, n, j) = B
        BY <3>3 DEF From, At, PieceLen, na
      <4>2. j * B >= 1 * B /\ (j - 1) * B = j * B - B
        BY <1>1, <3>1, <3>3, SMT
      <4>3. j * B <= q * B /\ B * (q + 1) = q * B + B
        BY <1>1, <2>2, <2>3, <3>1, <3>3, SMT
      <4> DEFINE Y == j * B
                 Z == q * B
      <4>4. Y \in Int /\ Z \in Int
        BY <1>1, <2>2, <3>1
      <4> QED
        BY <1>1, <1>2, <2>4, <3>1, <4>1, <4>2, <4>3, <4>4
    <3>4. CASE j # 0 /\ j = na
      <4>1. From(off, j) = B - off + (j - 1) * B /\ At(off, j) = 0 /\ PieceLen(off, n, j) = r
        BY <3>4 DEF From, At, PieceLen, na, r, m
      <4>2. j * B >= 1 * B /\ (j - 1) * B = j * B - B
        BY <1>1, <3>1, <3>4, SMT
      <4>3. B * (q + 1) = j * B
        BY <1>1, <2>2, <2>3, <3>1, <3>4, SMT
      <4>4. j * B \in Int
        BY <1>1, <3>1
      <4> QED
        BY <1>1, <1>2, <2>4, <3>1, <4>1, <4>2, <4>3, <4>4
    <3> QED
      BY <2>2, <2>3, <3>1, <3>2, <3>3, <3>4
  <2> QED
    BY <2>2, <2>3, <2>5, <2>6 DEF na
<1> QED
  BY <1>1, <1>3, <1>4


\* The bytes of a write: each place of a block in the data area is that of one
\* new byte of file i, or as it was.
Laid(i, n, last) ==
  \A b \in Area, c \in Offset :
    \/ \E k \in inode[i].size \div BSIZE .. last :
         /\ inode'[i].block[k] = b
         /\ inode[i].size <= k * BSIZE + c /\ k * BSIZE + c < inode[i].size + n
         /\ store'[b][c] = [ino |-> i, tag |-> k * BSIZE + c]
    \/ /\ \A k \in inode[i].size \div BSIZE .. last :
            ~(/\ inode'[i].block[k] = b
              /\ inode[i].size <= k * BSIZE + c /\ k * BSIZE + c < inode[i].size + n)
       /\ store'[b][c] = store[b][c]

\* What write does to the disk: file i grows by n bytes, up to block number
\* last, and its new blocks were free.
Writing(i, n, last) ==
  LET size == inode[i].size
      new == size \div BSIZE + 1 .. last
  IN
  /\ i \in Inode /\ inode[i].type = "I_FILE" /\ n \in Nat \ {0}
  /\ last \in 0 .. NDATA - 1 /\ size \div BSIZE <= last /\ (size + n) \div BSIZE = last
  /\ ibit' = ibit /\ cwd' = cwd
  /\ \A j \in Inode : j # i => inode'[j] = inode[j]
  /\ inode'[i].type = inode[i].type /\ inode'[i].size = size + n
  /\ \A k \in 0 .. NDATA : k \notin new => inode'[i].block[k] = inode[i].block[k]
  /\ \A k \in new : inode'[i].block[k] \in Area /\ ~dbit[inode'[i].block[k] - dataStart]
  /\ \A k, l \in new : inode'[i].block[k] = inode'[i].block[l] => k = l
  /\ \A b \in Area : dbit'[b - dataStart] <=>
       (dbit[b - dataStart] \/ \E k \in new : inode'[i].block[k] = b)
  /\ Laid(i, n, last)

\* The position of a byte, reckoned from its piece.
LEMMA Shift ==
  ASSUME NEW s \in Int, NEW f \in Int, NEW r \in Int, NEW t \in Int, NEW p \in Int,
         NEW y \in Int, NEW o \in Int, s = p + o, f - t = y - o
  PROVE  s + f + r - t = p + y + r
OBVIOUS

\* The largest of a set with one element.
LEMMA MaxOne ==
  ASSUME NEW x \in Int
  PROVE  Max({x}) = x
BY DEF Max

\* The blocks of a write, by their numbers in the file.
LEMMA WriteBlocks ==
  ASSUME IInv, Careful, NEW i \in Inode, NEW n \in Nat \ {0}, WriteTo(i, n)
  PROVE  LET size == inode[i].size
             cur == size \div BSIZE
             off == size % BSIZE
             na == Pieces(off, n)
         IN  /\ cur \in Nat /\ off \in Offset /\ na \in Nat /\ size = cur * BSIZE + off
             /\ size \in Nat /\ cur + na < NDATA /\ (size + n) \div BSIZE = cur + na
             /\ na <= Cardinality(FreeData)
<1> DEFINE size == inode[i].size
           cur == size \div BSIZE
           off == size % BSIZE
           na == Pieces(off, n)
           B == BSIZE
<1>1. size \in Nat /\ B \in Nat \ {0} /\ size <= size
  BY Types1, FileAssumption DEF IInv
<1>2. cur \in Nat
  BY <1>1, DivOrder
<1>3. off \in 0 .. B - 1 /\ size = B * cur + off
  <2> HIDE DEF B, size
  <2>1. size % B \in 0 .. B - 1 /\ size = B * (size \div B) + (size % B)
    BY <1>1, DivMod
  <2> QED
    BY <2>1 DEF B
<1>4. cur + na < NDATA /\ Cardinality(FreeData) >= na /\ (size + n) % B # 0
  BY DEF WriteTo, Fits, Enough, Careful
<1> HIDE DEF cur, off, size
<1>5. na \in Nat /\ (off + n # (na + 1) * B => (off + n) \div B = na)
  BY <1>3, Cut DEF Offset
<1> HIDE DEF na
<1>6. off + n # (na + 1) * B
  <2>1. ASSUME off + n = (na + 1) * B
        PROVE  FALSE
    <3>1. size + n = B * (cur + na + 1) + 0
      BY <1>1, <1>2, <1>3, <1>5, <2>1
    <3>2. cur + na + 1 \in Int /\ 0 \in 0 .. B - 1
      BY <1>1, <1>2, <1>5
    <3>3. (B * (cur + na + 1) + 0) % B = 0
      BY <1>1, <3>2, DivModUnique
    <3> QED
      BY <1>4, <3>1, <3>3
  <2> QED
    BY <2>1
<1>7. (size + n) \div B = cur + na
  <2> DEFINE r == (off + n) % B
  <2>1. off + n \in Int /\ (off + n) \div B = na
    BY <1>1, <1>3, <1>5, <1>6
  <2>2. r \in 0 .. B - 1 /\ off + n = B * na + r
    BY <1>1, <2>1, DivMod
  <2> HIDE DEF r
  <2>3. size + n = B * (cur + na) + r /\ cur + na \in Int
    BY <1>1, <1>2, <1>3, <1>5, <2>2
  <2>4. (B * (cur + na) + r) \div B = cur + na
    BY <1>1, <2>2, <2>3, DivModUnique
  <2> QED
    BY <2>3, <2>4
<1>8. na <= Cardinality(FreeData) /\ size = cur * B + off
  BY <1>1, <1>2, <1>3, <1>4, <1>5, FreeFinite
<1> QED
  BY <1>1, <1>2, <1>3, <1>4, <1>5, <1>7, <1>8 DEF cur, off, na, size, Offset


LEMMA WriteWrites ==
  ASSUME IInv, Careful, NEW i \in Inode, inode[i].type = "I_FILE", NEW n \in Nat \ {0},
         WriteTo(i, n), UNCHANGED <<ibit, cwd>>
  PROVE  DiskTypeOK' /\ \E last \in Nat : Writing(i, n, last)
<1> DEFINE size == inode[i].size
           cur == size \div BSIZE
           off == size % BSIZE
           na == Pieces(off, n)
           block == [k \in 0 .. NDATA |-> IF k \in cur + 1 .. cur + na THEN DataAddr(k - cur - 1)
                                                                     ELSE inode[i].block[k]]
           Onto(b, c) == {j \in 0 .. na : block[cur + j] = b /\
                            c \in At(off, j) .. At(off, j) + PieceLen(off, n, j) - 1}
           Byte(j, c) == [ino |-> i, tag |-> size + From(off, j) + c - At(off, j)]
           B == BSIZE
<1>1. /\ cur \in Nat /\ off \in Offset /\ na \in Nat /\ size = cur * B + off
      /\ size \in Nat /\ cur + na < NDATA /\ (size + n) \div B = cur + na
      /\ na <= Cardinality(FreeData) /\ B \in Nat \ {0} /\ NDATA \in Nat \ {0}
  BY WriteBlocks, FileAssumption
<1>2. /\ inode' = [inode EXCEPT ![i] = [inode[i] EXCEPT !.block = block, !.size = @ + n]]
      /\ dbit' = Taken(na)
      /\ store' = [b \in Block |-> [c \in Offset |->
                     IF Onto(b, c) = {} THEN store[b][c] ELSE Byte(Max(Onto(b, c)), c)]]
  BY DEF WriteTo
<1>3. /\ \A j \in 0 .. na - 1 : DataAddr(j) \in Area /\ DataAddr(j) - dataStart \in FreeData
      /\ \A j, k \in 0 .. na - 1 : DataAddr(j) = DataAddr(k) => j = k
      /\ \A d \in 0 .. nDataBlock :
           Taken(na)[d] <=> (dbit[d] \/ \E j \in 0 .. na - 1 : DataAddr(j) = dataStart + d)
  <2> HIDE DEF na
  <2>1. DOMAIN dbit = 0 .. nDataBlock
    BY Types1 DEF IInv
  <2> QED
    BY <1>1, <2>1, Allocation
<1>4. \A j \in 0 .. na : \A c \in Offset :
        /\ From(off, j) - At(off, j) = j * B - off
        /\ c \in At(off, j) .. At(off, j) + PieceLen(off, n, j) - 1
             <=> off <= j * B + c /\ j * B + c < off + n
  <2> HIDE DEF off
  <2> QED
    BY <1>1, Cut
<1> HIDE DEF off, na, cur
<1>5. /\ block \in [0 .. NDATA -> Block]
      /\ \A k \in 0 .. NDATA : k \notin cur + 1 .. cur + na => block[k] = inode[i].block[k]
      /\ \A k \in cur + 1 .. cur + na : k \in 0 .. NDATA /\ block[k] = DataAddr(k - cur - 1)
  <2>1. \A k \in 0 .. NDATA : inode[i].block[k] \in Block
    BY Types1 DEF IInv
  <2>2. \A k \in cur + 1 .. cur + na : k \in 0 .. NDATA /\ k - cur - 1 \in 0 .. na - 1
    BY <1>1
  <2>3. \A k \in cur + 1 .. cur + na : DataAddr(k - cur - 1) \in Block
    BY <1>3, <2>2, AreaFacts
  <2> QED
    BY <2>1, <2>2, <2>3
<1> HIDE DEF block
<1>6. /\ DOMAIN inode = Inode /\ inode \in [Inode -> Dinode]
      /\ inode[i] \in Dinode
  BY DEF IInv, TypeOK, DiskTypeOK, Dinode
<1>7. /\ inode'[i] = [inode[i] EXCEPT !.block = block, !.size = size + n]
      /\ \A j \in Inode : j # i => inode'[j] = inode[j]
  BY <1>2, <1>6
<1>8. inode'[i].type = inode[i].type /\ inode'[i].size = size + n /\ inode'[i].block = block
  BY <1>6, <1>7 DEF Dinode
<1> DEFINE new == cur + 1 .. cur + na
<1>9. \A k \in new : block[k] \in Area /\ ~dbit[block[k] - dataStart]
  <2>1. \A k \in new : k - cur - 1 \in 0 .. na - 1
    BY <1>1
  <2> QED
    BY <1>3, <1>5, <2>1 DEF FreeData
<1>10. \A k, l \in new : block[k] = block[l] => k = l
  <2>1. \A k \in new : k - cur - 1 \in 0 .. na - 1
    BY <1>1
  <2>2. ASSUME NEW k \in new, NEW l \in new, block[k] = block[l]
        PROVE  k = l
    <3>1. k - cur - 1 = l - cur - 1
      BY <1>3, <1>5, <2>1, <2>2
    <3> QED
      BY <1>1, <3>1
  <2> QED
    BY <2>2
<1>11. \A b \in Area : dbit'[b - dataStart] <=>
         (dbit[b - dataStart] \/ \E k \in new : block[k] = b)
  <2>1. ASSUME NEW b \in Area
        PROVE  (\E j \in 0 .. na - 1 : DataAddr(j) = b) <=> \E k \in new : block[k] = b
    <3>1. \A k \in new : k - cur - 1 \in 0 .. na - 1 /\ block[k] = DataAddr(k - cur - 1)
      BY <1>1, <1>5
    <3>2. \A j \in 0 .. na - 1 : cur + 1 + j \in new /\ (cur + 1 + j) - cur - 1 = j
      BY <1>1
    <3>3. \A j \in 0 .. na - 1 : cur + 1 + j \in new /\ block[cur + 1 + j] = DataAddr(j)
      BY <3>1, <3>2
    <3> QED
      BY <3>1, <3>3
  <2>2. ASSUME NEW b \in Area
        PROVE  b - dataStart \in 0 .. nDataBlock /\ dataStart + (b - dataStart) = b
    BY AreaFacts, LayoutAssumption DEF Area
  <2> QED
    BY <1>2, <1>3, <2>1, <2>2
<1> DEFINE In(k, b, c) == block[k] = b /\ size <= k * B + c /\ k * B + c < size + n
<1>12. ASSUME NEW b \in Area, NEW c \in Offset
       PROVE  \/ \E k \in cur .. cur + na :
                   In(k, b, c) /\ store'[b][c] = [ino |-> i, tag |-> k * B + c]
              \/ /\ \A k \in cur .. cur + na : ~In(k, b, c)
                 /\ store'[b][c] = store[b][c]
  <2>1. \A j \in 0 .. na : j \in Onto(b, c) <=> In(cur + j, b, c)
    <3>1. ASSUME NEW j \in 0 .. na
          PROVE  off <= j * B + c /\ j * B + c < off + n
                   <=> size <= (cur + j) * B + c /\ (cur + j) * B + c < size + n
      <4>1. (cur + j) * B = cur * B + j * B /\ cur * B \in Int /\ j * B \in Int
        BY <1>1
      <4>2. c \in Int /\ off \in Int
        BY <1>1 DEF Offset
      <4> QED
        BY <1>1, <4>1, <4>2
    <3> QED
      BY <1>4, <3>1
  <2>2. \A k \in cur .. cur + na : k - cur \in 0 .. na /\ cur + (k - cur) = k
    BY <1>1
  <2>3. store'[b][c] = IF Onto(b, c) = {} THEN store[b][c] ELSE Byte(Max(Onto(b, c)), c)
    BY <1>2, AreaFacts
  <2>4. ASSUME NEW k \in cur .. cur + na, NEW l \in cur .. cur + na, block[k] = b, block[l] = b
        PROVE  k = l
    <3>1. block[cur] = b => dbit[b - dataStart]
      <4>1. /\ cur \in 0 .. NDATA - 1 /\ cur <= inode[i].size \div BSIZE
            /\ block[cur] = inode[i].block[cur]
        BY <1>1, <1>5 DEF cur
      <4>2. block[cur] = b => <<i, cur>> \in Held
        BY <4>1, AreaFacts DEF Held
      <4>3. Address(<<i, cur>>) = block[cur]
        BY <4>1 DEF Address
      <4> QED
        BY <4>2, <4>3 DEF IInv, Placed
    <3>2. k = cur \/ k \in new
      BY <1>1
    <3>3. l = cur \/ l \in new
      BY <1>1
    <3> QED
      BY <1>9, <1>10, <2>4, <3>1, <3>2, <3>3
  <2>5. CASE Onto(b, c) = {}
    <3>1. \A k \in cur .. cur + na : ~In(k, b, c)
      BY <2>1, <2>2, <2>5
    <3> QED
      BY <2>3, <2>5, <3>1
  <2>6. CASE Onto(b, c) # {}
    <3>1. PICK j \in Onto(b, c) : TRUE
      BY <2>6
    <3>2. j \in 0 .. na
      BY <3>1
    <3>3. In(cur + j, b, c)
      BY <2>1, <3>1, <3>2
    <3>4. cur + j \in cur .. cur + na
      BY <1>1, <3>2
    <3>5. \A l \in Onto(b, c) : l = j
      <4>1. ASSUME NEW l \in Onto(b, c)
            PROVE  l = j
        <5>1. l \in 0 .. na /\ block[cur + l] = b
          BY <4>1
        <5>2. cur + l \in cur .. cur + na
          BY <1>1, <5>1
        <5>3. cur + l = cur + j
          BY <2>4, <3>3, <3>4, <5>1, <5>2
        <5> QED
          BY <1>1, <3>2, <5>1, <5>3
      <4> QED
        BY <4>1
    <3>6. Onto(b, c) = {j}
      BY <3>1, <3>5
    <3>7. Max(Onto(b, c)) = j
      <4>1. j \in Int
        BY <3>2
      <4>2. Max({j}) = j
        BY <4>1, MaxOne
      <4> QED
        BY <3>6, <4>2
    <3>8. size + From(off, j) + c - At(off, j) = (cur + j) * B + c
      <4>1. From(off, j) - At(off, j) = j * B - off
        BY <1>4, <3>2
      <4>2. From(off, j) \in Int /\ At(off, j) \in Int /\ c \in Int /\ off \in Int
        BY <1>1, <3>2 DEF From, At, Offset
      <4>3. (cur + j) * B = cur * B + j * B /\ cur * B \in Int /\ j * B \in Int
        BY <1>1, <3>2
      <4>4. size + From(off, j) + c - At(off, j) = cur * B + j * B + c
        <5> DEFINE p == cur * B
                   y == j * B
                   f == From(off, j)
                   t == At(off, j)
        <5>1. size \in Int /\ p \in Int /\ y \in Int /\ f \in Int /\ t \in Int /\ off \in Int
              /\ c \in Int
          BY <1>1, <4>2, <4>3
        <5>2. size = p + off /\ f - t = y - off
          BY <1>1, <4>1
        <5> HIDE DEF p, y, f, t, size
        <5>3. size + f + c - t = p + y + c
          BY <5>1, <5>2, Shift
        <5> QED
          BY <5>3 DEF p, y, f, t
      <4> QED
        BY <4>3, <4>4
    <3>9. store'[b][c] = [ino |-> i, tag |-> (cur + j) * B + c]
      BY <2>3, <2>6, <3>7, <3>8
    <3> QED
      BY <3>3, <3>4, <3>9
  <2> QED
    BY <2>5, <2>6
<1> DEFINE last == cur + na
<1>13. last \in 0 .. NDATA - 1 /\ cur <= last /\ (size + n) \div B = last /\ last \in Nat
  BY <1>1
<1>14. ibit' = ibit /\ cwd' = cwd
  OBVIOUS
<1> HIDE DEF last
<1>15. /\ \A k \in 0 .. NDATA : k \notin cur + 1 .. last => inode'[i].block[k] = inode[i].block[k]
       /\ \A k \in cur + 1 .. last :
            inode'[i].block[k] \in Area /\ ~dbit[inode'[i].block[k] - dataStart]
       /\ \A k, l \in cur + 1 .. last : inode'[i].block[k] = inode'[i].block[l] => k = l
       /\ \A b \in Area : dbit'[b - dataStart] <=>
            (dbit[b - dataStart] \/ \E k \in cur + 1 .. last : inode'[i].block[k] = b)
  BY <1>5, <1>8, <1>9, <1>10, <1>11 DEF last
<1>18. \A b \in Area, c \in Offset :
         \/ \E k \in cur .. last :
              /\ inode'[i].block[k] = b /\ size <= k * B + c /\ k * B + c < size + n
              /\ store'[b][c] = [ino |-> i, tag |-> k * B + c]
         \/ /\ \A k \in cur .. last :
                 ~(inode'[i].block[k] = b /\ size <= k * B + c /\ k * B + c < size + n)
            /\ store'[b][c] = store[b][c]
  BY <1>8, <1>12 DEF last
<1>16. Writing(i, n, last)
  BY <1>7, <1>8, <1>13, <1>14, <1>15, <1>18 DEF Writing, Laid, cur
<1>17. DiskTypeOK'
  <2>1. dbit' \in [0 .. nDataBlock -> BOOLEAN]
    <3>1. DOMAIN dbit = 0 .. nDataBlock /\ \A d \in DOMAIN dbit : dbit[d] \in BOOLEAN
      BY Types1 DEF IInv
    <3> QED
      BY <1>2, <3>1 DEF Taken
  <2>2. DOMAIN store' = Block /\ \A b \in Block : DOMAIN store'[b] = Offset
    BY <1>2
  <2>3. size + n \in 0 .. NDATA * B
    <3> DEFINE s == size + n
               r == s % B
    <3>1. s \in Nat
      BY <1>1
    <3>2. r \in 0 .. B - 1 /\ s = B * (s \div B) + r
      <4> HIDE DEF s
      <4>1. s % B \in 0 .. B - 1 /\ s = B * (s \div B) + (s % B)
        BY <3>1, InBlocks
      <4> QED
        BY <4>1
    <3>3. s = B * last + r
      BY <1>13, <3>2
    <3>4. B * last \in Int /\ B * last <= B * (NDATA - 1)
      <4>1. B \in Nat /\ last \in Int /\ NDATA - 1 \in Int /\ last <= NDATA - 1
        BY <1>1, <1>13
      <4> QED
        BY <4>1, ProductOrder
    <3>5. B * (NDATA - 1) = NDATA * B - B /\ NDATA * B \in Nat
      BY <1>1
    <3> HIDE DEF s, r
    <3>6. s \in 0 .. NDATA * B
      BY <1>1, <3>1, <3>2, <3>3, <3>4, <3>5
    <3> QED
      BY <3>6 DEF s
  <2>4. inode'[i] \in Dinode
    BY <1>5, <1>6, <1>7, <2>3 DEF Dinode
  <2>5. inode' \in [Inode -> Dinode]
    BY <1>2, <1>6, <1>7, <2>4
  <2>6. ibit' \in [Inode -> BOOLEAN]
    BY <1>14, Types1 DEF IInv
  <2> QED
    BY <2>1, <2>2, <2>5, <2>6 DEF DiskTypeOK, Dinode
<1> QED
  BY <1>13, <1>16, <1>17


\* The uses of blocks after it: those before, and the new blocks of file i.
LEMMA WritingUses ==
  ASSUME IInv, NEW i, NEW n, NEW last, Writing(i, n, last)
  PROVE  \A j \in Inode, k \in 0 .. NDATA - 1 : <<j, k>> \in Held' =>
           \/ <<j, k>> \in Held /\ inode'[j].block[k] = inode[j].block[k]
           \/ j = i /\ k \in inode[i].size \div BSIZE + 1 .. last
<1> DEFINE cur == inode[i].size \div BSIZE
<1>1. /\ i \in Inode /\ last \in 0 .. NDATA - 1 /\ cur <= last
      /\ inode'[i].size \div BSIZE = last
      /\ \A j \in Inode : j # i => inode'[j] = inode[j]
      /\ \A k \in 0 .. NDATA : k \notin cur + 1 .. last => inode'[i].block[k] = inode[i].block[k]
  BY DEF Writing
<1>2. inode[i].size \in Nat /\ inode[i].size <= inode[i].size
  BY <1>1, Types1 DEF IInv
<1>3. cur \in Nat
  BY <1>2, DivOrder
<1>4. ASSUME NEW j \in Inode, NEW k \in 0 .. NDATA - 1, <<j, k>> \in Held'
      PROVE  \/ <<j, k>> \in Held /\ inode'[j].block[k] = inode[j].block[k]
             \/ j = i /\ k \in cur + 1 .. last
  <2>1. k <= inode'[j].size \div BSIZE /\ inode'[j].block[k] # 0
    BY <1>4 DEF Held
  <2>2. CASE j # i
    BY <1>1, <2>1, <2>2 DEF Held
  <2>3. CASE j = i /\ k \notin cur + 1 .. last
    <3> HIDE DEF cur
    <3>1. k <= cur
      BY <1>1, <1>3, <2>1, <2>3
    <3>2. inode'[j].block[k] = inode[j].block[k]
      BY <1>1, <2>3, FileAssumption
    <3> QED
      BY <2>1, <2>3, <3>1, <3>2 DEF Held, cur
  <2> QED
    BY <2>2, <2>3
<1> QED
  BY <1>4

LEMMA WritingPlaced ==
  ASSUME IInv, NEW i, NEW n, NEW last, Writing(i, n, last)
  PROVE  Placed'
<1> DEFINE cur == inode[i].size \div BSIZE
           new == cur + 1 .. last
<1>1. /\ i \in Inode /\ last \in 0 .. NDATA - 1 /\ cur <= last
      /\ inode'[i].size \div BSIZE = last
      /\ \A j \in Inode : j # i => inode'[j] = inode[j]
      /\ \A k \in 0 .. NDATA : k \notin new => inode'[i].block[k] = inode[i].block[k]
      /\ \A k \in new : inode'[i].block[k] \in Area /\ ~dbit[inode'[i].block[k] - dataStart]
      /\ \A k, l \in new : inode'[i].block[k] = inode'[i].block[l] => k = l
      /\ \A b \in Area : dbit'[b - dataStart] <=>
           (dbit[b - dataStart] \/ \E k \in new : inode'[i].block[k] = b)
  BY DEF Writing
<1>2. inode[i].size \in Nat /\ inode[i].size <= inode[i].size
  BY <1>1, Types1 DEF IInv
<1>3. cur \in Nat
  BY <1>2, DivOrder
<1>4. /\ \A j \in Inode : inode[j].size \div BSIZE < NDATA
      /\ \A j \in Inode : \A k \in 1 .. inode[j].size \div BSIZE : inode[j].block[k] # 0
      /\ \A j \in Inode, k \in 0 .. NDATA - 1 : <<j, k>> \in Held =>
           inode[j].block[k] \in Area /\ dbit[inode[j].block[k] - dataStart]
  BY DEF IInv, Placed, Address
<1>5. \A j \in Inode, k \in 0 .. NDATA - 1 : <<j, k>> \in Held' =>
        \/ <<j, k>> \in Held /\ inode'[j].block[k] = inode[j].block[k]
        \/ j = i /\ k \in new
  BY WritingUses
<1>6. \A j \in Inode : inode'[j].size \div BSIZE < NDATA
  BY <1>1, <1>4, FileAssumption
<1>7. ASSUME NEW j \in Inode, NEW k \in 1 .. inode'[j].size \div BSIZE
      PROVE  inode'[j].block[k] # 0
  <2>1. CASE j # i
    BY <1>1, <1>4, <2>1
  <2>2. CASE j = i /\ k \in new
    BY <1>1, <2>2, AreaFacts
  <2>3. CASE j = i /\ k \notin new
    <3>1. k \in 1 .. last
      BY <1>1, <2>3
    <3> HIDE DEF cur
    <3>2. k \in 1 .. cur /\ k \in 0 .. NDATA
      BY <1>1, <1>3, <2>3, <3>1, FileAssumption DEF new
    <3> QED
      BY <1>1, <1>4, <2>3, <3>2 DEF cur
  <2> QED
    BY <2>1, <2>2, <2>3
<1> HIDE DEF new
<1>8. ASSUME NEW u \in Held'
      PROVE  (Address(u) \in Area /\ dbit[Address(u) - dataStart])'
  <2>1. u[1] \in Inode /\ u[2] \in 0 .. NDATA - 1 /\ u = <<u[1], u[2]>>
    BY HeldPairsNext
  <2>2. inode'[u[1]].block[u[2]] \in Area /\ dbit'[inode'[u[1]].block[u[2]] - dataStart]
    BY <1>1, <1>4, <1>5, <2>1
  <2> QED
    BY <2>2 DEF Address, Area
<1>9. ASSUME NEW u \in Held', NEW v \in Held', Address(u)' = Address(v)'
      PROVE  u = v
  <2>1. u[1] \in Inode /\ u[2] \in 0 .. NDATA - 1 /\ u = <<u[1], u[2]>>
    BY HeldPairsNext
  <2>2. v[1] \in Inode /\ v[2] \in 0 .. NDATA - 1 /\ v = <<v[1], v[2]>>
    BY HeldPairsNext
  <2>3. inode'[u[1]].block[u[2]] = inode'[v[1]].block[v[2]]
    BY <1>9 DEF Address
  <2> DEFINE Old(w) == <<w[1], w[2]>> \in Held
                         /\ inode'[w[1]].block[w[2]] = inode[w[1]].block[w[2]]
             New(w) == w[1] = i /\ w[2] \in new
  <2>4. (Old(u) \/ New(u)) /\ (Old(v) \/ New(v))
    BY <1>5, <2>1, <2>2
  <2>5. u[1] = v[1] /\ u[2] = v[2]
    <3>1. CASE New(u) /\ New(v)
      BY <1>1, <2>3, <3>1
    <3>2. CASE New(u) /\ Old(v)
      <4>1. ~dbit[inode'[u[1]].block[u[2]] - dataStart]
        BY <1>1, <3>2
      <4>2. dbit[inode'[v[1]].block[v[2]] - dataStart]
        BY <1>4, <2>2, <3>2
      <4> QED
        BY <2>3, <4>1, <4>2
    <3>3. CASE Old(u) /\ New(v)
      <4>1. dbit[inode'[u[1]].block[u[2]] - dataStart]
        BY <1>4, <2>1, <3>3
      <4>2. ~dbit[inode'[v[1]].block[v[2]] - dataStart]
        BY <1>1, <3>3
      <4> QED
        BY <2>3, <4>1, <4>2
    <3>4. CASE Old(u) /\ Old(v)
      <4>1. inode[u[1]].block[u[2]] = inode[v[1]].block[v[2]]
        BY <2>3, <3>4
      <4> QED
        BY <3>4, <4>1, OneUse DEF IInv
    <3> QED
      BY <2>4, <3>1, <3>2, <3>3, <3>4
  <2> QED
    BY <2>1, <2>2, <2>5
<1> QED
  BY <1>6, <1>7, <1>8, <1>9 DEF Placed

\* No block of another inode is written to, and none that is free.
LEMMA WritingStore ==
  ASSUME IInv, NEW i, NEW n, NEW last, Writing(i, n, last)
  PROVE  /\ \A j \in Inode, k \in 0 .. NDATA - 1, c \in Offset :
              j # i /\ <<j, k>> \in Held =>
                store'[inode[j].block[k]][c] = store[inode[j].block[k]][c]
         /\ \A b \in Area, c \in Offset : ~dbit'[b - dataStart] => store'[b][c] = store[b][c]
<1> DEFINE cur == inode[i].size \div BSIZE
           new == cur + 1 .. last
<1>1. /\ i \in Inode /\ last \in 0 .. NDATA - 1 /\ cur <= last
      /\ \A k \in 0 .. NDATA : k \notin new => inode'[i].block[k] = inode[i].block[k]
      /\ \A k \in new : ~dbit[inode'[i].block[k] - dataStart]
      /\ \A b \in Area : dbit'[b - dataStart] <=>
           (dbit[b - dataStart] \/ \E k \in new : inode'[i].block[k] = b)
  BY DEF Writing
<1>10. \A b \in Area, c \in Offset :
         (\A k \in cur .. last : inode'[i].block[k] # b) => store'[b][c] = store[b][c]
  <2>1. ASSUME NEW b \in Area, NEW c \in Offset
        PROVE  (\E k \in cur .. last : inode'[i].block[k] = b) \/ store'[b][c] = store[b][c]
    <3>1. Laid(i, n, last)
      BY DEF Writing
    <3> QED
      BY <3>1 DEF Laid
  <2> QED
    BY <2>1
<1>2. inode[i].size \in Nat /\ inode[i].size <= inode[i].size
  BY <1>1, Types1 DEF IInv
<1>3. cur \in Nat
  BY <1>2, DivOrder
<1>4. \A k \in cur .. last : k = cur \/ k \in new
  <2> HIDE DEF cur
  <2> QED
    BY <1>1, <1>3 DEF new
<1>5. \A j \in Inode, k \in 0 .. NDATA - 1 : <<j, k>> \in Held =>
        inode[j].block[k] \in Area /\ dbit[inode[j].block[k] - dataStart]
  BY DEF IInv, Placed, Address
<1>6. cur \in 0 .. NDATA - 1 /\ cur \in 0 .. NDATA /\ cur \notin new
  <2> HIDE DEF cur
  <2> QED
    BY <1>1, <1>3, FileAssumption DEF new
<1>7. inode[i].block[cur] \in Area => <<i, cur>> \in Held
  BY <1>1, <1>6, AreaFacts DEF Held
<1> HIDE DEF new, cur
<1>8. ASSUME NEW j \in Inode, NEW k \in 0 .. NDATA - 1, NEW c \in Offset,
             j # i, <<j, k>> \in Held
      PROVE  store'[inode[j].block[k]][c] = store[inode[j].block[k]][c]
  <2>1. inode[j].block[k] \in Area /\ dbit[inode[j].block[k] - dataStart]
    BY <1>5, <1>8
  <2>2. inode[i].block[cur] # inode[j].block[k]
    BY <1>7, <1>8, <2>1, OneUse DEF IInv
  <2>3. \A l \in cur .. last : inode'[i].block[l] # inode[j].block[k]
    BY <1>1, <1>4, <1>6, <2>1, <2>2
  <2> QED
    BY <1>10, <2>1, <2>3
<1>9. ASSUME NEW b \in Area, NEW c \in Offset, ~dbit'[b - dataStart]
      PROVE  store'[b][c] = store[b][c]
  <2>1. ~dbit[b - dataStart] /\ \A k \in new : inode'[i].block[k] # b
    BY <1>1, <1>9
  <2>2. inode[i].block[cur] # b
    BY <1>1, <1>5, <1>6, <1>7, <2>1
  <2>3. \A l \in cur .. last : inode'[i].block[l] # b
    BY <1>1, <1>4, <1>6, <2>1, <2>2
  <2> QED
    BY <1>10, <2>3
<1> QED
  BY <1>8, <1>9


\* No directory changes.
LEMMA WritingKeeps ==
  ASSUME IInv, NEW i, NEW n, NEW last, Writing(i, n, last)
  PROVE  /\ RootKept' /\ Unused' /\ Listed' /\ Linked' /\ CwdKept'
         /\ \A g \in Links' : g \in Links /\ ItemNext(g[1], g[2]) = Item(g[1], g[2])
         /\ \A g \in Links : g \in Links'
<1>1. /\ i \in Inode /\ inode[i].type = "I_FILE" /\ ibit' = ibit /\ cwd' = cwd
      /\ \A j \in Inode : j # i => inode'[j] = inode[j]
      /\ inode'[i].type = inode[i].type
      /\ inode'[i].block[0] = inode[i].block[0]
  <2>1. inode[i].size \div BSIZE \in Nat
    <3>1. inode[i].size \in Nat /\ inode[i].size <= inode[i].size
      BY Types1 DEF IInv, Writing
    <3> QED
      BY <3>1, DivOrder
  <2>2. 0 \in 0 .. NDATA /\ 0 \notin inode[i].size \div BSIZE + 1 .. last
    BY <2>1, FileAssumption
  <2> QED
    BY <2>2 DEF Writing
<1>2. i # cwd /\ i # Root /\ cwd \in Inode /\ Root \in Inode
  BY <1>1, NotDir, Room, AreaFacts
<1>3. RootKept' /\ CwdKept'
  BY <1>1, <1>2 DEF IInv, RootKept, CwdKept, IsDir
<1>4. Unused'
  <2>1. \A b \in Area, c \in Offset : ~dbit'[b - dataStart] => store'[b][c] = store[b][c]
    BY WritingStore
  <2>2. \A b \in Area : ~dbit'[b - dataStart] => ~dbit[b - dataStart]
    BY DEF Writing
  <2>3. \A b \in Area : ~dbit'[b - dataStart] => \A c \in Offset : store'[b][c] = Zero
    BY <2>1, <2>2 DEF IInv, Unused
  <2> QED
    BY <2>3 DEF Unused, Area, Offset, Zero
<1>5. \A d \in Inode : (IsDir(d)' <=> IsDir(d)) /\ (IsDir(d) => d # i /\ inode'[d] = inode[d])
  BY <1>1, NotDir DEF IsDir
<1>6. \A d \in Inode, c \in Offset : IsDir(d) /\ inode[d].block[0] # 0 =>
        ItemNext(d, c) = Item(d, c)
  <2>1. ASSUME NEW d \in Inode, NEW c \in Offset, IsDir(d), inode[d].block[0] # 0
        PROVE  ItemNext(d, c) = Item(d, c)
    <3>1. <<d, 0>> \in Held /\ 0 \in 0 .. NDATA - 1
      BY <2>1, First, FileAssumption DEF IInv
    <3>2. store'[inode[d].block[0]][c] = store[inode[d].block[0]][c]
      BY <1>5, <2>1, <3>1, WritingStore
    <3> QED
      BY <1>5, <2>1, <3>2 DEF Item, ItemNext
  <2> QED
    BY <2>1
<1>7. Listed'
  <2>1. ASSUME NEW d \in Inode, IsDir(d)'
        PROVE  /\ inode'[d].size < BSIZE
               /\ inode'[d].block[0] = 0 => inode'[d].size = 0
               /\ inode'[d].block[0] # 0 => \A c \in Offset :
                    \/ ItemNext(d, c) = Zero
                    \/ /\ c < inode'[d].size
                       /\ ItemNext(d, c).ino \in Inode /\ ItemNext(d, c).tag \in Names
    <3>1. IsDir(d)
      BY <1>5, <2>1
    <3>2. /\ inode[d].size < BSIZE
          /\ inode[d].block[0] = 0 => inode[d].size = 0
          /\ inode[d].block[0] # 0 => \A c \in Offset :
               \/ Item(d, c) = Zero
               \/ c < inode[d].size /\ Item(d, c).ino \in Inode /\ Item(d, c).tag \in Names
      BY <3>1 DEF IInv, Listed
    <3> QED
      BY <1>5, <1>6, <3>1, <3>2
  <2> QED
    BY <2>1 DEF Listed, Zero, Offset, Inode, Item, ItemNext
<1>8. \A g \in Links' : /\ g \in Links /\ Child1(g)' = Child1(g)
                         /\ ItemNext(g[1], g[2]) = Item(g[1], g[2])
  <2>1. ASSUME NEW g \in Links'
        PROVE  /\ g \in Links /\ Child1(g)' = Child1(g)
               /\ ItemNext(g[1], g[2]) = Item(g[1], g[2])
    <3>1. /\ g[1] \in Inode /\ g[2] \in Offset /\ g = <<g[1], g[2]>>
          /\ IsDir(g[1])' /\ g[2] < inode'[g[1]].size
          /\ ItemNext(g[1], g[2]).tag \in Names
          /\ Child1(g)' = ItemNext(g[1], g[2]).ino
      BY LinkPairsNext
    <3>2. IsDir(g[1]) /\ g[2] < inode[g[1]].size /\ ~(g[2] < 0)
      BY <1>5, <3>1 DEF Offset
    <3>3. inode[g[1]].block[0] # 0
      BY <3>1, <3>2 DEF IInv, Listed
    <3>4. ItemNext(g[1], g[2]) = Item(g[1], g[2])
      BY <1>6, <3>1, <3>2, <3>3
    <3>5. g \in Links
      BY <3>1, <3>2, <3>4 DEF Links
    <3> QED
      BY <3>1, <3>4, <3>5 DEF Child1
  <2> QED
    BY <2>1
<1>9. Linked'
  <2>1. \A g \in Links : /\ ibit[Child1(g)] /\ Child1(g) # Root /\ Child1(g) # g[1]
                         /\ inode[Child1(g)].type # "I_NONE"
                         /\ inode[Child1(g)].block[0] # 0 /\ Child1(g) \in Inode
    BY ChildInode DEF IInv, Linked
  <2>2. \A j \in Inode : /\ inode'[j].type = inode[j].type
                         /\ inode'[j].block[0] = inode[j].block[0]
    BY <1>1
  <2>3. \A g \in Links' :
          /\ ibit'[Child1(g)'] /\ Child1(g)' # Root /\ Child1(g)' # g[1]
          /\ inode'[Child1(g)'].type # "I_NONE" /\ inode'[Child1(g)'].block[0] # 0
    BY <1>1, <1>8, <2>1, <2>2
  <2>4. \A g, h \in Links' : Child1(g)' = Child1(h)' => g = h
    BY <1>8 DEF IInv, Linked
  <2> QED
    BY <2>3, <2>4 DEF Linked
<1>10. \A g \in Links : g \in Links'
  <2>1. ASSUME NEW g \in Links
        PROVE  g \in Links'
    <3>1. /\ g[1] \in Inode /\ g[2] \in Offset /\ IsDir(g[1])
          /\ g[2] < inode[g[1]].size /\ ~(g[2] < 0)
      BY LinkPairs DEF Offset
    <3>2. IsDir(g[1])' /\ g[2] < inode'[g[1]].size
      BY <1>5, <3>1
    <3>3. inode[g[1]].block[0] # 0
      BY <3>1 DEF IInv, Listed
    <3>4. ItemNext(g[1], g[2]) = Item(g[1], g[2])
      BY <1>6, <3>1, <3>3
    <3> QED
      BY <3>2, <3>4, LinkStays
  <2> QED
    BY <2>1
<1> QED
  BY <1>3, <1>4, <1>7, <1>8, <1>9, <1>10

\* The bytes written before are where they were, and the new ones follow them.
LEMMA WritingBytes ==
  ASSUME IInv, NEW i, NEW n, NEW last, Writing(i, n, last)
  PROVE  Bytes'
<1> DEFINE size == inode[i].size
           cur == size \div BSIZE
           B == BSIZE
<1>1. /\ i \in Inode /\ inode[i].type = "I_FILE" /\ n \in Nat \ {0}
      /\ last \in 0 .. NDATA - 1 /\ cur <= last /\ (size + n) \div B = last
      /\ \A j \in Inode : j # i => inode'[j] = inode[j]
      /\ inode'[i].type = inode[i].type /\ inode'[i].size = size + n
      /\ \A k \in 0 .. NDATA : k \notin cur + 1 .. last =>
           inode'[i].block[k] = inode[i].block[k]
      /\ Laid(i, n, last)
  BY DEF Writing
<1>2. B \in Nat \ {0} /\ NDATA \in Nat \ {0} /\ size \in Nat /\ size <= size
  BY <1>1, Types1, FileAssumption DEF IInv
<1>3. cur \in Nat
  BY <1>2, DivOrder
<1>4. \A j \in Inode, k \in 0 .. NDATA - 1, c \in Offset : j # i /\ <<j, k>> \in Held =>
        store'[inode[j].block[k]][c] = store[inode[j].block[k]][c]
  BY WritingStore
<1>5. ASSUME NEW j \in Inode, j # i, inode[j].type = "I_FILE", inode[j].block[0] # 0,
             NEW m \in 0 .. inode[j].size - 1
      PROVE  store'[inode[j].block[m \div B]][m % B] = [ino |-> j, tag |-> m]
  <2> DEFINE k == m \div B
  <2>1. m \in Nat /\ m <= inode[j].size /\ m % B \in Offset
    <3>1. inode[j].size \in Nat
      BY Types1 DEF IInv
    <3>2. m \in Nat /\ m <= inode[j].size
      BY <3>1
    <3>3. m % B \in 0 .. B - 1
      BY <1>2, <3>2, DivMod
    <3> QED
      BY <3>2, <3>3 DEF Offset
  <2>2. <<j, k>> \in Held
    BY <1>5, <2>1, Place DEF IInv
  <2>3. k \in 0 .. NDATA - 1
    <3> HIDE DEF k
    <3>1. <<j, k>> \in Inode \X (0 .. NDATA - 1)
      BY <2>2 DEF Held
    <3> QED
      BY <3>1
  <2>4. store'[inode[j].block[k]][m % B] = store[inode[j].block[k]][m % B]
    BY <1>4, <1>5, <2>1, <2>2, <2>3
  <2> QED
    BY <1>5, <2>4 DEF IInv, Bytes
<1>6. ASSUME inode'[i].block[0] # 0, NEW m \in 0 .. size + n - 1
      PROVE  store'[inode'[i].block[m \div B]][m % B] = [ino |-> i, tag |-> m]
  <2> DEFINE k == m \div B
             c == m % B
             b == inode'[i].block[k]
  <2>1. m \in Nat /\ size + n \in Nat /\ m <= size + n
    BY <1>1, <1>2
  <2>2. c \in 0 .. B - 1 /\ m = B * k + c
    BY <1>2, <2>1, DivMod
  <2>3. k \in Nat /\ k <= last
    BY <1>1, <2>1, DivOrder
  <2>4. inode[i].block[0] # 0
    <3>1. 0 \in 0 .. NDATA /\ 0 \notin cur + 1 .. last
      BY <1>2, <1>3
    <3> QED
      BY <1>1, <1>6, <3>1
  <2>5. \A l \in 0 .. last : <<i, l>> \in Held' /\ inode'[i].block[l] \in Area
    <3>1. Placed'
      BY WritingPlaced
    <3>2. ASSUME NEW l \in 0 .. last
          PROVE  <<i, l>> \in Held' /\ inode'[i].block[l] \in Area
      <4>1. l \in 0 .. NDATA - 1 /\ l <= inode'[i].size \div BSIZE
        BY <1>1, <1>2
      <4>2. inode'[i].block[l] # 0
        <5>1. l = 0 \/ l \in 1 .. last
          BY <1>1
        <5> QED
          BY <1>1, <1>6, <3>1, <5>1 DEF Placed
      <4>3. <<i, l>> \in Held'
        BY <1>1, <4>1, <4>2 DEF Held, Inode
      <4>4. Address(<<i, l>>)' = inode'[i].block[l]
        BY DEF Address
      <4>5. \A u \in Held' : Address(u)' \in Area
        BY <3>1 DEF Placed, Area
      <4> QED
        BY <4>3, <4>4, <4>5
    <3> QED
      BY <3>2
  <2>6. \A l \in 0 .. last : inode'[i].block[l] = b => l = k
    <3>1. Placed'
      BY WritingPlaced
    <3>2. \A u, v \in Held' : Address(u)' = Address(v)' => u = v
      BY <3>1 DEF Placed
    <3>3. ASSUME NEW l \in 0 .. last, inode'[i].block[l] = b
          PROVE  l = k
      <4> HIDE DEF k
      <4>1. <<i, l>> \in Held' /\ <<i, k>> \in Held'
        BY <2>3, <2>5, <1>1
      <4>2. Address(<<i, l>>)' = Address(<<i, k>>)'
        BY <3>3 DEF Address
      <4>3. <<i, l>> = <<i, k>>
        BY <3>2, <4>1, <4>2
      <4> QED
        BY <4>3
    <3> QED
      BY <3>3
  <2> HIDE DEF k, c, b, cur
  <2>7. b \in Area /\ c \in Offset /\ B * k = k * B /\ k * B \in Int
    <3>1. k \in 0 .. last
      BY <1>1, <2>3
    <3>2. b \in Area
      BY <2>5, <3>1 DEF b
    <3>3. B * k = k * B /\ k * B \in Int
      BY <1>2, <2>3
    <3> QED
      BY <2>2, <3>2, <3>3 DEF Offset
  <2>8. \/ \E l \in cur .. last :
             /\ inode'[i].block[l] = b /\ size <= l * B + c /\ l * B + c < size + n
             /\ store'[b][c] = [ino |-> i, tag |-> l * B + c]
        \/ /\ \A l \in cur .. last :
                ~(inode'[i].block[l] = b /\ size <= l * B + c /\ l * B + c < size + n)
           /\ store'[b][c] = store[b][c]
    BY <1>1, <2>7 DEF Laid, cur
  <2>9. cur .. last \subseteq 0 .. last
    BY <1>1, <1>3
  <2>10. CASE m >= size
    <3>1. size \div B <= m \div B
      BY <1>2, <2>1, <2>10, DivOrder
    <3>2. k \in cur .. last
      BY <1>1, <1>3, <2>3, <3>1 DEF cur, k
    <3>3. inode'[i].block[k] = b /\ size <= k * B + c /\ k * B + c < size + n
      BY <1>1, <1>2, <1>6, <2>1, <2>2, <2>7, <2>10 DEF b
    <3>4. PICK l \in cur .. last :
             /\ inode'[i].block[l] = b /\ size <= l * B + c /\ l * B + c < size + n
             /\ store'[b][c] = [ino |-> i, tag |-> l * B + c]
      BY <2>8, <3>2, <3>3
    <3>5. l = k
      BY <2>6, <2>9, <3>4
    <3>6. store'[b][c] = [ino |-> i, tag |-> m]
      BY <2>2, <2>7, <3>4, <3>5
    <3> QED
      BY <3>6 DEF b, c, k
  <2>11. CASE m < size
    <3>1. m \div B <= size \div B
      BY <1>2, <2>1, <2>11, DivOrder
    <3>2. k <= cur
      BY <3>1 DEF k, cur
    <3>3. ~(size <= k * B + c)
      BY <1>2, <2>1, <2>2, <2>7, <2>11
    <3>4. \A l \in cur .. last : inode'[i].block[l] = b => l = k
      BY <2>6, <2>9
    <3>5. store'[b][c] = store[b][c]
      BY <2>8, <3>3, <3>4
    <3>6. b = inode[i].block[k]
      <4>1. k \in 0 .. NDATA /\ k \notin cur + 1 .. last
        BY <1>1, <1>2, <1>3, <2>3, <3>2
      <4> QED
        BY <1>1, <4>1 DEF b, cur
    <3>7. m \in 0 .. inode[i].size - 1
      BY <1>2, <2>1, <2>11
    <3>8. store[inode[i].block[m \div B]][m % B] = [ino |-> i, tag |-> m]
      BY <1>1, <2>4, <3>7 DEF IInv, Bytes
    <3> QED
      BY <3>5, <3>6, <3>8 DEF b, c, k
  <2> QED
    BY <1>2, <2>1, <2>10, <2>11
<1>7. ASSUME NEW j \in Inode, inode'[j].type = "I_FILE", inode'[j].block[0] # 0,
             NEW m \in 0 .. inode'[j].size - 1
      PROVE  store'[inode'[j].block[m \div BSIZE]][m % BSIZE] = [ino |-> j, tag |-> m]
  <2>1. CASE j # i
    BY <1>1, <1>5, <1>7, <2>1
  <2>2. CASE j = i
    <3>0. inode'[j].size = size + n /\ inode'[i].block[0] # 0
      BY <1>1, <1>7, <2>2
    <3>1. m \in 0 .. size + n - 1 /\ inode'[i].block[0] # 0
      BY <1>1, <1>2, <1>7, <3>0
    <3>2. store'[inode'[i].block[m \div B]][m % B] = [ino |-> i, tag |-> m]
      BY <1>6, <3>1
    <3> QED
      BY <2>2, <3>2
  <2> QED
    BY <2>1, <2>2
<1> QED
  BY <1>7 DEF Bytes, Inode


------------------------------------------------------------------------------
(* The calls that leave the data area alone *)

\* Nothing depends on blocks outside of the data area.
LEMMA Untouched ==
  ASSUME IInv, UNCHANGED <<ibit, dbit, inode>>, \A b \in Area : store'[b] = store[b]
  PROVE  /\ RootKept' /\ Placed' /\ Unused' /\ Listed' /\ Linked' /\ Bytes'
         /\ \A g \in Links' : g \in Links /\ ItemNext(g[1], g[2]) = Item(g[1], g[2])
         /\ \A g \in Links : g \in Links'
<1>1. RootKept'
  BY DEF IInv, RootKept
<1>2. Placed'
  <2>1. Held' = Held /\ \A u : Address(u)' = Address(u)
    BY DEF Held, Address
  <2> QED
    BY <2>1 DEF IInv, Placed
<1>3. Unused'
  <2>1. \A b \in Area : ~dbit'[b - dataStart] => \A c \in Offset : store'[b][c] = Zero
    BY DEF IInv, Unused
  <2> QED
    BY <2>1 DEF Unused, Area, Offset, Zero
<1>4. \A d \in Inode : IsDir(d)' <=> IsDir(d)
  BY DEF IsDir
<1>5. \A d \in Inode, c \in Offset : inode[d].block[0] # 0 => ItemNext(d, c) = Item(d, c)
  <2>1. \A d \in Inode : inode[d].block[0] # 0 => inode[d].block[0] \in Area
    BY First DEF IInv
  <2> QED
    BY <2>1 DEF Item, ItemNext
<1>6. Listed'
  <2>1. ASSUME NEW d \in Inode, IsDir(d)'
        PROVE  /\ inode'[d].size < BSIZE
               /\ inode'[d].block[0] = 0 => inode'[d].size = 0
               /\ inode'[d].block[0] # 0 => \A c \in Offset :
                    \/ ItemNext(d, c) = Zero
                    \/ /\ c < inode'[d].size
                       /\ ItemNext(d, c).ino \in Inode /\ ItemNext(d, c).tag \in Names
    <3>1. IsDir(d)
      BY <1>4, <2>1
    <3>2. /\ inode[d].size < BSIZE
          /\ inode[d].block[0] = 0 => inode[d].size = 0
          /\ inode[d].block[0] # 0 => \A c \in Offset :
               \/ Item(d, c) = Zero
               \/ c < inode[d].size /\ Item(d, c).ino \in Inode /\ Item(d, c).tag \in Names
      BY <3>1 DEF IInv, Listed
    <3> QED
      BY <1>5, <3>2
  <2> QED
    BY <2>1 DEF Listed, Zero, Offset, Inode, Item, ItemNext
<1>7. \A g \in Links' : /\ g \in Links /\ Child1(g)' = Child1(g)
                         /\ ItemNext(g[1], g[2]) = Item(g[1], g[2])
  <2>1. ASSUME NEW g \in Links'
        PROVE  /\ g \in Links /\ Child1(g)' = Child1(g)
               /\ ItemNext(g[1], g[2]) = Item(g[1], g[2])
    <3>1. /\ g[1] \in Inode /\ g[2] \in Offset /\ g = <<g[1], g[2]>>
          /\ IsDir(g[1])' /\ g[2] < inode'[g[1]].size
          /\ ItemNext(g[1], g[2]).tag \in Names
          /\ Child1(g)' = ItemNext(g[1], g[2]).ino
      BY LinkPairsNext
    <3>2. IsDir(g[1]) /\ g[2] < inode[g[1]].size /\ ~(g[2] < 0)
      BY <1>4, <3>1 DEF Offset
    <3>3. inode[g[1]].block[0] # 0
      BY <3>1, <3>2 DEF IInv, Listed
    <3>4. ItemNext(g[1], g[2]) = Item(g[1], g[2])
      BY <1>5, <3>1, <3>3
    <3>5. g \in Links
      BY <3>1, <3>2, <3>4 DEF Links
    <3> QED
      BY <3>1, <3>4, <3>5 DEF Child1
  <2> QED
    BY <2>1
<1>8. Linked'
  <2>1. \A g \in Links : /\ ibit[Child1(g)] /\ Child1(g) # Root /\ Child1(g) # g[1]
                         /\ inode[Child1(g)].type # "I_NONE"
                         /\ inode[Child1(g)].block[0] # 0
    BY DEF IInv, Linked
  <2>2. \A g \in Links' :
          /\ ibit'[Child1(g)'] /\ Child1(g)' # Root /\ Child1(g)' # g[1]
          /\ inode'[Child1(g)'].type # "I_NONE" /\ inode'[Child1(g)'].block[0] # 0
    BY <1>7, <2>1
  <2>3. \A g, h \in Links' : Child1(g)' = Child1(h)' => g = h
    BY <1>7 DEF IInv, Linked
  <2> QED
    BY <2>2, <2>3 DEF Linked
<1>9. Bytes'
  <2>1. ASSUME NEW j \in Inode, inode[j].type = "I_FILE", inode[j].block[0] # 0,
               NEW n \in 0 .. inode[j].size - 1
        PROVE  store'[inode[j].block[n \div BSIZE]][n % BSIZE] = [ino |-> j, tag |-> n]
    <3>1. n \in Nat /\ n <= inode[j].size
      BY Types1 DEF IInv
    <3>2. inode[j].block[n \div BSIZE] \in Area
      BY <2>1, <3>1, Place DEF IInv
    <3> QED
      BY <2>1, <3>2 DEF IInv, Bytes
  <2> QED
    BY <2>1 DEF Bytes, Inode
<1>10. \A g \in Links : g \in Links'
  <2>1. ASSUME NEW g \in Links
        PROVE  g \in Links'
    <3>1. /\ g[1] \in Inode /\ g[2] \in Offset /\ IsDir(g[1])
          /\ g[2] < inode[g[1]].size /\ ~(g[2] < 0)
      BY LinkPairs DEF Offset
    <3>2. IsDir(g[1])' /\ g[2] < inode'[g[1]].size
      BY <1>4, <3>1
    <3>3. inode[g[1]].block[0] # 0
      BY <3>1 DEF IInv, Listed
    <3>4. ItemNext(g[1], g[2]) = Item(g[1], g[2])
      BY <1>5, <3>1, <3>3
    <3> QED
      BY <3>2, <3>4, LinkStays
  <2> QED
    BY <2>1
<1> QED
  BY <1>1, <1>2, <1>3, <1>6, <1>8, <1>7, <1>9, <1>10

\* What namei finds from a complete directory is complete: terms follow the
\* entries of directories, and in a file none is found.
LEMMA Complete ==
  ASSUME IInv, NEW start \in {Root, cwd}, NEW i \in namei(start)
  PROVE  i \in Inode /\ ibit[i] /\ inode[i].block[0] # 0 /\ (i = Root \/ inode[i].type # "I_NONE")
<1> DEFINE D == {d \in Inode : ibit[d] /\ inode[d].block[0] # 0 /\
                                 (d = Root \/ inode[d].type # "I_NONE")}
           below == [d \in Inode |-> {Child(d, name) : name \in Names}]
<1>1. start \in D
  BY Room, AreaFacts DEF IInv, RootKept, CwdKept, IsDir
<1>2. ASSUME NEW d \in D, NEW name \in Names
      PROVE  Child(d, name) \in D
  <2> DEFINE S == Places(d, name)
             p == Min(S)
  <2>1. d \in Inode /\ inode[d].size \in Nat /\ ibit[d] /\ inode[d].block[0] # 0
    BY Types1 DEF IInv
  <2>2. CASE S = {}
    BY <2>2 DEF Child
  <2>3. CASE S # {}
    <3>1. S \in SUBSET Nat
      BY <2>1 DEF Places
    <3>2. p \in S
      BY <2>3, <3>1, MinPlace
    <3>3. Child(d, name) = Entry(d, p).ino
      BY <2>3 DEF Child
    <3> HIDE DEF p, S
    <3>4. p \in 0 .. inode[d].size - 1 /\ p \in Nat /\ p < inode[d].size /\ Entry(d, p).tag = name
      BY <2>1, <3>2 DEF S, Places
    <3>5. CASE inode[d].type = "I_FILE"
      <4>1. Entry(d, p) = [ino |-> d, tag |-> p]
        BY <2>1, <3>4, <3>5 DEF IInv, Bytes, Entry
      <4>2. name = p
        BY <3>4, <4>1
      <4> QED
        BY <3>4, <4>2, NamesAssumption
    <3>6. CASE inode[d].type # "I_FILE"
      <4>1. IsDir(d)
        <5>1. inode[d].type \in Types /\ (d = Root \/ inode[d].type # "I_NONE")
          BY <2>1, Types1 DEF IInv
        <5> QED
          BY <2>1, <3>6, <5>1 DEF IsDir, Types
      <4>2. inode[d].size < BSIZE
        BY <2>1, <4>1 DEF IInv, Listed
      <4>3. p \in 0 .. BSIZE - 1
        BY <2>1, <3>4, <4>2, FileAssumption
      <4>4. Entry(d, p) = Item(d, p)
        BY <4>3, Small DEF Entry, Item
      <4>5. <<d, p>> \in Links
        BY <2>1, <3>4, <4>1, <4>3, <4>4 DEF Links, Offset
      <4>6. Child(d, name) = Child1(<<d, p>>)
        BY <3>3, <4>4 DEF Child1
      <4>7. Child1(<<d, p>>) \in Inode
        BY <4>5, ChildInode
      <4> QED
        BY <4>5, <4>6, <4>7 DEF IInv, Linked
    <3> QED
      BY <3>5, <3>6
  <2> QED
    BY <2>2, <2>3
<1>3. D \in SUBSET Inode
  OBVIOUS
<1> HIDE DEF D
<1>4. \A d \in D : below[d] \subseteq D
  BY <1>2, <1>3
<1>5. i \in D
  BY <1>1, <1>3, <1>4 DEF namei
<1> QED
  BY <1>5 DEF D


------------------------------------------------------------------------------
(* The induction *)

\* The descriptors.
TablesOK == fds \in [Fd -> [ino : Inode \cup {None}, off : Nat]] /\ max_fd \in 0 .. NOPENFILE

LEMMA InitIInv == Init => IInv
<1> SUFFICES ASSUME Init PROVE IInv
  OBVIOUS
<1> USE FileAssumption, LayoutAssumption
<1>1. /\ \A i \in Inode : /\ inode[i].type = "I_NONE" /\ inode[i].size = 0
                          /\ \A k \in 0 .. NDATA :
                               inode[i].block[k] = IF k = 0 /\ i = Root THEN dataStart ELSE 0
      /\ inode \in [Inode -> Dinode]
  <2>1. 0 \in 0 .. NDATA /\ 0 \in 0 .. NDATA * BSIZE /\ 0 \in Block /\ dataStart \in Block
    BY SizeFits, AreaFacts DEF Area, Block
  <2> DEFINE X(i) == [Blank("I_NONE") EXCEPT !.block[0] = IF i = Root THEN dataStart ELSE 0]
  <2>2. inode = [i \in Inode |-> X(i)]
    BY DEF Init
  <2>3. ASSUME NEW i \in Inode
        PROVE  /\ X(i).type = "I_NONE" /\ X(i).size = 0 /\ X(i) \in Dinode
               /\ \A k \in 0 .. NDATA :
                    X(i).block[k] = IF k = 0 /\ i = Root THEN dataStart ELSE 0
    BY <2>1 DEF Blank, Dinode, Types
  <2> HIDE DEF X
  <2> QED
    BY <2>2, <2>3
<1>2. \A i \in Inode : ibit[i] <=> i = Root
  BY DEF Init
<1>3. 0 \div BSIZE = 0 /\ 0 \in 0 .. NDATA /\ Root \in Inode /\ dataStart # 0 /\ dataStart \in Area
  BY Small DEF Area, Inode
<1>4. TypeOK
  <2>1. ibit \in [Inode -> BOOLEAN] /\ dbit \in [0 .. nDataBlock -> BOOLEAN]
    BY DEF Init
  <2>2. DOMAIN store = Block /\ \A b \in Block : DOMAIN store[b] = Offset
    BY DEF Init
  <2>3. fds \in [Fd -> [ino : Inode \cup {None}, off : Nat]] /\ max_fd \in 0 .. NOPENFILE
    BY BoundsAssumption DEF Init, Closed
  <2>4. cwd \in Inode
    BY <1>3 DEF Init
  <2> QED
    BY <1>1, <2>1, <2>2, <2>3, <2>4 DEF TypeOK, DiskTypeOK, Dinode
<1>5. RootKept
  BY <1>1, <1>2, <1>3 DEF RootKept
<1>6. \A u \in Held : u = <<Root, 0>> /\ Address(u) = dataStart
  <2>1. \A u \in Held : u[1] \in Inode /\ u[2] \in 0 .. NDATA - 1 /\ u = <<u[1], u[2]>>
    BY HeldPairs
  <2>2. \A u \in Held : u[2] <= 0 /\ inode[u[1]].block[u[2]] # 0
    BY <1>1, <1>3, <2>1 DEF Held
  <2>3. \A u \in Held : u[2] = 0 /\ u[1] = Root
    BY <1>1, <1>3, <2>1, <2>2
  <2>4. \A u \in Held : u = <<Root, 0>>
    BY <2>1, <2>3
  <2> QED
    BY <1>1, <1>3, <2>3, <2>4 DEF Address
<1>7. Placed
  <2>1. \A i \in Inode : inode[i].size \div BSIZE = 0
    BY <1>1, <1>3
  <2>2. dbit[dataStart - dataStart]
    <3>1. dataStart - dataStart = 0 /\ 0 \in 0 .. nDataBlock
      OBVIOUS
    <3>2. dbit[0]
      BY <3>1 DEF Init
    <3> QED
      BY <3>1, <3>2
  <2> QED
    BY <1>3, <1>6, <2>1, <2>2 DEF Placed
<1>8. \A b \in Block, c \in Offset : store[b][c] = Zero
  BY DEF Init
<1>9. Unused
  BY <1>8, AreaFacts DEF Unused
<1>10. Listed
  <2>1. ASSUME NEW d \in Inode, IsDir(d)
        PROVE  /\ inode[d].size < BSIZE
               /\ inode[d].block[0] = 0 => inode[d].size = 0
               /\ inode[d].block[0] # 0 => \A c \in Offset : Item(d, c) = Zero
    <3>1. d = Root
      BY <1>2, <2>1 DEF IsDir
    <3>2. inode[d].block[0] \in Block
      BY <1>1, <1>3, <3>1, AreaFacts
    <3> QED
      BY <1>1, <1>8, <3>2 DEF Item
  <2> QED
    BY <2>1 DEF Listed
<1>11. Linked
  <2>1. Links = {}
    <3>1. ASSUME NEW e \in Links PROVE FALSE
      <4>1. e[1] \in Inode /\ e[2] \in Offset /\ e[2] < inode[e[1]].size
        BY LinkPairs
      <4>2. inode[e[1]].size = 0 /\ e[2] \in Nat
        BY <1>1, <4>1 DEF Offset
      <4> QED
        BY <4>1, <4>2
    <3> QED
      BY <3>1
  <2> QED
    BY <2>1 DEF Linked
<1>12. CwdKept
  <2>1. cwd = Root
    BY DEF Init
  <2>2. ibit[Root] /\ inode[Root].block[0] = dataStart
    BY <1>1, <1>2, <1>3
  <2> QED
    BY <1>3, <2>1, <2>2 DEF CwdKept, IsDir
<1>13. Bytes
  BY <1>1 DEF Bytes
<1> QED
  BY <1>4, <1>5, <1>7, <1>9, <1>10, <1>11, <1>12, <1>13 DEF IInv

\* The larger of two numbers.
LEMMA MaxTwo ==
  ASSUME NEW x \in Int, NEW y \in Int
  PROVE  Max({x, y}) \in {x, y}
<1>1. CASE x >= y
  BY <1>1 DEF Max
<1>2. CASE y >= x
  BY <1>2 DEF Max
<1> QED
  BY <1>1, <1>2

\* The descriptors stay in the table.
LEMMA TablesNext ==
  ASSUME IInv, [Next]_vars
  PROVE  TablesOK'
<1> USE BoundsAssumption
<1>1. fds \in [Fd -> [ino : Inode \cup {None}, off : Nat]] /\ max_fd \in 0 .. NOPENFILE
      /\ NOPENFILE \in Nat
  BY DEF IInv, TypeOK
<1>2. OpenSlot \in Fd /\ OpenSlot \in 0 .. NOPENFILE /\ Max({max_fd, OpenSlot}) \in 0 .. NOPENFILE
  <2>1. OpenSlot \in Nat /\ OpenSlot < NOPENFILE
    BY DEF OpenSlot
  <2>2. max_fd \in Int
    BY <1>1
  <2>3. Max({max_fd, OpenSlot}) \in {max_fd, OpenSlot}
    BY <2>1, <2>2, MaxTwo
  <2> QED
    BY <1>1, <2>1, <2>3 DEF Fd
<1>3. Closed \in [ino : Inode \cup {None}, off : Nat]
  BY DEF Closed
<1>4. CASE UNCHANGED open_files
  BY <1>1, <1>4 DEF open_files, TablesOK, Fd, Inode
<1>5. CASE creat
  <2>1. PICK i \in Inode : /\ max_fd < NOPENFILE /\ max_fd' = max_fd + 1
                           /\ fds' = [fds EXCEPT ![max_fd] = [ino |-> i, off |-> 0]]
    BY <1>5 DEF creat
  <2> QED
    BY <1>1, <2>1 DEF TablesOK, Fd, Inode
<1>6. CASE open
  <2>1. PICK start \in {Root, cwd} : \E i \in namei(start) :
               fds' = [fds EXCEPT ![OpenSlot] = [ino |-> i, off |-> 0]]
    BY <1>6 DEF open
  <2>2. PICK i \in namei(start) : fds' = [fds EXCEPT ![OpenSlot] = [ino |-> i, off |-> 0]]
    BY <2>1
  <2>3. i \in Inode
    BY DEF namei
  <2>4. max_fd' = Max({max_fd, OpenSlot})
    BY <1>6 DEF open
  <2> QED
    BY <1>1, <1>2, <2>2, <2>3, <2>4 DEF TablesOK, Fd, Inode
<1>7. CASE close
  BY <1>1, <1>3, <1>7 DEF close, TablesOK, Fd, Inode
<1>8. CASE cat
  BY <1>1, <1>2, <1>3, <1>8 DEF cat, TablesOK, Fd, Inode
<1>9. CASE read
  <2>1. PICK f \in Fd, n \in 1 .. MaxSize : fds' = [fds EXCEPT ![f].off = @ + n]
    BY <1>9 DEF read
  <2>2. max_fd' = max_fd
    BY <1>9 DEF read
  <2> DEFINE x == [fds[f] EXCEPT !.off = fds[f].off + n]
  <2>3. fds' = [fds EXCEPT ![f] = x]
    BY <2>1
  <2>4. x \in [ino : Inode \cup {None}, off : Nat]
    <3>1. fds[f] \in [ino : Inode \cup {None}, off : Nat]
      BY <1>1
    <3>2. fds[f].off + n \in Nat
      BY <3>1
    <3> QED
      BY <3>1, <3>2
  <2> HIDE DEF x
  <2> QED
    BY <1>1, <2>2, <2>3, <2>4 DEF TablesOK, Fd, Inode
<1> QED
  BY <1>4, <1>5, <1>6, <1>7, <1>8, <1>9
  DEF Next, vars, mk, creatFails, mkFails, MakeFails, AllocInodeFails, rm, cd, write, open_files


\* What the steps have to keep, without the descriptors.
DiskKept == /\ DiskTypeOK /\ cwd \in Inode
            /\ RootKept /\ Placed /\ Unused /\ Listed /\ Linked /\ CwdKept /\ Bytes

LEMMA CreatedKeeps ==
  ASSUME IInv, NEW i, NEW type, NEW name, NEW a, Created(i, type, name, a),
         DiskTypeOK', cwd' \in Inode
  PROVE  DiskKept'
<1>1. RootKept' /\ CwdKept' /\ Placed' /\ Unused'
  BY CreatedKept, CreatedPlaced, CreatedUnused
<1>2. Listed' /\ Linked' /\ Bytes'
  BY CreatedListed, CreatedLinked, CreatedBytes
<1> QED
  BY <1>1, <1>2 DEF DiskKept, Inode

LEMMA DiskStep ==
  ASSUME IInv, Careful, [Next]_vars
  PROVE  DiskKept'
<1>1. cwd \in Inode /\ DiskTypeOK
  BY DEF IInv, TypeOK
<1>2. ASSUME NEW type \in {"I_FILE", "I_DIR"}, NEW i \in Inode, NEW name \in Names,
             Make(i, type, name)
      PROVE  DiskKept'
  <2>1. DiskTypeOK' /\ cwd' \in Inode
    BY <1>2, MakeTyped
  <2>2. Created(i, type, name, DataAddr(0))
    BY <1>2, MakeCreates
  <2> QED
    BY <2>1, <2>2, CreatedKeeps
<1>3. ASSUME NEW type \in {"I_FILE", "I_DIR"}, MakeFails(type)
      PROVE  DiskKept'
  <2>1. DiskTypeOK' /\ cwd' \in Inode
    BY <1>3, MakeFailsTyped
  <2>2. PICK i \in Inode : Created(i, type, i, 0)
    BY <1>3, MakeFailsCreates
  <2> QED
    BY <2>1, <2>2, CreatedKeeps
<1>4. CASE creat
  <2>1. PICK i \in Inode, name \in Names : Make(i, "I_FILE", name)
    BY <1>4 DEF creat
  <2> QED
    BY <1>2, <2>1
<1>5. CASE mk
  <2>1. PICK i \in Inode, name \in Names : Make(i, "I_DIR", name)
    BY <1>5 DEF mk
  <2> QED
    BY <1>2, <2>1
<1>6. CASE creatFails \/ mkFails
  BY <1>3, <1>6 DEF creatFails, mkFails
<1>7. CASE AllocInodeFails
  <2>1. UNCHANGED <<ibit, dbit, inode, cwd>> /\ store' \in Stray
    BY <1>7 DEF AllocInodeFails
  <2>2. /\ DOMAIN store' = Block /\ \A b \in Block : DOMAIN store'[b] = Offset
        /\ \A b \in Area : store'[b] = store[b]
    BY <2>1, StrayMisses DEF IInv
  <2>3. DiskTypeOK'
    BY <1>1, <2>1, <2>2 DEF DiskTypeOK
  <2>4. RootKept' /\ Placed' /\ Unused' /\ Listed' /\ Linked' /\ Bytes'
    BY <2>1, <2>2, Untouched
  <2>5. CwdKept'
    BY <2>1 DEF IInv, CwdKept, IsDir
  <2> QED
    BY <1>1, <2>1, <2>3, <2>4, <2>5 DEF DiskKept, Inode
<1>8. CASE rm
  <2>1. DiskTypeOK'
    BY <1>8, RmRemoves
  <2>2. PICK e \in Links : Removing(e)
    BY <1>8, RmRemoves
  <2>3. RootKept' /\ Placed' /\ Unused' /\ Listed' /\ Linked' /\ CwdKept' /\ Bytes'
    BY <2>2, RemovingKeeps
  <2>4. cwd' = cwd
    BY <2>2 DEF Removing
  <2> QED
    BY <1>1, <2>1, <2>3, <2>4 DEF DiskKept, Inode
<1>9. ASSUME UNCHANGED disk
      PROVE  DiskTypeOK' /\ RootKept' /\ Placed' /\ Unused' /\ Listed' /\ Linked' /\ Bytes'
             /\ UNCHANGED <<ibit, inode>>
  <2>1. UNCHANGED <<ibit, dbit, inode, store>>
    BY <1>9 DEF disk
  <2>2. DiskTypeOK'
    BY <1>1, <2>1 DEF DiskTypeOK
  <2> QED
    BY <2>1, <2>2, Untouched
<1>10. CASE cd
  <2>1. PICK start \in {Root, cwd} : \E i \in namei(start) : inode[i].type = "I_DIR" /\ cwd' = i
    BY <1>10 DEF cd
  <2>2. PICK i \in namei(start) : inode[i].type = "I_DIR" /\ cwd' = i
    BY <2>1
  <2>3. i \in Inode /\ ibit[i] /\ inode[i].block[0] # 0
    BY Complete
  <2>4. UNCHANGED disk
    BY <1>10 DEF cd
  <2>5. CwdKept' /\ cwd' \in Inode
    BY <1>9, <2>2, <2>3, <2>4 DEF CwdKept, IsDir
  <2> QED
    BY <1>9, <2>4, <2>5 DEF DiskKept, Inode
<1>11. CASE open \/ close \/ cat \/ read \/ UNCHANGED vars
  <2>1. UNCHANGED disk /\ cwd' = cwd
    BY <1>11 DEF open, close, cat, read, vars
  <2>2. CwdKept'
    BY <1>9, <2>1 DEF IInv, CwdKept, IsDir
  <2> QED
    BY <1>1, <1>9, <2>1, <2>2 DEF DiskKept, Inode
<1>12. CASE write
  <2>1. PICK f \in Fd, n \in 1 .. MaxSize :
          /\ fds[f].ino # None /\ inode[fds[f].ino].type = "I_FILE"
          /\ WriteTo(fds[f].ino, n)
    BY <1>12 DEF write
  <2> DEFINE i == fds[f].ino
  <2>2. i \in Inode /\ n \in Nat \ {0}
    BY <2>1 DEF IInv, TypeOK
  <2>3. UNCHANGED <<ibit, cwd>>
    BY <1>12 DEF write
  <2> HIDE DEF i
  <2>4. inode[i].type = "I_FILE" /\ WriteTo(i, n)
    BY <2>1 DEF i
  <2>5. DiskTypeOK'
    BY <2>2, <2>3, <2>4, WriteWrites
  <2>6. PICK last \in Nat : Writing(i, n, last)
    BY <2>2, <2>3, <2>4, WriteWrites
  <2>7. Placed' /\ Bytes'
    BY <2>6, WritingPlaced, WritingBytes
  <2>8. RootKept' /\ Unused' /\ Listed' /\ Linked' /\ CwdKept'
    BY <2>6, WritingKeeps
  <2> QED
    BY <1>1, <2>3, <2>5, <2>7, <2>8 DEF DiskKept, Inode
<1> QED
  BY <1>4, <1>5, <1>6, <1>7, <1>8, <1>10, <1>11, <1>12 DEF Next

LEMMA StepIInv == IInv /\ Careful /\ [Next]_vars => IInv'
<1> SUFFICES ASSUME IInv, Careful, [Next]_vars PROVE IInv'
  OBVIOUS
<1>1. DiskKept' /\ TablesOK'
  BY DiskStep, TablesNext
<1> QED
  BY <1>1 DEF DiskKept, TablesOK, IInv, TypeOK, Fd, Inode

LEMMA Invariant ==
  ASSUME Careful
  PROVE  Spec => []IInv
BY InitIInv, StepIInv, PTL DEF Spec

\* The types (Files, all calls).
THEOREM TypeCorrect ==
  ASSUME Careful
  PROVE  Spec => []TypeOK
<1>1. IInv => TypeOK
  BY DEF IInv
<1> QED
  BY <1>1, Invariant, PTL

\* Every entry of a directory names an allocated inode of its own, whatever is
\* created, removed and created again (creat, mk, rm).
THEOREM TreeCorrect ==
  ASSUME Careful
  PROVE  Spec => []Tree
<1>1. IInv => Tree
  <2> SUFFICES ASSUME IInv PROVE Tree
    OBVIOUS
  <2>1. EntriesAreLinks
    BY EntriesLinks DEF IInv
  <2>2. \A e \in Entries : e \in Links /\ Entry(e[1], e[2]).ino = Child1(e)
    BY <2>1 DEF EntriesAreLinks, Child1
  <2> QED
    BY <2>2 DEF IInv, Linked, Tree
<1> QED
  BY <1>1, Invariant, PTL


------------------------------------------------------------------------------
(* What read returns *)

\* The pieces follow each other, within blocks, and their lengths add up.
LEMMA CutSums ==
  ASSUME NEW off \in Offset, NEW n \in Nat
  PROVE  LET P == Pieces(off, n) IN
         /\ P \in Nat
         /\ \A j \in 0 .. P : /\ From(off, j) \in Nat /\ PieceLen(off, n, j) \in Nat
                              /\ At(off, j) \in Nat /\ At(off, j) + PieceLen(off, n, j) <= BSIZE
         /\ From(off, 0) = 0
         /\ \A j \in 0 .. P - 1 : From(off, j) + PieceLen(off, n, j) = From(off, j + 1)
         /\ From(off, P) + PieceLen(off, n, P) = n
<1> DEFINE B == BSIZE
           m == n - (B - off)
           q == m \div B
           r == m % B
           P == Pieces(off, n)
<1>1. B \in Nat \ {0} /\ off \in 0 .. B - 1
  BY FileAssumption DEF Offset
<1>2. m \in Int /\ q \in Int /\ r \in 0 .. B - 1 /\ m = B * q + r
  BY <1>1, DivMod
<1>3. CASE n <= B - off
  <2>1. P = 0
    BY <1>1, <1>3 DEF Pieces
  <2>2. From(off, 0) = 0 /\ At(off, 0) = off /\ PieceLen(off, n, 0) = n
    BY <1>1, <1>3 DEF From, At, PieceLen
  <2>3. \A j \in 0 .. P : j = 0
    BY <2>1
  <2>4. off + n <= B /\ off \in Nat
    BY <1>1, <1>3
  <2> QED
    BY <2>1, <2>2, <2>3, <2>4
<1>4. CASE n > B - off
  <2>1. m \in Nat /\ m > 0
    BY <1>1, <1>4
  <2>2. q \in Nat
    BY <1>1, <2>1, SMT
  <2>3. P = q + 1
    BY <1>4 DEF Pieces
  <2> HIDE DEF q, r, P
  <2>4. From(off, 0) = 0 /\ At(off, 0) = off /\ PieceLen(off, n, 0) = B - off
    BY <1>4 DEF From, At, PieceLen
  <2>5. \A j \in 1 .. P : From(off, j) = B - off + (j - 1) * B /\ At(off, j) = 0
    BY DEF From, At
  <2>6. \A j \in 1 .. P - 1 : PieceLen(off, n, j) = B
    BY <2>2, <2>3 DEF PieceLen, P
  <2>7. PieceLen(off, n, P) = r
    BY <2>2, <2>3 DEF PieceLen, P, r
  <2>8. ASSUME NEW j \in 0 .. P
        PROVE  /\ From(off, j) \in Nat /\ PieceLen(off, n, j) \in Nat
               /\ At(off, j) \in Nat /\ At(off, j) + PieceLen(off, n, j) <= B
    <3>1. CASE j = 0
      BY <1>1, <2>4, <3>1
    <3>2. CASE j # 0
      <4>1. (j - 1) * B \in Nat
        BY <1>1, <2>2, <2>3, <3>2, SMT
      <4>2. From(off, j) \in Nat
        BY <1>1, <2>2, <2>3, <2>5, <3>2, <4>1
      <4>3. j \in 1 .. P - 1 \/ j = P
        BY <2>2, <2>3, <3>2
      <4>4. PieceLen(off, n, j) \in Nat /\ PieceLen(off, n, j) <= B
        BY <1>1, <1>2, <2>6, <2>7, <4>3
      <4>5. At(off, j) = 0
        BY <2>2, <2>3, <2>5, <3>2
      <4> QED
        BY <1>1, <4>2, <4>4, <4>5
    <3> QED
      BY <3>1, <3>2
  <2>9. ASSUME NEW j \in 0 .. P - 1
        PROVE  From(off, j) + PieceLen(off, n, j) = From(off, j + 1)
    <3>1. From(off, j + 1) = B - off + j * B
      BY <2>2, <2>3, <2>5
    <3>2. CASE j = 0
      BY <1>1, <2>4, <3>1, <3>2
    <3>3. CASE j # 0
      <4>1. From(off, j) = B - off + (j - 1) * B /\ PieceLen(off, n, j) = B
        BY <2>2, <2>3, <2>5, <2>6, <3>3
      <4>2. (j - 1) * B + B = j * B /\ (j - 1) * B \in Int /\ j * B \in Int
        BY <1>1, <2>2, <2>3
      <4> QED
        BY <1>1, <3>1, <4>1, <4>2
    <3> QED
      BY <3>2, <3>3
  <2>10. From(off, P) + PieceLen(off, n, P) = n
    <3>1. From(off, P) = B - off + q * B
      BY <2>2, <2>3, <2>5
    <3>2. q * B = B * q /\ q * B \in Int
      BY <1>1, <2>2
    <3> QED
      BY <1>1, <1>2, <2>7, <3>1, <3>2
  <2> QED
    BY <2>2, <2>3, <2>4, <2>8, <2>9, <2>10 DEF P
<1> QED
  BY <1>1, <1>3, <1>4

\* Two parts of a function, one after the other.
LEMMA Concat ==
  ASSUME NEW F, NEW x \in Nat, NEW y \in Nat
  PROVE  [k \in 1 .. x |-> F[k]] \o [k \in 1 .. y |-> F[x + k]] = [k \in 1 .. x + y |-> F[k]]
OBVIOUS

\* W[j] is the first j of m sequences, joined.
Joined(seqs, W, m) ==
  /\ m \in Nat \ {0} /\ Len(seqs) = m /\ W = [j \in 1 .. m |-> W[j]]
  /\ W[1] = seqs[1] /\ \A j \in 2 .. m : W[j] = W[j - 1] \o seqs[j]

\* FlattenSeq joins what it is given, one after the other.
LEMMA Flatten ==
  ASSUME NEW seqs, NEW W, NEW m, Joined(seqs, W, m)
  PROVE  FlattenSeq(seqs) = W[m]
<1>0. /\ m \in Nat \ {0} /\ Len(seqs) = m
      /\ W[1] = seqs[1] /\ \A j \in 2 .. m : W[j] = W[j - 1] \o seqs[j]
  BY DEF Joined
<1> DEFINE Joins(f) == f = [i \in 1 .. Len(seqs) |-> IF i = 1 THEN seqs[i]
                                                            ELSE f[i - 1] \o seqs[i]]
           g == CHOOSE f : Joins(f)
<1>1. FlattenSeq(seqs) = g[m]
  BY <1>0 DEF FlattenSeq
<1>2. Joins(W)
  <2>1. \A i \in 1 .. m : W[i] = IF i = 1 THEN seqs[i] ELSE W[i - 1] \o seqs[i]
    <3>1. \A i \in 1 .. m : i = 1 \/ i \in 2 .. m
      BY <1>0
    <3> QED
      BY <1>0, <3>1
  <2>2. W = [i \in 1 .. m |-> W[i]]
    BY DEF Joined
  <2>3. [i \in 1 .. m |-> W[i]]
          = [i \in 1 .. m |-> IF i = 1 THEN seqs[i] ELSE W[i - 1] \o seqs[i]]
    BY <2>1
  <2> QED
    BY <1>0, <2>2, <2>3
<1>3. Joins(g)
  BY <1>2
<1>4. \A i \in 1 .. m : g[i] = IF i = 1 THEN seqs[i] ELSE g[i - 1] \o seqs[i]
  BY <1>0, <1>3
<1> HIDE DEF g
<1> DEFINE S == {i \in 1 .. m : g[i] # W[i]}
<1>5. S = {}
  <2>1. ASSUME S # {}
        PROVE  FALSE
    <3>1. S \in SUBSET Nat
      BY <1>0
    <3>2. PICK i \in S : \A j \in S : i <= j
      BY <2>1, <3>1, LeastNat
    <3>3. i \in 1 .. m /\ g[i] # W[i]
      BY <3>2
    <3>4. i # 1
      BY <1>0, <1>4, <3>3
    <3>5. i \in 2 .. m /\ i - 1 \in 1 .. m /\ ~(i <= i - 1)
      BY <1>0, <3>3, <3>4
    <3>6. g[i - 1] = W[i - 1]
      BY <3>2, <3>5
    <3>7. g[i] = g[i - 1] \o seqs[i]
      BY <1>4, <3>3, <3>4
    <3>8. W[i] = W[i - 1] \o seqs[i]
      BY <1>0, <3>5
    <3> QED
      BY <3>3, <3>6, <3>7, <3>8
  <2> QED
    BY <2>1
<1> QED
  BY <1>0, <1>1, <1>5


\* Whatever part of a file read cuts out, it is what was written.
LEMMA ContentsOf ==
  ASSUME IInv, NEW i \in Inode, inode[i].type = "I_FILE", inode[i].block[0] # 0,
         NEW start \in Nat, NEW n \in Nat, start + n <= inode[i].size
  PROVE  Contents(i, start, n) = [k \in 1 .. n |-> [ino |-> i, tag |-> start + k - 1]]
<1> DEFINE B == BSIZE
           cur == start \div B
           off == start % B
           P == Pieces(off, n)
           L(j) == PieceLen(off, n, j)
           F == [k \in 1 .. n |-> [ino |-> i, tag |-> start + k - 1]]
           Piece(j) == [c \in 1 .. L(j) |-> store[inode[i].block[cur + j]][At(off, j) + c - 1]]
           seqs == [j \in 1 .. P + 1 |-> Piece(j - 1)]
           W == [j \in 1 .. P + 1 |-> [k \in 1 .. From(off, j - 1) + L(j - 1) |-> F[k]]]
<1>1. B \in Nat \ {0} /\ inode[i].size \in Nat
  BY Types1, FileAssumption DEF IInv
<1>2. cur \in Nat /\ off \in 0 .. B - 1 /\ start = B * cur + off
  <2>1. start <= start
    OBVIOUS
  <2>2. cur \in Nat
    BY <2>1, DivOrder
  <2> QED
    BY <1>1, <2>2, DivMod
<1>3. Contents(i, start, n) = FlattenSeq(seqs)
  BY DEF Contents
<1> HIDE DEF off, cur
<1>4. off \in Offset
  BY <1>2 DEF Offset
<1>5. /\ P \in Nat
      /\ \A j \in 0 .. P : /\ From(off, j) \in Nat /\ L(j) \in Nat
                           /\ At(off, j) \in Nat /\ At(off, j) + L(j) <= B
      /\ From(off, 0) = 0
      /\ \A j \in 0 .. P - 1 : From(off, j) + L(j) = From(off, j + 1)
      /\ From(off, P) + L(P) = n
  BY <1>4, CutSums
<1>6. \A j \in 0 .. P : \A c \in Offset :
        /\ From(off, j) - At(off, j) = j * B - off
        /\ c \in At(off, j) .. At(off, j) + L(j) - 1
             <=> off <= j * B + c /\ j * B + c < off + n
  BY <1>4, Cut
<1> HIDE DEF P, L
<1>7. ASSUME NEW j \in 0 .. P, NEW c \in 1 .. L(j)
      PROVE  store[inode[i].block[cur + j]][At(off, j) + c - 1] = F[From(off, j) + c]
  <2> DEFINE d == At(off, j) + c - 1
             m == B * (cur + j) + d
  <2>1. /\ From(off, j) \in Nat /\ L(j) \in Nat /\ At(off, j) \in Nat /\ At(off, j) + L(j) <= B
        /\ j \in Nat /\ c \in Nat
    BY <1>5
  <2>2. d \in 0 .. B - 1 /\ d \in At(off, j) .. At(off, j) + L(j) - 1
    BY <1>1, <2>1
  <2>3. From(off, j) - At(off, j) = j * B - off /\ off <= j * B + d /\ j * B + d < off + n
    <3> HIDE DEF d
    <3>1. d \in Offset
      BY <2>2 DEF Offset
    <3> QED
      BY <1>6, <2>2, <3>1
  <2>4. B * (cur + j) = B * cur + j * B /\ B * cur \in Int /\ j * B \in Int
    BY <1>1, <1>2, <2>1
  <2>5. m = start + From(off, j) + c - 1
    BY <1>2, <2>1, <2>3, <2>4
  <2>6. m \in Int /\ start <= m /\ m < start + n
    <3> HIDE DEF d
    <3> QED
      BY <1>2, <2>2, <2>3, <2>4
  <2>7. m \div B = cur + j /\ m % B = d
    <3> HIDE DEF d
    <3>1. cur + j \in Int
      BY <1>2, <2>1
    <3> QED
      BY <1>1, <2>2, <3>1, DivModUnique
  <2> HIDE DEF m
  <2>8. m \in 0 .. inode[i].size - 1
    BY <1>1, <2>6
  <2>9. store[inode[i].block[m \div B]][m % B] = [ino |-> i, tag |-> m]
    BY <2>8 DEF IInv, Bytes
  <2>10. From(off, j) + c \in 1 .. n /\ start + (From(off, j) + c) - 1 = m
    BY <2>1, <2>5, <2>6
  <2>11. F[From(off, j) + c] = [ino |-> i, tag |-> m]
    BY <2>10
  <2> QED
    BY <2>7, <2>9, <2>11
<1> HIDE DEF F
<1>8. \A j \in 0 .. P : Piece(j) = [c \in 1 .. L(j) |-> F[From(off, j) + c]]
  BY <1>7
<1> HIDE DEF Piece
<1>9. \A j \in 1 .. P + 1 : j - 1 \in 0 .. P
  BY <1>5
<1>10. Len(seqs) = P + 1 /\ P + 1 \in Nat \ {0} /\ \A j \in 1 .. P + 1 : seqs[j] = Piece(j - 1)
  BY <1>5
<1>11. W[1] = seqs[1]
  <2>1. 1 \in 1 .. P + 1 /\ 0 \in 0 .. P /\ 1 - 1 = 0
    BY <1>5
  <2>2. W[1] = [k \in 1 .. From(off, 0) + L(0) |-> F[k]]
    BY <2>1
  <2>3. seqs[1] = [c \in 1 .. L(0) |-> F[From(off, 0) + c]]
    BY <1>8, <1>10, <2>1
  <2>4. [k \in 1 .. From(off, 0) + L(0) |-> F[k]] = [k \in 1 .. L(0) |-> F[k]]
    BY <1>5, <2>1
  <2>5. [c \in 1 .. L(0) |-> F[From(off, 0) + c]] = [k \in 1 .. L(0) |-> F[k]]
    BY <1>5, <2>1
  <2> QED
    BY <2>2, <2>3, <2>4, <2>5
<1>12. ASSUME NEW j \in 2 .. P + 1
       PROVE  W[j] = W[j - 1] \o seqs[j]
  <2> DEFINE x == From(off, j - 1)
             y == L(j - 1)
  <2>1. j \in 1 .. P + 1 /\ j - 1 \in 1 .. P + 1 /\ j - 1 \in 0 .. P /\ j - 2 \in 0 .. P - 1
        /\ (j - 1) - 1 = j - 2 /\ (j - 2) + 1 = j - 1
    BY <1>5
  <2>2. x \in Nat /\ y \in Nat /\ From(off, j - 2) + L(j - 2) = x
    BY <1>5, <2>1
  <2>3. W[j] = [k \in 1 .. x + y |-> F[k]]
    BY <2>1
  <2>4. W[j - 1] = [k \in 1 .. x |-> F[k]]
    <3>1. W[j - 1] = [k \in 1 .. From(off, (j - 1) - 1) + L((j - 1) - 1) |-> F[k]]
      BY <2>1
    <3> QED
      BY <2>1, <2>2, <3>1
  <2>5. seqs[j] = [c \in 1 .. y |-> F[x + c]]
    BY <1>8, <1>10, <2>1
  <2> HIDE DEF x, y, W, seqs
  <2>6. [k \in 1 .. x |-> F[k]] \o [c \in 1 .. y |-> F[x + c]] = [k \in 1 .. x + y |-> F[k]]
    BY <2>2, Concat
  <2> QED
    BY <2>3, <2>4, <2>5, <2>6
<1>13. W = [j \in 1 .. P + 1 |-> W[j]]
  OBVIOUS
<1>14. W[P + 1] = F
  <2>1. P + 1 \in 1 .. P + 1 /\ (P + 1) - 1 = P
    BY <1>5
  <2>2. W[P + 1] = [k \in 1 .. From(off, P) + L(P) |-> F[k]]
    BY <2>1
  <2>3. W[P + 1] = [k \in 1 .. n |-> F[k]]
    BY <1>5, <2>2
  <2> QED
    BY <2>3 DEF F
<1> HIDE DEF W, seqs
<1>15. FlattenSeq(seqs) = W[P + 1]
  <2>1. Joined(seqs, W, P + 1)
    BY <1>10, <1>11, <1>12, <1>13 DEF Joined
  <2> QED
    BY <2>1, Flatten
<1> QED
  BY <1>3, <1>14, <1>15 DEF F


\* Named inodes are complete.
LEMMA NamedComplete ==
  ASSUME IInv, NEW i \in Named
  PROVE  i \in Inode /\ inode[i].block[0] # 0 /\ ibit[i]
<1>1. EntriesAreLinks
  BY EntriesLinks DEF IInv
<1>2. \A e \in Entries : e \in Links /\ Entry(e[1], e[2]).ino = Child1(e)
  BY <1>1 DEF EntriesAreLinks, Child1
<1>3. CASE i = Root
  BY <1>3, AreaFacts DEF IInv, RootKept
<1>4. CASE i # Root
  <2>1. PICK e \in Entries : Entry(e[1], e[2]).ino = i
    BY <1>4 DEF Named
  <2>2. e \in Links /\ Child1(e) = i
    BY <1>2, <2>1
  <2>3. Child1(e) \in Inode
    BY <2>2, ChildInode
  <2> QED
    BY <2>2, <2>3 DEF IInv, Linked
<1> QED
  BY <1>3, <1>4

\* No block of the data area has two places in named files and directories, and
\* all their blocks are marked (allocData, freeData, write).
THEOREM BlocksCorrect ==
  ASSUME Careful
  PROVE  Spec => []BlocksHaveOneOwner
<1>1. IInv => BlocksHaveOneOwner
  <2> SUFFICES ASSUME IInv PROVE BlocksHaveOneOwner
    OBVIOUS
  <2>1. ASSUME NEW u \in Uses
        PROVE  <<u[1], u[2]>> \in Held /\ u = <<u[1], u[2]>> /\ Owner[u] \in Area
               /\ dbit[Owner[u] - dataStart] /\ Owner[u] = inode[u[1]].block[u[2]]
    <3>1. u \in Named \X (0 .. NDATA - 1) /\ u[2] <= inode[u[1]].size \div BSIZE
      BY DEF Uses
    <3>2. u[1] \in Named /\ u[2] \in 0 .. NDATA - 1 /\ u = <<u[1], u[2]>>
      BY <3>1
    <3>3. u[1] \in Inode /\ inode[u[1]].block[0] # 0
      BY <3>2, NamedComplete
    <3>4. inode[u[1]].size \in Nat /\ inode[u[1]].size <= inode[u[1]].size
      BY <3>3, Types1 DEF IInv
    <3>5. inode[u[1]].size \div BSIZE \in Nat
      BY <3>4, DivOrder
    <3>6. u[2] \in 0 .. inode[u[1]].size \div BSIZE
      BY <3>1, <3>2, <3>5
    <3>7. <<u[1], u[2]>> \in Held /\ inode[u[1]].block[u[2]] \in Area
          /\ dbit[inode[u[1]].block[u[2]] - dataStart]
      BY <3>3, <3>6, InArea DEF IInv
    <3>8. Owner[u] = inode[u[1]].block[u[2]]
      BY DEF Owner
    <3> QED
      BY <3>2, <3>7, <3>8
  <2>2. DOMAIN Owner = Uses
    BY DEF Owner
  <2>3. \A b \in Range(Owner) : b \in Area /\ dbit[b - dataStart]
    BY <2>1, <2>2 DEF Range
  <2>4. ASSUME NEW u \in Uses, NEW v \in Uses, Owner[u] = Owner[v]
        PROVE  u = v
    <3>1. <<u[1], u[2]>> \in Held /\ u = <<u[1], u[2]>> /\ Owner[u] = inode[u[1]].block[u[2]]
      BY <2>1
    <3>2. <<v[1], v[2]>> \in Held /\ v = <<v[1], v[2]>> /\ Owner[v] = inode[v[1]].block[v[2]]
      BY <2>1
    <3>3. inode[u[1]].block[u[2]] = inode[v[1]].block[v[2]]
      BY <2>4, <3>1, <3>2
    <3>4. u[1] = v[1] /\ u[2] = v[2]
      BY <3>1, <3>2, <3>3, OneUse DEF IInv
    <3>5. <<u[1], u[2]>> = <<v[1], v[2]>>
      BY <3>4
    <3> QED
      BY <3>1, <3>2, <3>5
  <2> QED
    BY <2>2, <2>3, <2>4 DEF BlocksHaveOneOwner, IsInjective
<1> QED
  BY <1>1, Invariant, PTL

\* Whatever part of a named file is read, its bytes are those that were written
\* there (read, write).
THEOREM ReadsCorrect ==
  ASSUME Careful
  PROVE  Spec => []ReadsWhatWasWritten
<1>1. IInv => ReadsWhatWasWritten
  <2> SUFFICES ASSUME IInv, NEW i \in Named, inode[i].type = "I_FILE",
                      NEW start \in 0 .. inode[i].size - 1,
                      NEW n \in 1 .. inode[i].size - start
               PROVE  Contents(i, start, n) = [k \in 1 .. n |-> [ino |-> i, tag |-> start + k - 1]]
    BY DEF ReadsWhatWasWritten
  <2>1. i \in Inode /\ inode[i].block[0] # 0
    BY NamedComplete
  <2>2. inode[i].size \in Nat
    BY <2>1, Types1 DEF IInv
  <2>3. start \in Nat /\ n \in Nat /\ start + n <= inode[i].size
    BY <2>2
  <2> QED
    BY <2>1, <2>3, ContentsOf
<1> QED
  BY <1>1, Invariant, PTL



------------------------------------------------------------------------------
(* What the steps do, seen from outside *)

\* Nothing but stray writes.
Still == UNCHANGED <<ibit, dbit, inode>> /\ \A b \in Area : store'[b] = store[b]

\* A step creates, removes, writes or does none of these.
LEMMA Steps ==
  ASSUME IInv, Careful, [Next]_vars
  PROVE  \/ Still
         \/ \E i \in Inode, type \in {"I_FILE", "I_DIR"} : \E name, a : Created(i, type, name, a)
         \/ \E e \in Links : Removing(e)
         \/ \E i \in Inode, n \in Nat \ {0}, last \in Nat : Writing(i, n, last)
<1>1. CASE creat \/ mk
  <2>1. PICK type \in {"I_FILE", "I_DIR"}, i \in Inode, name \in Names : Make(i, type, name)
    BY <1>1 DEF creat, mk
  <2> QED
    BY <2>1, MakeCreates
<1>2. CASE creatFails \/ mkFails
  <2>1. PICK type \in {"I_FILE", "I_DIR"} : MakeFails(type)
    BY <1>2 DEF creatFails, mkFails
  <2> QED
    BY <2>1, MakeFailsCreates
<1>3. CASE AllocInodeFails
  BY <1>3, StrayMisses DEF AllocInodeFails, IInv, Still
<1>4. CASE rm
  BY <1>4, RmRemoves
<1>5. CASE write
  <2>1. PICK f \in Fd, n \in 1 .. MaxSize :
          /\ fds[f].ino # None /\ inode[fds[f].ino].type = "I_FILE"
          /\ WriteTo(fds[f].ino, n)
    BY <1>5 DEF write
  <2> DEFINE i == fds[f].ino
  <2>2. i \in Inode /\ n \in Nat \ {0}
    BY <2>1 DEF IInv, TypeOK
  <2>3. UNCHANGED <<ibit, cwd>>
    BY <1>5 DEF write
  <2> HIDE DEF i
  <2>4. inode[i].type = "I_FILE" /\ WriteTo(i, n)
    BY <2>1 DEF i
  <2> QED
    BY <2>2, <2>3, <2>4, WriteWrites
<1>6. CASE cd \/ open \/ close \/ cat \/ read \/ UNCHANGED vars
  BY <1>6 DEF cd, open, close, cat, read, vars, disk, Still
<1> QED
  BY <1>1, <1>2, <1>3, <1>4, <1>5, <1>6 DEF Next

\* The entries of the directories, before a step and after it.
LEMMA EntriesNow ==
  ASSUME IInv
  PROVE  Entries = Links /\ \A e \in Links : Entry(e[1], e[2]) = Item(e[1], e[2])
BY EntriesLinks DEF IInv, EntriesAreLinks

LEMMA EntriesNext == IInv' => EntriesAreLinks'
<1>1. IInv => EntriesAreLinks
  BY EntriesLinks DEF IInv
<1> QED
  BY <1>1, PTL

\* An inode is freed only together with the entry that names it (rm, freeInode).
THEOREM FreedCorrect ==
  ASSUME Careful
  PROVE  Spec => FreedWithItsEntry
<1>1. ASSUME IInv, IInv', [Next]_vars, NEW i \in Inode, ibit[i], ~ibit'[i]
      PROVE  \E e \in Entries : Entry(e[1], e[2]).ino = i /\ e \notin Entries'
  <2>1. ~Still
    BY <1>1 DEF Still
  <2>2. ASSUME NEW j \in Inode, NEW type, NEW name, NEW a
        PROVE  ~Created(j, type, name, a)
    BY <1>1 DEF Created
  <2>3. ASSUME NEW j \in Inode, NEW n, NEW last
        PROVE  ~Writing(j, n, last)
    BY <1>1 DEF Writing
  <2>4. PICK e \in Links : Removing(e)
    BY <1>1, <2>1, <2>2, <2>3, Steps
  <2>5. i = Child1(e)
    BY <1>1, <2>4, Types1 DEF IInv, Removing
  <2>6. e \notin Links'
    BY <1>1, <2>4, RemovingKeeps
  <2> QED
    BY <1>1, <2>5, <2>6, EntriesNow, EntriesNext DEF EntriesAreLinks, Child1
<1>2. IInv /\ IInv' /\ [Next]_vars
        => [\A i \in Inode : ibit[i] /\ ~ibit'[i] =>
              \E e \in Entries : Entry(e[1], e[2]).ino = i /\ e \notin Entries']_vars
  BY <1>1
<1> QED
  BY <1>2, Invariant, PTL DEF Spec, FreedWithItsEntry


------------------------------------------------------------------------------
(* The file system as a store of files *)

\* An entry as the callers see it, the files that have one, and their bytes.
Record(e) == [dir |-> e[1], name |-> Item(e[1], e[2]).tag, ino |-> Child1(e)]
Readable == {i \in Inode : inode[i].type = "I_FILE" /\ \E e \in Links : Child1(e) = i}
Text(i) == [k \in 1 .. inode[i].size |-> [ino |-> i, tag |-> k - 1]]

View == /\ Listing = {Record(e) : e \in Links}
        /\ Texts = [i \in Readable |-> Text(i)]

LEMMA ViewNow == IInv => View
<1> SUFFICES ASSUME IInv PROVE View
  OBVIOUS
<1>1. Entries = Links /\ \A e \in Links : Entry(e[1], e[2]) = Item(e[1], e[2])
  BY EntriesNow
<1>2. Listing = {Record(e) : e \in Links}
  BY <1>1 DEF Listing, Record, Child1
<1>3. inode[Root].type # "I_FILE"
  BY DEF IInv, RootKept
<1>4. Named = {Root} \cup {Child1(e) : e \in Links}
  BY <1>1 DEF Named, Child1
<1>5. \A e \in Links : Child1(e) \in Inode
  BY ChildInode
<1>6. {f \in Named : inode[f].type = "I_FILE"} = Readable
  BY <1>3, <1>4, <1>5 DEF Readable
<1>7. ASSUME NEW i \in Readable
      PROVE  Contents(i, 0, inode[i].size) = Text(i)
  <2>1. i \in Named /\ inode[i].type = "I_FILE"
    BY <1>6
  <2>2. i \in Inode /\ inode[i].block[0] # 0
    BY <2>1, NamedComplete
  <2>3. inode[i].size \in Nat /\ 0 \in Nat /\ 0 + inode[i].size <= inode[i].size
    BY <2>2, Types1 DEF IInv
  <2>4. Contents(i, 0, inode[i].size) =
          [k \in 1 .. inode[i].size |-> [ino |-> i, tag |-> 0 + k - 1]]
    BY <2>1, <2>2, <2>3, ContentsOf
  <2>5. \A k \in 1 .. inode[i].size : 0 + k - 1 = k - 1
    BY <2>3
  <2> QED
    BY <2>4, <2>5 DEF Text
<1>8. Texts = [i \in Readable |-> Text(i)]
  BY <1>6, <1>7 DEF Texts
<1> QED
  BY <1>2, <1>8 DEF View

LEMMA ViewNext == IInv' => View'
BY ViewNow, PTL

\* An entry that is not touched.
LEMMA SameRecord ==
  ASSUME NEW e \in Links, e \in Links', ItemNext(e[1], e[2]) = Item(e[1], e[2])
  PROVE  Record(e)' = Record(e) /\ Child1(e)' = Child1(e)
<1>1. Item(e[1], e[2])' = ItemNext(e[1], e[2])
  BY DEF Item, ItemNext
<1>2. Child1(e)' = Child1(e)
  BY <1>1 DEF Child1
<1> QED
  BY <1>1, <1>2 DEF Record

\* The entries after creat and mk.
LEMMA CreatedEntries ==
  ASSUME IInv, NEW i, NEW type, NEW name, NEW a, Created(i, type, name, a)
  PROVE  /\ \A g \in Links : g \in Links' /\ ItemNext(g[1], g[2]) = Item(g[1], g[2])
         /\ \A g \in Links : Child1(g) # i
         /\ \A g \in Links' : g \in Links \/ (g = <<cwd, inode[cwd].size>> /\ a # 0)
         /\ a # 0 => /\ <<cwd, inode[cwd].size>> \in Links'
                     /\ ItemNext(cwd, inode[cwd].size).ino = i
                     /\ ItemNext(cwd, inode[cwd].size).tag = name
<1>1. ASSUME NEW g \in Links
      PROVE  g \in Links' /\ ItemNext(g[1], g[2]) = Item(g[1], g[2])
  <2> DEFINE d == g[1]
             c == g[2]
  <2>1. d \in Inode /\ c \in Offset /\ IsDir(d) /\ c < inode[d].size /\ c \in Nat
    BY LinkPairs DEF Offset
  <2>2. d # i
    BY <2>1 DEF Created, IInv, RootKept, IsDir
  <2>3. IsDir(d)' /\ inode[d].block[0] # 0 /\ inode[d].size \in Nat
    BY <2>1, <2>2, CreatedDirs, Types1 DEF IInv, Listed
  <2>4. c < inode'[d].size
    BY <2>1, <2>2, <2>3 DEF Created
  <2>5. ItemNext(d, c) = Item(d, c)
    <3>1. d = cwd => c # inode[cwd].size
      BY <2>1, <2>3
    <3>2. d # cwd => ItemNext(d, c) = Item(d, c)
      BY <2>1, <2>2, <2>3, CreatedDirs
    <3>3. c # inode[cwd].size => ItemNext(cwd, c) = Item(cwd, c)
      BY <2>1, CreatedStore
    <3> QED
      BY <3>1, <3>2, <3>3
  <2> QED
    BY <2>3, <2>4, <2>5, LinkStays
<1>2. \A g \in Links : Child1(g) # i
  BY DEF Created, IInv, Linked
<1>3. \A g \in Links' : g \in Links \/ (g = <<cwd, inode[cwd].size>> /\ a # 0)
  BY CreatedLinks
<1>4. ASSUME a # 0
      PROVE  /\ <<cwd, inode[cwd].size>> \in Links'
             /\ ItemNext(cwd, inode[cwd].size).ino = i
             /\ ItemNext(cwd, inode[cwd].size).tag = name
  <2> DEFINE c == inode[cwd].size
  <2>1. cwd \in Inode /\ c \in Offset /\ c \in Nat /\ inode[cwd].block[0] \in Area /\ IsDir(cwd)
    BY Room DEF IInv, CwdKept
  <2>2. cwd # i /\ inode'[cwd].size = c + 1 /\ name \in Names
    BY <1>4, <2>1 DEF Created
  <2>3. IsDir(cwd)' /\ inode'[cwd].block[0] = inode[cwd].block[0]
    <3>1. cwd' = cwd /\ ibit'[cwd] /\ inode'[cwd].type = inode[cwd].type
      BY <2>1, <2>2 DEF Created, IsDir
    <3> QED
      BY <2>1, <3>1, CreatedStore DEF IsDir
  <2>4. ItemNext(cwd, c).ino = i /\ ItemNext(cwd, c).tag = name
    <3>1. store'[inode[cwd].block[0]][c] = [ino |-> i, tag |-> name]
      BY <1>4, <2>1 DEF Created
    <3> QED
      BY <2>3, <3>1 DEF ItemNext
  <2> DEFINE e == <<cwd, c>>
  <2>5. e \in Links'
    <3>1. \E d \in Inode : d = cwd
      BY <2>1
    <3>2. PICK d \in Inode : d = cwd
      BY <3>1
    <3>3. IsDir(d)' /\ c < inode'[d].size /\ ItemNext(d, c).tag \in Names
      BY <2>1, <2>2, <2>3, <2>4, <3>2 DEF Created, IsDir
    <3> QED
      BY <2>1, <3>2, <3>3 DEF Links, Item, ItemNext, Inode, Offset
  <2> QED
    BY <2>4, <2>5
<1> QED
  BY <1>1, <1>2, <1>3, <1>4


\* Entries that stay the same are listed the same.
LEMMA SameListing ==
  ASSUME View, View', Links' = Links,
         \A g \in Links : ItemNext(g[1], g[2]) = Item(g[1], g[2])
  PROVE  Listing' = Listing
<1>1. \A g \in Links : Record(g)' = Record(g)
  BY SameRecord
<1>2. Listing' = {Record(g)' : g \in Links'} /\ Listing = {Record(g) : g \in Links}
  BY DEF View
<1> QED
  BY <1>1, <1>2

\* Files that stay the same are read the same.
LEMMA SameTexts ==
  ASSUME View, View', Readable' = Readable,
         \A i \in Readable : inode'[i].size = inode[i].size
  PROVE  Texts' = Texts
<1>1. \A i \in Readable : Text(i)' = Text(i)
  BY DEF Text
<1>2. Texts' = [i \in Readable' |-> Text(i)'] /\ Texts = [i \in Readable |-> Text(i)]
  BY DEF View
<1> QED
  BY <1>1, <1>2

\* The files that have an entry, as far as the entries stay the same.
LEMMA SameReadable ==
  ASSUME IInv, \A g \in Links' : g \in Links /\ ItemNext(g[1], g[2]) = Item(g[1], g[2]),
         \A i \in Inode : inode'[i].type = inode[i].type
  PROVE  Readable' = {i \in Readable : \E e \in Links' : Child1(e) = i}
<1>1. \A g \in Links' : g \in Links /\ Child1(g)' = Child1(g)
  BY SameRecord
<1>2. Readable' = {i \in Inode : inode'[i].type = "I_FILE" /\ \E e \in Links' : Child1(e)' = i}
  BY DEF Readable, Inode
<1> QED
  BY <1>1, <1>2 DEF Readable

\* What is left alone stutters.
LEMMA StillStutters ==
  ASSUME IInv, IInv', Still
  PROVE  UNCHANGED Visible!store
<1>1. View /\ View'
  BY ViewNow, ViewNext
<1>2. /\ \A g \in Links' : g \in Links /\ ItemNext(g[1], g[2]) = Item(g[1], g[2])
      /\ \A g \in Links : g \in Links'
  BY Untouched DEF Still
<1>3. Links' = Links
  BY <1>2
<1>4. Listing' = Listing
  BY <1>1, <1>2, <1>3, SameListing
<1>5. inode' = inode
  BY DEF Still
<1>6. Readable' = Readable
  BY <1>2, <1>3, <1>5, SameReadable DEF Readable
<1>7. Texts' = Texts
  BY <1>1, <1>5, <1>6, SameTexts
<1> QED
  BY <1>4, <1>7 DEF Visible!store

\* creat and mk that cannot write the entry: an inode is lost, nothing is seen.
LEMMA LostStutters ==
  ASSUME IInv, IInv', NEW i, NEW type, NEW name, Created(i, type, name, 0)
  PROVE  UNCHANGED Visible!store
<1>1. View /\ View'
  BY ViewNow, ViewNext
<1>2. /\ \A g \in Links : g \in Links' /\ ItemNext(g[1], g[2]) = Item(g[1], g[2])
      /\ \A g \in Links' : g \in Links
      /\ \A g \in Links : Child1(g) # i
  BY CreatedEntries
<1>3. Links' = Links
  BY <1>2
<1>4. Listing' = Listing
  BY <1>1, <1>2, <1>3, SameListing
<1>5. /\ \A j \in Inode : j # i =>
           /\ inode'[j].type = inode[j].type
           /\ inode'[j].size = IF j = cwd THEN inode[j].size + 1 ELSE inode[j].size
  BY DEF Created
<1>6. \A g \in Links' : Child1(g)' = Child1(g)
  BY <1>2, SameRecord
<1>7. Readable' = {j \in Inode : inode'[j].type = "I_FILE" /\ \E e \in Links' : Child1(e)' = j}
  BY DEF Readable, Inode
<1>8. Readable' = Readable
  BY <1>2, <1>3, <1>5, <1>6, <1>7 DEF Readable
<1>9. \A j \in Readable : inode'[j].size = inode[j].size
  BY <1>2, <1>5, NotDir DEF Readable
<1>10. Texts' = Texts
  BY <1>1, <1>8, <1>9, SameTexts
<1> QED
  BY <1>4, <1>10 DEF Visible!store

\* creat and mk that succeed.
LEMMA CreatedCreates ==
  ASSUME IInv, IInv', NEW i, NEW type, NEW name, NEW a, Created(i, type, name, a), a # 0
  PROVE  Visible!Create
<1> DEFINE r == [dir |-> cwd, name |-> name, ino |-> i]
<1>1. View /\ View'
  BY ViewNow, ViewNext
<1>2. /\ \A g \in Links : g \in Links' /\ ItemNext(g[1], g[2]) = Item(g[1], g[2])
      /\ \A g \in Links : Child1(g) # i
      /\ \A g \in Links' : g \in Links \/ g = <<cwd, inode[cwd].size>>
      /\ <<cwd, inode[cwd].size>> \in Links'
      /\ ItemNext(cwd, inode[cwd].size).ino = i
      /\ ItemNext(cwd, inode[cwd].size).tag = name
  BY CreatedEntries
<1>0. PICK e \in Links' : e = <<cwd, inode[cwd].size>>
  BY <1>2
<1>3. \A g \in Links : Record(g)' = Record(g) /\ Child1(g)' = Child1(g)
  BY <1>2, SameRecord
<1>4. Child1(e)' = i /\ Record(e)' = r
  <2>1. e[1] = cwd /\ e[2] = inode[cwd].size /\ Child1(e)' = ItemNext(e[1], e[2]).ino
    BY <1>0, LinkPairsNext
  <2>2. ItemNext(e[1], e[2]).ino = i /\ ItemNext(e[1], e[2]).tag = name
    BY <1>2, <2>1
  <2>3. Record(e)' = [dir |-> e[1], name |-> ItemNext(e[1], e[2]).tag, ino |-> Child1(e)']
    BY DEF Record, Item, ItemNext
  <2> QED
    BY <2>1, <2>2, <2>3
<1>5. Listing' = {Record(g)' : g \in Links'} /\ Listing = {Record(g) : g \in Links}
  BY <1>1 DEF View
<1>6. Listing' = Listing \cup {r}
  <2>1. Links' = Links \cup {e}
    BY <1>0, <1>2
  <2> QED
    BY <1>3, <1>4, <1>5, <2>1
<1>7. \A x \in Listing : /\ x.ino # i /\ x.ino # x.dir
                         /\ x.dir = cwd => x.name # name
  <2>1. \A g \in Links : g[1] = cwd => Item(g[1], g[2]).tag # name
    BY DEF Created
  <2>2. \A g \in Links : Child1(g) # i /\ Child1(g) # g[1]
    BY <1>2 DEF IInv, Linked
  <2> QED
    BY <1>5, <2>1, <2>2 DEF Record
<1>8. i # Root /\ r.ino = i /\ r.dir = cwd /\ r.name = name
  BY DEF Created
<1>9. /\ i \in Inode /\ inode'[i].type = type /\ inode'[i].size = 0
      /\ \A j \in Inode : j # i =>
           /\ inode'[j].type = inode[j].type
           /\ inode'[j].size = IF j = cwd THEN inode[j].size + 1 ELSE inode[j].size
  BY DEF Created
<1>10. Readable' = {j \in Inode : inode'[j].type = "I_FILE" /\ \E g \in Links' : Child1(g)' = j}
  BY DEF Readable, Inode
<1>11. Readable' = IF type = "I_FILE" THEN Readable \cup {i} ELSE Readable
  <2>1. Links' = Links \cup {e}
    BY <1>0, <1>2
  <2>2. ASSUME NEW j \in Inode, j # i
        PROVE  j \in Readable' <=> j \in Readable
    BY <1>3, <1>4, <1>9, <1>10, <2>1, <2>2 DEF Readable
  <2>3. i \in Readable' <=> type = "I_FILE"
    BY <1>4, <1>9, <1>10
  <2>4. i \notin Readable
    BY <1>2 DEF Readable
  <2>5. Readable \subseteq Inode /\ Readable' \subseteq Inode
    BY <1>10 DEF Readable
  <2>6. CASE type = "I_FILE"
    <3>1. \A j : j \in Readable' <=> j \in Readable \cup {i}
      BY <1>9, <2>2, <2>3, <2>5, <2>6
    <3>2. Readable' = Readable \cup {i}
      BY <3>1
    <3> QED
      BY <2>6, <3>2
  <2>7. CASE type # "I_FILE"
    <3>1. \A j : j \in Readable' <=> j \in Readable
      BY <1>9, <2>2, <2>3, <2>4, <2>5, <2>7
    <3>2. Readable' = Readable
      BY <3>1
    <3> QED
      BY <2>7, <3>2
  <2> QED
    BY <2>6, <2>7
<1>12. i \notin Readable
  BY <1>2 DEF Readable
<1>13. Texts' = [j \in Readable' |-> Text(j)'] /\ Texts = [j \in Readable |-> Text(j)]
  BY <1>1 DEF View
<1>14. ASSUME NEW j \in Readable'
       PROVE  Texts'[j] = IF j = i THEN << >> ELSE Texts[j]
  <2>1. Texts'[j] = [k \in 1 .. inode'[j].size |-> [ino |-> j, tag |-> k - 1]]
    BY <1>13 DEF Text
  <2>2. CASE j = i
    <3>1. 1 .. inode'[j].size = {}
      BY <1>9, <2>2
    <3> QED
      BY <2>1, <2>2, <3>1
  <2>3. CASE j # i
    <3>1. j \in Readable /\ j # cwd /\ j \in Inode
      BY <1>11, <2>3, NotDir DEF Readable
    <3>2. inode'[j].size = inode[j].size
      BY <1>9, <2>3, <3>1
    <3>3. Texts[j] = [k \in 1 .. inode[j].size |-> [ino |-> j, tag |-> k - 1]]
      BY <1>13, <3>1 DEF Text
    <3> QED
      BY <2>1, <2>3, <3>2, <3>3
  <2> QED
    BY <2>2, <2>3
<1>15. DOMAIN Texts' = Readable' /\ DOMAIN Texts = Readable
  BY <1>13
<1> HIDE DEF r
<1>16. r \in Listing' \ Listing
  BY <1>6, <1>7, <1>8
<1>17. r.ino \notin Visible!Numbers(Listing) \cup {Root}
  BY <1>7, <1>8 DEF Visible!Numbers
<1>18. \A g \in Listing : <<g.dir, g.name>> # <<r.dir, r.name>>
  BY <1>7, <1>8
<1>19. DOMAIN Texts' \in {DOMAIN Texts, DOMAIN Texts \cup {r.ino}}
  BY <1>8, <1>11, <1>15
<1>20. \A f \in DOMAIN Texts' : Texts'[f] = IF f = r.ino THEN << >> ELSE Texts[f]
  BY <1>8, <1>14, <1>15
<1> QED
  BY <1>6, <1>16, <1>17, <1>18, <1>19, <1>20 DEF Visible!Create


\* rm takes the entry away, and the entries of what it named.
LEMMA RemovingRemoves ==
  ASSUME IInv, IInv', NEW e \in Links, Removing(e)
  PROVE  Visible!RemoveEntry
<1> DEFINE r == Record(e)
<1>1. View /\ View'
  BY ViewNow, ViewNext
<1>2. /\ \A g \in Links' : /\ g \in Links /\ g # e /\ g[1] # Child1(e)
                            /\ ItemNext(g[1], g[2]) = Item(g[1], g[2])
      /\ \A g \in Links : g # e /\ g[1] # Child1(e) => g \in Links'
  BY RemovingKeeps
<1>3. \A g \in Links' : Record(g)' = Record(g) /\ Child1(g)' = Child1(g)
  BY <1>2, SameRecord
<1>4. Listing' = {Record(g)' : g \in Links'} /\ Listing = {Record(g) : g \in Links}
  BY <1>1 DEF View
<1>5. Listing' = {Record(g) : g \in Links'}
  BY <1>3, <1>4
<1>6. \A g \in Links : Record(g).dir = g[1] /\ Record(g).ino = Child1(g)
  BY DEF Record
<1>7. \A g \in Links : Child1(g) = Child1(e) => g = e
  BY DEF IInv, Linked
<1>8. r \in Listing /\ r.ino = Child1(e)
  BY <1>4, <1>6
<1>9. Listing' = {x \in Listing : x # r /\ x.dir # r.ino}
  <2>1. \A g \in Links : g \in Links' <=> Record(g) # r /\ Record(g).dir # r.ino
    BY <1>2, <1>6, <1>7
  <2>2. \A x \in Listing' : x \in Listing /\ x # r /\ x.dir # r.ino
    BY <1>2, <1>4, <1>5, <2>1
  <2>3. \A x \in Listing : x # r /\ x.dir # r.ino => x \in Listing'
    BY <1>4, <1>5, <2>1
  <2> QED
    BY <2>2, <2>3
<1>10. inode' = inode
  BY DEF Removing
<1>11. Readable' = {i \in Readable : \E g \in Links' : Child1(g) = i}
  BY <1>2, <1>10, SameReadable
<1>12. Visible!Numbers(Listing') = {Child1(g) : g \in Links'}
  BY <1>2, <1>5, <1>6 DEF Visible!Numbers
<1>13. Texts' = [i \in Readable' |-> Text(i)'] /\ Texts = [i \in Readable |-> Text(i)]
  BY <1>1 DEF View
<1>14. \A i \in Readable : Text(i)' = Text(i)
  BY <1>10 DEF Text
<1>15. Readable' = DOMAIN Texts \cap Visible!Numbers(Listing')
  BY <1>11, <1>12, <1>13
<1>16. \A i \in Readable' : i \in Readable /\ Text(i)' = Texts[i]
  BY <1>11, <1>13, <1>14
<1>17. Texts' = [f \in DOMAIN Texts \cap Visible!Numbers(Listing') |-> Texts[f]]
  BY <1>13, <1>15, <1>16
<1> HIDE DEF r
<1> QED
  BY <1>8, <1>9, <1>17 DEF Visible!RemoveEntry

\* The first n bytes of file i.
Start(i, n) == [k \in 1 .. n |-> [ino |-> i, tag |-> k - 1]]

\* What was there stays in front of what is written.
LEMMA LongerText ==
  ASSUME NEW i, NEW s \in Nat, NEW t \in Nat, s <= t
  PROVE  Visible!IsPrefix(Start(i, s), Start(i, t))
<1> DEFINE Byte(k) == [ino |-> i, tag |-> k - 1]
           f == Start(i, s)
           g == Start(i, t)
<1>1. f = [k \in 1 .. s |-> Byte(k)] /\ g = [k \in 1 .. t |-> Byte(k)]
  BY DEF Start
<1> HIDE DEF Byte, f, g
<1>2. Len(f) = s /\ Len(g) = t
  BY <1>1
<1>3. SubSeq(f, 1, s) = [k \in 1 .. s |-> Byte(k)]
  BY <1>1
<1>4. SubSeq(g, 1, s) = [k \in 1 .. s |-> Byte(k)]
  BY <1>1
<1> QED
  BY <1>2, <1>3, <1>4 DEF Visible!IsPrefix, f, g

\* write appends to its file, and is not seen when that has no entry any more.
LEMMA WritingAppends ==
  ASSUME IInv, IInv', NEW i \in Inode, NEW n \in Nat, NEW last, Writing(i, n, last)
  PROVE  Visible!AppendBytes \/ UNCHANGED Visible!store
<1>1. View /\ View'
  BY ViewNow, ViewNext
<1>2. /\ \A g \in Links' : g \in Links /\ ItemNext(g[1], g[2]) = Item(g[1], g[2])
      /\ \A g \in Links : g \in Links'
  BY WritingKeeps
<1>3. Links' = Links
  BY <1>2
<1>4. Listing' = Listing
  BY <1>1, <1>2, <1>3, SameListing
<1>5. /\ \A j \in Inode : j # i => inode'[j] = inode[j]
      /\ inode'[i].type = inode[i].type /\ inode'[i].size = inode[i].size + n
  BY DEF Writing
<1>6. \A j \in Inode : inode'[j].type = inode[j].type
  BY <1>5
<1>7. Readable' = Readable
  BY <1>2, <1>3, <1>6, SameReadable DEF Readable
<1>8. Texts' = [j \in Readable |-> Text(j)'] /\ Texts = [j \in Readable |-> Text(j)]
  BY <1>1, <1>7 DEF View
<1>9. \A j \in Readable : j # i => Texts'[j] = Texts[j]
  BY <1>5, <1>8 DEF Text, Readable
<1>10. CASE i \notin Readable
  <2>1. \A j \in Readable : inode'[j].size = inode[j].size
    BY <1>5, <1>10 DEF Readable
  <2>2. Texts' = Texts
    BY <1>1, <1>7, <2>1, SameTexts
  <2> QED
    BY <1>4, <2>2 DEF Visible!store
<1>11. CASE i \in Readable
  <2>1. inode[i].size \in Nat /\ inode[i].size + n \in Nat /\ inode[i].size <= inode[i].size + n
    BY Types1 DEF IInv
  <2>2. /\ Texts[i] = Start(i, inode[i].size)
        /\ Texts'[i] = Start(i, inode[i].size + n)
    BY <1>5, <1>8, <1>11 DEF Text, Start
  <2>3. Visible!IsPrefix(Texts[i], Texts'[i])
    <3>1. Visible!IsPrefix(Start(i, inode[i].size), Start(i, inode[i].size + n))
      BY <2>1, LongerText
    <3> QED
      BY <2>2, <3>1
  <2>4. Texts' = [Texts EXCEPT ![i] = Texts'[i]]
    BY <1>8, <1>9, <1>11
  <2>5. i \in DOMAIN Texts
    BY <1>8, <1>11
  <2> QED
    BY <1>4, <2>3, <2>4, <2>5 DEF Visible!AppendBytes
<1> QED
  BY <1>10, <1>11

\* The file system calls are a store of files: entries come and go one at a time,
\* files start empty and grow at their end, and all others stay as they are, for
\* any reuse of inodes, blocks and descriptors (creat, mk, rm, write).
THEOREM RefinesFileStore ==
  ASSUME Careful
  PROVE  Spec => ImplementsFileStore
<1>1. Init => Visible!Init
  <2> SUFFICES ASSUME Init PROVE Visible!Init
    OBVIOUS
  <2>1. IInv
    BY InitIInv
  <2>2. Links = {}
    <3>1. \A d \in Inode : inode[d].size = 0
      BY DEF Init, Blank
    <3>2. \A e \in Links : e[1] \in Inode /\ e[2] \in Offset /\ e[2] < inode[e[1]].size
      BY LinkPairs
    <3> QED
      BY <3>1, <3>2 DEF Offset
  <2>3. View
    BY <2>1, ViewNow
  <2>4. Listing = {} /\ Readable = {}
    BY <2>2, <2>3 DEF View, Readable
  <2>5. Texts = << >>
    BY <2>3, <2>4 DEF View
  <2> QED
    BY <2>4, <2>5 DEF Visible!Init
<1>2. ASSUME IInv, IInv', [Next]_vars
      PROVE  [Visible!Next]_(Visible!store)
  <2>1. CASE Still
    BY <1>2, <2>1, StillStutters
  <2>2. ASSUME NEW i \in Inode, NEW type \in {"I_FILE", "I_DIR"}, NEW name, NEW a,
               Created(i, type, name, a)
        PROVE  Visible!Create \/ UNCHANGED Visible!store
    <3>1. CASE a = 0
      BY <1>2, <2>2, <3>1, LostStutters
    <3>2. CASE a # 0
      BY <1>2, <2>2, <3>2, CreatedCreates
    <3> QED
      BY <3>1, <3>2
  <2>3. ASSUME NEW e \in Links, Removing(e)
        PROVE  Visible!RemoveEntry
    BY <1>2, <2>3, RemovingRemoves
  <2>4. ASSUME NEW i \in Inode, NEW n \in Nat \ {0}, NEW last \in Nat, Writing(i, n, last)
        PROVE  Visible!AppendBytes \/ UNCHANGED Visible!store
    BY <1>2, <2>4, WritingAppends
  <2> QED
    BY <1>2, <2>1, <2>2, <2>3, <2>4, Steps DEF Visible!Next
<1>3. IInv /\ IInv' /\ [Next]_vars => [disk' # disk => [Visible!Next]_(Visible!store)]_vars
  BY <1>2
<1> QED
  BY <1>1, <1>3, Invariant, PTL DEF Spec, ImplementsFileStore

==============================================================================
