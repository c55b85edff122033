------------------------------ MODULE Allocators ------------------------------
(***************************************************************************)
(* The inodes in core and the two byte maps of fs.c: allocInode,           *)
(* freeInode, allocData, freeData and getCachedInode, over the disk that   *)
(* Disk describes.  The module has no Spec of its own; Files extends it.   *)
(*                                                                         *)
(* getCachedInode never evicts: nobody puts an inode back on the LRU ring, *)
(* and there are more inode buffers than inode numbers.  A lookup of an    *)
(* inode that was ever allocated is a hit, and the cache is a table.       *)
(*                                                                         *)
(* allocInode and freeData pass the address of a pointer to blockWrite,    *)
(* which takes the stack for a struct block and writes it to some block.   *)
(***************************************************************************)
EXTENDS Integers, Sequences, FiniteSets, SequencesExt

CONSTANTS
  nInodeBlock, nDataBlock,  \* sizes of the byte maps, from diskLayoutInit
  dataStart,                \* first data block
  NDATA,                    \* data blocks of an inode
  BSIZE,                    \* bytes of a block, and entries of a directory block
  Names,                    \* names of files and directories
  Empty, Junk,              \* the name in a cleared entry; what a stray write leaves
  Strays                    \* blocks that a stray write may hit

\* In diskLayoutInit the data area starts at 23 and has 10 blocks.
ASSUME LayoutAssumption == /\ nInodeBlock \in Nat \ {0} /\ nDataBlock \in Nat \ {0}
                           /\ dataStart \in Nat /\ dataStart > nDataBlock + 1
ASSUME FileAssumption == NDATA \in Nat \ {0} /\ BSIZE \in Nat \ {0}
\* The tags of a directory's entries are not those of a file's bytes.
ASSUME NamesAssumption == /\ Empty \notin Names /\ Junk \notin Names \cup {Empty}
                          /\ \A name \in Names : name \notin Nat

Inode == 0 .. nInodeBlock - 1
Root == 0
Offset == 0 .. BSIZE - 1

\* The data area, the block in front of it, and block 0.
Area == dataStart .. dataStart + nDataBlock - 1
Spill == dataStart - 1
Block == Area \cup {Spill, 0}

ASSUME StraysAssumption == Strays \subseteq Block

\* A byte of a block: the entry of a directory, by inode and name, or the
\* byte of a file, by file and position.
Zero == [ino |-> 0, tag |-> Empty]
Garbage == [ino |-> 0, tag |-> Junk]

VARIABLES
  ibit, dbit,  \* the byte maps, as blockRead returns them
  inode,       \* the inode cache: type, size and block[] of each inode
  store        \* contents of the blocks, as blockRead returns them

disk == <<ibit, dbit, inode, store>>

Types == {"I_NONE", "I_FILE", "I_DIR"}

\* dinode.block has a word after its end: lru_prev, which is null.
Blank(type) == [type |-> type, size |-> 0, block |-> [k \in 0 .. NDATA |-> 0]]

DiskTypeOK ==
  /\ ibit \in [Inode -> BOOLEAN]
  /\ dbit \in [0 .. nDataBlock -> BOOLEAN]
  /\ inode \in [Inode -> [type : Types, size : 0 .. NDATA * BSIZE,
                          block : [0 .. NDATA -> Block]]]
  /\ DOMAIN store = Block /\ \A b \in Block : DOMAIN store[b] = Offset

------------------------------------------------------------------------------
(* allocInode, freeInode *)

\* The number allocInode returns; with none left it returns NULL.
FreeInode(i) == ~ibit[i] /\ \A j \in Inode : j < i => ibit[j]

\* Mutant of Marked: the entry is not marked.
MarkedNot(i) == ibit

\* The inode map after allocInode of i.
Marked(i) == [ibit EXCEPT ![i] = TRUE]

\* Mutant of Fresh: the size, which is not part of dinode, is not cleared.
FreshKeepsSize(i, type) == [inode EXCEPT ![i] = [Blank(type) EXCEPT !.size = inode[i].size]]

\* The inode cache after allocInode of i, when its caller has set the type.
Fresh(i, type) == [inode EXCEPT ![i] = Blank(type)]

\* The blocks after blockWrite(&bb).
Stray == {store} \cup {[store EXCEPT ![b] = [c \in Offset |-> Garbage]] : b \in Strays}

------------------------------------------------------------------------------
(* allocData, freeData *)

FreeData == {d \in 0 .. nDataBlock - 1 : ~dbit[d]}

Rank(d) == Cardinality({e \in FreeData : e < d})

\* What the call number n (from 0) of allocData returns; with nothing left
\* the index is -1.
DataAddr(n) ==
  dataStart + IF n < Cardinality(FreeData) THEN CHOOSE d \in FreeData : Rank(d) = n
                                           ELSE -1

\* Mutant of Taken: the entry is not marked.
TakenNot(n) == dbit

\* The data map after n calls.
Taken(n) == [d \in DOMAIN dbit |-> dbit[d] \/ (d \in FreeData /\ Rank(d) < n)]

\* freeData compares a block address with the size of the map, so that it
\* fails for every block of the data area.
Frees(addr) == addr <= nDataBlock

\* The data map after freeData of all addresses in A.
Released(A) == [d \in DOMAIN dbit |-> dbit[d] /\ ~(d \in A /\ Frees(d))]

==============================================================================
