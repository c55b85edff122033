--------------------------------- MODULE Files ---------------------------------
(***************************************************************************)
(* The file system calls of fs.c after fsInit: creat, mk, rm, cd, open,    *)
(* close, read, write and cat.  Nothing interleaves with a call.           *)
(*                                                                         *)
(* Paths.  split counts only terms that a '/' follows, so the last         *)
(* component of a path is looked at by nobody: a path is where it starts   *)
(* and its other terms.  getFileName never advances pname: creat and rm    *)
(* always work in the current directory.                                   *)
(***************************************************************************)
EXTENDS Allocators, FiniteSetsExt

CONSTANTS
  NOPENFILE,  \* bound on descriptors; fds[] has 128
  WORDS,      \* words of the bitmap of open files; 4 in the code
  MaxSize,    \* bound on the size of a write
  Habits      \* what callers do that the code does not provide for, see below

(***************************************************************************)
(* "fill":    a write may end exactly at the end of a block;               *)
(* "missing": rm is called for names that are not there;                   *)
(* "exhaust": callers go on when no data block is free.                    *)
(*                                                                         *)
(* In every case callers create a name once, write to files only, and stop *)
(* creating when a directory has filled its first block.                   *)
(***************************************************************************)
ASSUME HabitsAssumption == Habits \subseteq {"fill", "missing", "exhaust"}
ASSUME BoundsAssumption == /\ WORDS \in Nat \ {0} /\ MaxSize \in Nat \ {0}
                           /\ NOPENFILE \in Nat /\ NOPENFILE > (WORDS - 1) * 4

Fd == 0 .. NOPENFILE - 1
None == -1

VARIABLES
  cwd,     \* fileSys.cwd
  fds,     \* ofTbl.fds: inode and offset
  max_fd   \* ofTbl.max_fd

open_files == <<fds, max_fd>>
vars == <<disk, cwd, open_files>>

Closed == [ino |-> None, off |-> 0]

\* diskLayoutInit and fsInit: the root has inode 0 and data block 0.
Init ==
  /\ ibit = [i \in Inode |-> i = Root]
  /\ dbit = [d \in 0 .. nDataBlock |-> d = 0]
  /\ inode = [i \in Inode |-> [Blank("I_NONE") EXCEPT !.block[0] =
                                IF i = Root THEN dataStart ELSE 0]]
  /\ store = [b \in Block |-> [c \in Offset |-> Zero]]
  /\ cwd = Root
  /\ fds = [f \in Fd |-> Closed] /\ max_fd = 0

------------------------------------------------------------------------------
(* Directories *)

\* Entry number p of directory d.
Entry(d, p) == store[inode[d].block[p \div BSIZE]][p % BSIZE]

Places(d, name) == {p \in 0 .. inode[d].size - 1 : Entry(d, p).tag = name}

\* One term of namei; a term that is not found is skipped.
Child(d, name) ==
  IF Places(d, name) = {} THEN d ELSE Entry(d, Min(Places(d, name))).ino

\* The inodes that namei finds from inode start on, with paths of any number
\* of terms: those in every set that no term leads out of.
namei(start) ==
  LET below == [d \in Inode |-> {Child(d, name) : name \in Names}] IN
  {i \in Inode : \A D \in SUBSET Inode :
                   start \in D /\ (\A d \in D : below[d] \subseteq D) => i \in D}

\* Callers keep to what is provided for.
Enough(n) == "exhaust" \in Habits \/ Cardinality(FreeData) >= n
MayAdd(name) == Places(cwd, name) = {} /\ inode[cwd].size + 1 < BSIZE

------------------------------------------------------------------------------
(***************************************************************************)
(* creat and mk: inode i is allocated, an entry is appended to the current *)
(* directory, and a data block is allocated.  When the block of the        *)
(* directory cannot be read, its size has been increased already and the   *)
(* call gives up.                                                          *)
(***************************************************************************)
Grown(t) == [t EXCEPT ![cwd].size = @ + 1]

Append1(s, t, i, name) ==
  [s EXCEPT ![t[cwd].block[t[cwd].size \div BSIZE]][t[cwd].size % BSIZE] =
     [ino |-> i, tag |-> name]]

Make(i, type, name) ==
  LET t == Fresh(i, type) IN
  /\ FreeInode(i) /\ MayAdd(name) /\ Enough(1)
  /\ ibit' = Marked(i)
  /\ \E s \in Stray : store' = Append1(s, t, i, name)
  /\ inode' = [Grown(t) EXCEPT ![i].block[0] = DataAddr(0)]
  /\ dbit' = Taken(1)
  /\ UNCHANGED cwd

MakeFails(type) ==
  /\ inode[cwd].size + 1 < BSIZE
  /\ \E i \in Inode :
       /\ FreeInode(i)
       /\ ibit' = Marked(i)
       /\ inode' = Grown(Fresh(i, type))
  /\ store' \in Stray
  /\ UNCHANGED <<dbit, cwd, open_files>>

\* The new file gets the next descriptor, whether it is in use or not.
creat ==
  \E i \in Inode, name \in Names :
    /\ max_fd < NOPENFILE
    /\ Make(i, "I_FILE", name)
    /\ fds' = [fds EXCEPT ![max_fd] = [ino |-> i, off |-> 0]]
    /\ max_fd' = max_fd + 1

mk == /\ \E i \in Inode, name \in Names : Make(i, "I_DIR", name)
      /\ UNCHANGED open_files

creatFails == MakeFails("I_FILE")
mkFails == MakeFails("I_DIR")

\* No inode is free: only the stray write has happened.
AllocInodeFails ==
  /\ \A i \in Inode : ibit[i]
  /\ store' \in Stray
  /\ UNCHANGED <<ibit, dbit, inode, cwd, open_files>>

cd == /\ \E start \in {Root, cwd} : \E i \in namei(start) :
           inode[i].type = "I_DIR" /\ cwd' = i
      /\ UNCHANGED <<disk, open_files>>

(***************************************************************************)
(* rm.  The entry is cleared, and the inode of the entry looked at last is *)
(* freed: the named one, or, when there is none of that name, the last of  *)
(* the directory.  In an empty directory that entry is stack contents.     *)
(***************************************************************************)
Removed(name) ==
  LET n == inode[cwd].size IN
  IF Places(cwd, name) # {} THEN {Entry(cwd, Min(Places(cwd, name))).ino}
  ELSE IF n > 0 THEN {Entry(cwd, n - 1).ino} ELSE Inode

\* Mutant of Cleared: the last entry of the directory is.
ClearedLast(s, name) ==
  LET p == inode[cwd].size - 1 IN
  IF Places(cwd, name) = {} THEN s
  ELSE [s EXCEPT ![inode[cwd].block[p \div BSIZE]][p % BSIZE] = Zero]

Cleared(s, name) ==
  IF Places(cwd, name) = {} THEN s
  ELSE LET p == Min(Places(cwd, name)) IN
       [s EXCEPT ![inode[cwd].block[p \div BSIZE]][p % BSIZE] = Zero]

\* The entry of a cleared or missing name leads to an inode without a type,
\* the root or one never used: its dinode is read from the disk, where it was
\* written by allocInode only, and its number is the root's.
Reread(i) == IF inode[i].type = "I_NONE" THEN [inode EXCEPT ![i].block = Blank("I_NONE").block]
                                         ELSE inode

Number(i) == IF inode[i].type = "I_NONE" THEN Root ELSE i

\* Mutant of FreedInode: the inode after the one removed.
FreedNext(i) == [ibit EXCEPT ![(i + 1) % nInodeBlock] = FALSE]

\* freeInode
FreedInode(i) == [ibit EXCEPT ![i] = FALSE]

rm ==
  /\ \E name \in Names, i \in Inode :
       /\ Places(cwd, name) # {} \/ "missing" \in Habits
       /\ i \in Removed(name)
       /\ inode' = Reread(i)
       /\ LET A == {inode'[i].block[k] : k \in 0 .. inode[i].size \div BSIZE} IN
            /\ dbit' = Released(A)
            /\ \E s \in {t \in Stray : t = store \/ \E a \in A : Frees(a)} :
                 store' = Cleared(s, name)
       /\ ibit' = FreedInode(Number(i))
  /\ UNCHANGED <<cwd, open_files>>

------------------------------------------------------------------------------
(* Files *)

(***************************************************************************)
(* The bitmap of open files is always zero, as no bit is ever set; the     *)
(* search goes on after it has found one, and multiplies by 4 where a word *)
(* has 32 bits.  It ends at bit 0 of the last word.                        *)
(***************************************************************************)
OpenSlot == (WORDS - 1) * 4

open ==
  /\ \E start \in {Root, cwd} : \E i \in namei(start) :
       fds' = [fds EXCEPT ![OpenSlot] = [ino |-> i, off |-> 0]]
  /\ max_fd' = Max({max_fd, OpenSlot})
  /\ UNCHANGED <<disk, cwd>>

close == /\ \E f \in Fd : fds[f] # Closed /\ fds' = [fds EXCEPT ![f] = Closed]
         /\ UNCHANGED <<disk, cwd, max_fd>>

\* open, reads up to the end of the file, close.
cat == /\ fds' = [fds EXCEPT ![OpenSlot] = Closed]
       /\ max_fd' = Max({max_fd, OpenSlot})
       /\ UNCHANGED <<disk, cwd>>

(***************************************************************************)
(* Both read and write cut n bytes, from offset off of a block on, into    *)
(* pieces 0 .. Pieces(off, n): what is left of the first block, whole      *)
(* blocks, and the rest.  Piece j has Len(off, n, j) bytes, the first of   *)
(* them is byte From(off, j), and it starts at At(off, j) in its block.    *)
(***************************************************************************)
Pieces(off, n) == IF n > BSIZE - off THEN (n - (BSIZE - off)) \div BSIZE + 1 ELSE 0

PieceLen(off, n, j) ==
  IF j = 0 THEN IF n > BSIZE - off THEN BSIZE - off ELSE n
  ELSE IF j < Pieces(off, n) THEN BSIZE
  ELSE (n - (BSIZE - off)) % BSIZE

From(off, j) == IF j = 0 THEN 0 ELSE BSIZE - off + (j - 1) * BSIZE

At(off, j) == IF j = 0 THEN off ELSE 0

\* Mutant of Fits: off by one.
FitsOneMore(last) == last <= NDATA

\* block[] has an entry for the last block of a write.
Fits(last) == last < NDATA

\* write appends to the file, wherever the descriptor's offset is.  It gives
\* up, and changes nothing, when block[] would be full.
WriteTo(i, n) ==
  LET size == inode[i].size
      cur == size \div BSIZE
      off == size % BSIZE
      na == Pieces(off, n)
      block == [k \in 0 .. NDATA |->
                  IF k \in cur + 1 .. cur + na THEN DataAddr(k - cur - 1)
                                               ELSE inode[i].block[k]]
      Onto(b, c) == {j \in 0 .. na : block[cur + j] = b /\
                       c \in At(off, j) .. At(off, j) + PieceLen(off, n, j) - 1}
      Byte(j, c) == [ino |-> i, tag |-> size + From(off, j) + c - At(off, j)]
  IN  /\ Fits(cur + na)
      /\ Enough(na)
      /\ (size + n) % BSIZE # 0 \/ "fill" \in Habits
      /\ inode' = [inode EXCEPT ![i] = [inode[i] EXCEPT !.block = block, !.size = @ + n]]
      /\ dbit' = Taken(na)
      /\ store' = [b \in Block |-> [c \in Offset |->
                     IF Onto(b, c) = {} THEN store[b][c] ELSE Byte(Max(Onto(b, c)), c)]]

write ==
  /\ \E f \in Fd, n \in 1 .. MaxSize :
       /\ fds[f].ino # None /\ inode[fds[f].ino].type = "I_FILE"
       /\ WriteTo(fds[f].ino, n)
  /\ UNCHANGED <<ibit, cwd, open_files>>

\* What read puts into its buffer, for n bytes of inode i from start on.
Contents(i, start, n) ==
  LET cur == start \div BSIZE
      off == start % BSIZE
      Piece(j) == [c \in 1 .. PieceLen(off, n, j) |->
                     store[inode[i].block[cur + j]][At(off, j) + c - 1]]
  IN  FlattenSeq([j \in 1 .. Pieces(off, n) + 1 |-> Piece(j - 1)])

read ==
  /\ \E f \in Fd, n \in 1 .. MaxSize :
       /\ fds[f].ino # None
       /\ fds[f].off + n <= inode[fds[f].ino].size
       /\ fds' = [fds EXCEPT ![f].off = @ + n]
  /\ UNCHANGED <<disk, cwd, max_fd>>

Next == \/ creat \/ mk \/ creatFails \/ mkFails \/ AllocInodeFails
        \/ rm \/ cd \/ open \/ close \/ cat \/ read \/ write

Spec == Init /\ [][Next]_vars

------------------------------------------------------------------------------
(* Properties *)

TypeOK == /\ DiskTypeOK
          /\ cwd \in Inode
          /\ fds \in [Fd -> [ino : Inode \cup {None}, off : Nat]]
          /\ max_fd \in 0 .. NOPENFILE

\* The entries in use of the directories in use.
IsDir(d) == ibit[d] /\ (d = Root \/ inode[d].type = "I_DIR")

Entries == {e \in Inode \X (0 .. NDATA * BSIZE - 1) :
              IsDir(e[1]) /\ e[2] < inode[e[1]].size /\ Entry(e[1], e[2]).tag \in Names}

Named == {Root} \cup {Entry(e[1], e[2]).ino : e \in Entries}

(***************************************************************************)
(* A tree: every entry of a directory names an inode that is allocated,    *)
(* and no two entries name the same one, or the root (creat, mk, rm).      *)
(***************************************************************************)
Tree ==
  /\ \A e \in Entries : ibit[Entry(e[1], e[2]).ino] /\ Entry(e[1], e[2]).ino # Root
  /\ \A e, g \in Entries : Entry(e[1], e[2]).ino = Entry(g[1], g[2]).ino => e = g

(***************************************************************************)
(* The blocks that hold the bytes of named files and directories, and the  *)
(* block the next byte goes to, are blocks of the data area that are       *)
(* marked as used, and no block has two places (allocData, freeData,       *)
(* write).                                                                 *)
(***************************************************************************)
Uses == {u \in Named \X (0 .. NDATA - 1) : u[2] <= inode[u[1]].size \div BSIZE}

Owner == [u \in Uses |-> inode[u[1]].block[u[2]]]

BlocksHaveOneOwner ==
  /\ \A b \in Range(Owner) : b \in Area /\ dbit[b - dataStart]
  /\ IsInjective(Owner)

(***************************************************************************)
(* fs.h:260-273, read and write: whatever part of a named file is read,    *)
(* its bytes are those that were written there (read, write).              *)
(***************************************************************************)
ReadsWhatWasWritten ==
  \A i \in Named : inode[i].type = "I_FILE" =>
    \A start \in 0 .. inode[i].size - 1 : \A n \in 1 .. inode[i].size - start :
      Contents(i, start, n) = [k \in 1 .. n |-> [ino |-> i, tag |-> start + k - 1]]

(***************************************************************************)
(* fs.h:305-308, "remove file or directory": an inode is freed only        *)
(* together with the entry that names it (rm, freeInode).                  *)
(***************************************************************************)
FreedWithItsEntry ==
  [][\A i \in Inode : ibit[i] /\ ~ibit'[i] =>
       \E e \in Entries : Entry(e[1], e[2]).ino = i /\ e \notin Entries']_vars

\* The entries, and the contents of the files that have one.
Listing == {[dir |-> e[1], name |-> Entry(e[1], e[2]).tag, ino |-> Entry(e[1], e[2]).ino] :
              e \in Entries}

Texts == [i \in {f \in Named : inode[f].type = "I_FILE"} |-> Contents(i, 0, inode[i].size)]

(***************************************************************************)
(* fs.h:254-313, creat, read, write and rm: seen through its entries and   *)
(* the bytes read returns, the file system is a store of files, in which   *)
(* every call does its one thing and leaves all other files alone, whether *)
(* inodes, blocks and descriptors are used again or not (creat, mk, rm,    *)
(* write; cd, open, close, cat and read change nothing).  Entries and      *)
(* contents depend on disk only: a step that leaves it alone is a stutter. *)
(***************************************************************************)
Visible == INSTANCE FileStore WITH entries <- Listing, contents <- Texts

ImplementsFileStore ==
  Visible!Init /\ [][disk' # disk => [Visible!Next]_(Visible!store)]_vars
==============================================================================
