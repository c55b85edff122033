------------------------------ MODULE BlockCache ------------------------------
(***************************************************************************)
(* The block cache of fs.c over the driver of ide.c, pointer by pointer:   *)
(* the LRU ring, the hash table and the buffers, used through blockRead,   *)
(* blockWrite and relCachedBlock.  Nothing interleaves with a call.        *)
(*                                                                         *)
(* Every caller names device 0.  Both search loops then stop at the first  *)
(* buffer of a chain, because they go on only while the device AND the     *)
(* block differ; the rest of a chain is never looked at and is left out.   *)
(*                                                                         *)
(* lruListHead is a null pointer: the head of the ring is the struct block *)
(* at address 0, and "no buffer" is the same pointer.                      *)
(***************************************************************************)
EXTENDS Integers, Sequences, FiniteSets, SequencesExt

CONSTANTS
  BCACHE_SIZE,    \* number of buffers
  BLK_HASH_SIZE,  \* number of hash chains
  NBLOCK,         \* blocks of the disk that the callers use
  Data,           \* contents of a block
  Zero,           \* contents of a buffer before its first use
  Hold,           \* how many blocks the callers keep unreleased at a time
  Retries         \* whether callers try again to read a block after a failure

ASSUME SizesAssumption == /\ BCACHE_SIZE \in Nat \ {0}
                          /\ BLK_HASH_SIZE \in Nat \ {0}
                          /\ NBLOCK \in Nat \ {0}
                          /\ Hold \in Nat \ {0}
ASSUME DataAssumption == Zero \in Data
ASSUME RetriesAssumption == Retries \in BOOLEAN

Buf == 0 .. BCACHE_SIZE - 1
NULL == -1
Node == Buf \cup {NULL}
Block == 0 .. NBLOCK - 1
Key == 0 .. BLK_HASH_SIZE - 1

BLKHASH(b) == b % BLK_HASH_SIZE

VARIABLES
  block, flags, data,  \* fields of bcache.buf[i]
  next, prev,          \* lru_next and lru_prev of the buffers and of the head
  chain,               \* blkHash[key].hash_next
  disk,                \* the contents of the drive
  lost,                \* the cache has run out of buffers under a caller
  answer,              \* what the last blockRead returned
  user,                \* the buffer a caller holds for a block
  busy,                \* blocks used and not released yet
  bad,                 \* blocks whose read has failed
  order                \* buffers ready for replacement, oldest release first

cache == <<block, flags, data, next, prev, chain>>
callers == <<user, busy, bad>>
vars == <<cache, disk, lost, answer, callers, order>>

Failure == [failed |-> TRUE]

\* blockCacheInit puts each buffer in front of the ones before it.
Init ==
  /\ block = [x \in Buf |-> -1]
  /\ flags = [x \in Buf |-> "UNUSED"]
  /\ data = [x \in Buf |-> Zero]
  /\ next = [n \in Node |-> IF n = NULL THEN BCACHE_SIZE - 1 ELSE n - 1]
  /\ prev = [n \in Node |-> IF n = BCACHE_SIZE - 1 THEN NULL ELSE n + 1]
  /\ chain = [k \in Key |-> NULL]
  /\ disk \in [Block -> Data]
  /\ lost = FALSE /\ answer = Failure
  /\ user = [b \in Block |-> NULL] /\ busy = {} /\ bad = {}
  /\ order = [i \in 1 .. BCACHE_SIZE |-> BCACHE_SIZE - i]

------------------------------------------------------------------------------
(* getCachedBlock *)

First(b) == chain[BLKHASH(b)]

Hit(b) == First(b) # NULL /\ block[First(b)] = b

Exhausted == next[NULL] = NULL

\* The buffer it returns.
Got(b) == IF Hit(b) THEN First(b) ELSE next[NULL]

\* The buffer's flags when it returns: a miss leaves them as they are.
GotFlags(b) == IF Hit(b) THEN "VALID" ELSE flags[Got(b)]

\* Mutant of Unlink: the buffer stays on the ring.
UnlinkNothing(b) == UNCHANGED <<next, prev, order>>

\* The buffer leaves the ring, through its own pointers on a hit and from
\* the front on a miss.
Unlink(b) ==
  LET x == Got(b)
      before == IF Hit(b) THEN prev[x] ELSE NULL
  IN  /\ next' = [next EXCEPT ![before] = next[x]]
      /\ prev' = [prev EXCEPT ![next[x]] = before]
      /\ order' = RemoveFirst(order, x)

\* Mutant of Rehash: the buffer is not put on its new chain.
RehashNothing(b) == block' = [block EXCEPT ![Got(b)] = b] /\ UNCHANGED chain

\* On a miss the buffer becomes the first of its new chain, and stays on
\* its old one.
Rehash(b) ==
  /\ block' = [block EXCEPT ![Got(b)] = b]
  /\ chain' = [chain EXCEPT ![BLKHASH(b)] = Got(b)]

Get(b) == (Hit(b) \/ ~Exhausted) /\ Unlink(b) /\ Rehash(b)

------------------------------------------------------------------------------
(* The callers *)

\* A caller may use b now.
MayUse(b) == ~lost /\ Cardinality(busy \cup {b}) <= Hold /\ (Retries \/ b \notin bad)

Took(b) == busy' = busy \cup {b} /\ UNCHANGED bad

Reply(b) == answer' = [block |-> b, data |-> data'[Got(b)]]

\* blockRead of a buffer whose flags say VALID.
ReadCached(b) ==
  /\ MayUse(b) /\ Get(b) /\ GotFlags(b) = "VALID"
  /\ flags' = [flags EXCEPT ![Got(b)] = "VALID"]
  /\ UNCHANGED data
  /\ Reply(b) /\ user' = [user EXCEPT ![b] = Got(b)] /\ Took(b)
  /\ UNCHANGED <<disk, lost>>

\* Mutant of ReadDisk: the flag is set and the transfer is missing.
ReadDiskNot(b) ==
  /\ MayUse(b) /\ Get(b) /\ GotFlags(b) # "VALID"
  /\ flags' = [flags EXCEPT ![Got(b)] = "VALID"]
  /\ UNCHANGED data
  /\ Reply(b) /\ user' = [user EXCEPT ![b] = Got(b)] /\ Took(b)
  /\ UNCHANGED <<disk, lost>>

\* blockRead of a buffer that hardReadWait fills.
ReadDisk(b) ==
  /\ MayUse(b) /\ Get(b) /\ GotFlags(b) # "VALID"
  /\ flags' = [flags EXCEPT ![Got(b)] = "VALID"]
  /\ data' = [data EXCEPT ![Got(b)] = disk[b]]
  /\ Reply(b) /\ user' = [user EXCEPT ![b] = Got(b)] /\ Took(b)
  /\ UNCHANGED <<disk, lost>>

\* hardReadWait fails: the caller gets a null pointer, and the buffer stays
\* off the ring and on its chain.
ReadFails(b) ==
  /\ MayUse(b) /\ Get(b) /\ GotFlags(b) # "VALID"
  /\ answer' = Failure /\ bad' = bad \cup {b}
  /\ UNCHANGED <<flags, data, disk, lost, user, busy>>

\* Mutants of Transfer: the flags of the caller's struct block stay in the
\* buffer; the transfer to the drive is missing.
TransferFlags(x, b, d) ==
  /\ data' = [data EXCEPT ![x] = d]
  /\ disk' = [disk EXCEPT ![b] = d]
  /\ flags' = [flags EXCEPT ![x] = "DIRTY"]
TransferNothing(x, b, d) ==
  /\ data' = [data EXCEPT ![x] = d]
  /\ flags' = [flags EXCEPT ![x] = "VALID"]
  /\ UNCHANGED disk

\* The copy into buffer x of block b, and hardWrite of it.
Transfer(x, b, d) ==
  /\ data' = [data EXCEPT ![x] = d]
  /\ disk' = [disk EXCEPT ![b] = d]
  /\ flags' = [flags EXCEPT ![x] = "VALID"]

\* blockWrite of a struct block of the caller's own, as writeSuperblock does.
Write(b, d) ==
  /\ MayUse(b) /\ Get(b)
  /\ Transfer(Got(b), b, d)
  /\ Took(b) /\ UNCHANGED <<user, lost, answer>>

\* A caller changes the buffer it holds and passes it to blockWrite.
WriteBack(b, d) ==
  /\ MayUse(b) /\ user[b] # NULL /\ Get(block[user[b]])
  /\ LET c == block[user[b]] IN
       /\ disk' = [disk EXCEPT ![c] = d]
       /\ data' = [data EXCEPT ![user[b]] = d, ![Got(c)] = d]
       /\ flags' = [flags EXCEPT ![Got(c)] = "VALID"]
  /\ UNCHANGED <<callers, lost, answer>>

\* No buffer is left: blockRead and blockWrite go on with a null pointer and
\* overwrite the structures at address 0.
RunOut(b) ==
  /\ MayUse(b) /\ Exhausted
  /\ ~Hit(b) \/ (user[b] # NULL /\ ~Hit(block[user[b]]))
  /\ lost' = TRUE
  /\ UNCHANGED <<cache, disk, answer, callers, order>>

\* Mutant of Release: the buffer goes to the front of the ring.
ReleaseToFront(b) ==
  /\ ~lost /\ user[b] # NULL
  /\ LET x == user[b] IN
       /\ flags' = [flags EXCEPT ![x] = "UNUSED"]
       /\ next' = [next EXCEPT ![x] = next[NULL], ![NULL] = x]
       /\ prev' = [prev EXCEPT ![next[NULL]] = x, ![x] = NULL]
       /\ order' = Append(order, x)
  /\ user' = [user EXCEPT ![b] = NULL] /\ busy' = busy \ {b}
  /\ UNCHANGED <<block, data, chain, disk, lost, answer, bad>>

\* relCachedBlock.  Its search of the chain changes nothing that is looked
\* at later.
Release(b) ==
  /\ ~lost /\ user[b] # NULL
  /\ LET x == user[b] IN
       /\ flags' = [flags EXCEPT ![x] = "UNUSED"]
       /\ next' = [next EXCEPT ![prev[NULL]] = x, ![x] = NULL]
       /\ prev' = [prev EXCEPT ![x] = prev[NULL], ![NULL] = x]
       /\ order' = Append(order, x)
  /\ user' = [user EXCEPT ![b] = NULL] /\ busy' = busy \ {b}
  /\ UNCHANGED <<block, data, chain, disk, lost, answer, bad>>

Next == \E b \in Block :
  \/ ReadCached(b) \/ ReadDisk(b) \/ ReadFails(b)
  \/ \E d \in Data : Write(b, d) \/ WriteBack(b, d)
  \/ RunOut(b) \/ Release(b)

Spec == Init /\ [][Next]_vars

------------------------------------------------------------------------------
(* Properties *)

TypeOK ==
  /\ block \in [Buf -> Block \cup {-1}]
  /\ flags \in [Buf -> {"UNUSED", "VALID"}]
  /\ data \in [Buf -> Data]
  /\ next \in [Node -> Node] /\ prev \in [Node -> Node]
  /\ chain \in [Key -> Node]
  /\ disk \in [Block -> Data]
  /\ lost \in BOOLEAN
  /\ answer \in [block : Block, data : Data] \cup {Failure}
  /\ user \in [Block -> Node]
  /\ busy \subseteq Block /\ bad \subseteq Block
  /\ order \in Seq(Buf)

(***************************************************************************)
(* The pointers of the ring spell the buffers ready for replacement, the   *)
(* one released longest ago first, forwards and backwards, and none twice  *)
(* (getCachedBlock, relCachedBlock).                                       *)
(***************************************************************************)
RingIsOrder ==
  LET ring == <<NULL>> \o order \o <<NULL>> IN
  /\ IsInjective(order)
  /\ \A i \in 1 .. Len(order) + 1 :
       next[ring[i]] = ring[i + 1] /\ prev[ring[i + 1]] = ring[i]

(***************************************************************************)
(* The buffer a caller holds is the one getCachedBlock finds for its block *)
(* and is not ready for replacement (getCachedBlock, blockRead).           *)
(***************************************************************************)
NotStolen ==
  \A b \in Block : user[b] # NULL =>
    /\ block[user[b]] = b /\ First(b) = user[b]
    /\ user[b] \notin ToSet(order)

(***************************************************************************)
(* ide.h:49, "the block in-core is same with the copy on disk": whatever   *)
(* getCachedBlock would find for a block agrees with the drive, the copies *)
(* of replaced and of released buffers included (getCachedBlock,           *)
(* blockRead, blockWrite).                                                 *)
(***************************************************************************)
Coherent == \A b \in Block \ bad : Hit(b) => data[First(b)] = disk[b]

(***************************************************************************)
(* For callers that use one block at a time and release it, and give up on *)
(* a block that cannot be read, the cache is a disk (blockRead,            *)
(* blockWrite, relCachedBlock).                                            *)
(***************************************************************************)
Backing == INSTANCE Disk WITH Blocks <- Block, Contents <- Data

ImplementsDisk == Backing!DiskSpec

(***************************************************************************)
(* fs.h:31-34, "if block already in cache, return directly, otherwise get  *)
(* a free buffer": a read returns the contents of the block it names       *)
(* (getCachedBlock, blockRead).                                            *)
(***************************************************************************)
ReadsTheBlock ==
  [][answer' # answer /\ answer' # Failure =>
       answer'.data = disk[answer'.block]]_vars
==============================================================================
