-------------------------------- MODULE Memory --------------------------------
(***************************************************************************)
(* The page allocator and the page tables of memory.c: kmemInit,           *)
(* allocPage, freePage, map, rangemap, translate, copypgt, vmalloc, sbrk   *)
(* and kmalloc, with callers like pageTest, mapTest and mallocTest.        *)
(* Paging is never turned on, so every address is a physical one, and the  *)
(* tables are data that translate reads.  The loops of rangemap, copypgt   *)
(* and vmalloc take a step per page, described by job; nothing interleaves *)
(* with them.                                                              *)
(*                                                                         *)
(* Addresses are page numbers, except for sizes and kmsize, which count    *)
(* words.  A page holds ENTRIES words, and so does a directory or a table. *)
(***************************************************************************)
EXTENDS Integers, FiniteSets

CONSTANTS
  ENTRIES,     \* words of a page, PGDSIZE, PGTSIZE; 1024
  KERNELBASE,  \* first virtual page of the kernel
  KERNSIZE,    \* number of pages kmemInit maps
  HEAP,        \* first page behind the kernel, PGUPBOUND(kernheap)
  PAGES,       \* bound on physical pages; the code has no limit
  Nodes,       \* where an uninitialised struct page pointer may lead
  Targets,     \* bound on the physical pages callers map
  Rights,      \* bound on the flags they map them with
  MaxCalls,    \* bound on the number of calls
  MaxSize,     \* bound on the size of a range or of a kmalloc, in words; a size_t
  Habits       \* what callers do that the code does not provide for

(***************************************************************************)
(* "many":  a page is freed while another one is free;                     *)
(* "dirty": the memory behind the kernel is not zero at boot.              *)
(***************************************************************************)
ASSUME HabitsAssumption == Habits \subseteq {"many", "dirty"}
ASSUME SizesAssumption ==
  /\ ENTRIES \in Nat \ {0} /\ HEAP \in Nat /\ PAGES \in Nat
  /\ MaxSize \in 0 .. ENTRIES * ENTRIES * ENTRIES /\ MaxCalls \in Nat
  /\ KERNELBASE \in 0 .. ENTRIES * ENTRIES - 1 /\ KERNSIZE \in 0 .. PAGES
  /\ HEAP < PAGES
ASSUME NodesAssumption == Nodes # {} /\ Targets \subseteq 0 .. PAGES - 1
ASSUME RightsAssumption == Rights \subseteq SUBSET {"rw", "user"}

Page == 0 .. PAGES - 1
VPage == 0 .. ENTRIES * ENTRIES - 1
Index == 0 .. ENTRIES - 1

Flag == {"rw", "user"}
Word == [page : Page, flags : SUBSET Flag]

\* A word without PAGE_PRESENT, and a null pointer.
Zero == [none |-> 0]
None == -1

Zeros == [e \in Index |-> Zero]

\* Some data of a caller, which as an entry would be present.
Data == [e \in Index |-> [page |-> 0, flags |-> {"rw"}]]

VARIABLES
  mem,      \* the words of each page
  pool,     \* pglist.next, the node there, pgavail, and brk
  kmsize,   \* kmsize
  kpgdir,   \* kpgdir
  dirs,     \* the page directories
  held,     \* pages callers have got from allocPage and not freed
  heap,     \* pages vmalloc has taken
  copies,   \* pages copypgt has copied to
  job,      \* the loop that runs, with what it has still to do
  calls     \* number of calls

vars == <<mem, pool, kmsize, kpgdir, dirs, held, heap, copies, job, calls>>

Idle == [op |-> "idle"]

Init ==
  /\ \E c \in {Zeros, Data} : mem = [p \in Page |-> c] /\ (c = Data => "dirty" \in Habits)
  /\ pool = [next |-> None, node |-> [n \in Nodes |-> [addr |-> None, next |-> None]],
             avail |-> 0, brk |-> 0]
  /\ kmsize = 0
  /\ kpgdir = None /\ dirs = {} /\ held = {} /\ heap = {} /\ copies = {}
  /\ job = [op |-> "boot"] /\ calls = 0

------------------------------------------------------------------------------
(* Pages *)

\* The page allocPage returns from pool s, and the pool that is left.
Got(s) == IF s.avail > 0 THEN s.node[s.next].addr ELSE s.brk

\* Mutant of Left: a page is counted off the list when there is none.
LeftCounting(s) == IF s.avail > 0
                   THEN [s EXCEPT !.next = s.node[s.next].next, !.avail = @ - 1]
                   ELSE [s EXCEPT !.brk = @ + 1, !.avail = @ - 1]

Left(s) == IF s.avail > 0
           THEN [next |-> s.node[s.next].next, avail |-> s.avail - 1,
                 brk |-> s.brk, node |-> s.node]
           ELSE [s EXCEPT !.brk = @ + 1]

\* The bound on memory: page p is there.
Room(p) == p < PAGES

\* Pages that size bytes from the start of a page on reach into.
PGUPBOUND(size) == (size + ENTRIES - 1) \div ENTRIES

\* The next call.
Call == job = Idle /\ calls < MaxCalls /\ calls' = calls + 1

allocPage ==
  /\ Call /\ Room(Got(pool))
  /\ held' = held \cup {Got(pool)}
  /\ pool' = Left(pool)
  /\ UNCHANGED <<mem, kmsize, kpgdir, dirs, heap, copies, job>>

\* Callers write to the pages they have got.
Use == /\ Call
       /\ \E p \in held : mem' = [mem EXCEPT ![p] = Data]
       /\ UNCHANGED <<pool, kmsize, kpgdir, dirs, held, heap, copies, job>>

\* Mutant of Wiped: the page is not cleared.
WipedNot(m, p) == m

Wiped(m, p) == [m EXCEPT ![p] = Zeros]

\* The pool with page p pushed onto its list, in node n.
Pushed(s, p, n) == [next |-> n, avail |-> s.avail + 1, brk |-> s.brk,
                    node |-> [s.node EXCEPT ![n] = [addr |-> p, next |-> s.next]]]

\* The list node is wherever the uninitialised pointer p leads.
freePage ==
  /\ Call
  /\ pool.avail = 0 \/ "many" \in Habits
  /\ \E p \in held, n \in Nodes :
       /\ held' = held \ {p}
       /\ mem' = Wiped(mem, p)
       /\ pool' = Pushed(pool, p, n)
  /\ UNCHANGED <<kmsize, kpgdir, dirs, heap, copies, job>>

------------------------------------------------------------------------------
(* Page tables *)

PTOV(p) == p + KERNELBASE
VTOP(p) == (p - KERNELBASE) % (ENTRIES * ENTRIES)

\* Mutant of PGTINDEX: the wrong part of the address, as in the printf of map.
PGTINDEXOfDir(va) == va \div ENTRIES

PGDINDEX(va) == va \div ENTRIES
PGTINDEX(va) == va % ENTRIES

getpte(m, pgd, va) ==
  LET pde == m[pgd][PGDINDEX(va)] IN
  IF pde = Zero THEN Zero ELSE m[pde.page][PGTINDEX(va)]

\* Whether map allocates a table.
NeedsTable(m, pgd, va) == m[pgd][PGDINDEX(va)] = Zero

Table(m, s, pgd, va) == IF NeedsTable(m, pgd, va) THEN Got(s) ELSE m[pgd][PGDINDEX(va)].page

\* The memory when the table is there: a new one is cleared before it is named.
WithTable(m, s, pgd, va, flags) ==
  IF NeedsTable(m, pgd, va)
  THEN [m EXCEPT ![Got(s)] = Zeros,
                 ![pgd][PGDINDEX(va)] = [page |-> Got(s), flags |-> flags]]
  ELSE m

\* The memory after map.
Mapped(m, s, pgd, pa, va, flags) ==
  [WithTable(m, s, pgd, va, flags)
     EXCEPT ![Table(m, s, pgd, va)][PGTINDEX(va)] = [page |-> pa, flags |-> flags]]

PoolMapped(m, s, pgd, va) == IF NeedsTable(m, pgd, va) THEN Left(s) ELSE s

RangeJob(pgd, pa, va, n, flags) ==
  IF n = 0 THEN Idle
  ELSE [op |-> "range", pgd |-> pgd, pa |-> pa, va |-> va, left |-> n, flags |-> flags]

\* kmsize is set before the first page is taken.
kmemInit ==
  /\ job.op = "boot"
  /\ kmsize' = HEAP * ENTRIES
  /\ kpgdir' = HEAP /\ dirs' = {HEAP}
  /\ mem' = [mem EXCEPT ![HEAP] = Zeros]
  /\ pool' = [pool EXCEPT !.brk = HEAP + 1]
  /\ job' = RangeJob(HEAP, 0, PTOV(0), KERNSIZE, {"rw"})
  /\ UNCHANGED <<held, heap, copies, calls>>

\* map is the call of one page.
rangemap ==
  /\ Call
  /\ \E pgd \in dirs, pa \in Targets, va \in VPage, size \in 1 .. MaxSize,
        flags \in Rights :
       /\ pa + PGUPBOUND(size) <= PAGES
       /\ job' = RangeJob(pgd, pa, va, PGUPBOUND(size), flags)
  /\ UNCHANGED <<mem, pool, kmsize, kpgdir, dirs, held, heap, copies>>

\* One round of the loop of rangemap, with its call of map.
map ==
  /\ job.op = "range"
  /\ Room(Table(mem, pool, job.pgd, job.va))
  /\ mem' = Mapped(mem, pool, job.pgd, job.pa, job.va, job.flags)
  /\ pool' = PoolMapped(mem, pool, job.pgd, job.va)
  /\ job' = RangeJob(job.pgd, job.pa + 1, (job.va + 1) % (ENTRIES * ENTRIES), job.left - 1, job.flags)
  /\ UNCHANGED <<kmsize, kpgdir, dirs, held, heap, copies, calls>>

------------------------------------------------------------------------------
(***************************************************************************)
(* copypgt.  The new directory is not cleared, the source of the copy is   *)
(* off by the kernel's base, and map is given its addresses in the wrong   *)
(* order.                                                                  *)
(***************************************************************************)
CopyJob(opgd, npgd, p, n) ==
  IF n = 0 THEN Idle ELSE [op |-> "copy", opgd |-> opgd, npgd |-> npgd, p |-> p, left |-> n]

copypgt ==
  /\ Call /\ Room(Got(pool))
  /\ dirs' = dirs \cup {Got(pool)}
  /\ pool' = Left(pool)
  /\ \E opgd \in dirs, size \in 1 .. MaxSize :
       /\ PGUPBOUND(size) <= PAGES
       /\ job' = CopyJob(opgd, Got(pool), 0, PGUPBOUND(size))
  /\ UNCHANGED <<mem, kmsize, kpgdir, held, heap, copies>>

\* The pages memmove copies from, when they are there.
Source(pte) == LET p == PTOV(IF pte = Zero THEN 0 ELSE pte.page) IN
               {mem[q] : q \in {p} \cap Page} \cup {x \in {Zeros, Data} : p \notin Page}

CopyPage ==
  /\ job.op = "copy"
  /\ LET pte == getpte(mem, job.opgd, job.p)
         flags == IF pte = Zero THEN {} ELSE pte.flags
         npa == Got(pool)
         va == VTOP(npa)
     IN  /\ Room(npa)
         /\ \E c \in Source(pte) :
              LET m == [mem EXCEPT ![npa] = c] IN
              /\ Room(Table(m, Left(pool), job.npgd, va))
              /\ mem' = Mapped(m, Left(pool), job.npgd, job.p, va, flags)
              /\ pool' = PoolMapped(m, Left(pool), job.npgd, va)
         /\ copies' = copies \cup {npa}
  /\ job' = CopyJob(job.opgd, job.npgd, job.p + 1, job.left - 1)
  /\ UNCHANGED <<kmsize, kpgdir, dirs, held, heap, calls>>

------------------------------------------------------------------------------
(* The kernel's heap *)

HeapJob(n) == IF n = 0 THEN Idle ELSE [op |-> "vmalloc", left |-> n]

\* Mutant of NewPages: the old size is not rounded up.
NewPagesFloor(old, new) == PGUPBOUND(new) - old \div ENTRIES

\* Rounds of the loop of vmalloc.
NewPages(old, new) == PGUPBOUND(new) - PGUPBOUND(old)

\* kmalloc calls sbrk, which calls vmalloc.  The pages vmalloc takes are not
\* those at the address that is returned, and nothing keeps them.
kmalloc ==
  /\ Call
  /\ \E size \in 1 .. MaxSize :
       /\ kmsize' = kmsize + size
       /\ job' = HeapJob(NewPages(kmsize, kmsize + size))
  /\ UNCHANGED <<mem, pool, kpgdir, dirs, held, heap, copies>>

vmalloc ==
  /\ job.op = "vmalloc" /\ Room(Got(pool))
  /\ heap' = heap \cup {Got(pool)}
  /\ pool' = Left(pool)
  /\ job' = HeapJob(job.left - 1)
  /\ UNCHANGED <<mem, kmsize, kpgdir, dirs, held, copies, calls>>

Next == \/ kmemInit \/ allocPage \/ Use \/ freePage
        \/ rangemap \/ map \/ copypgt \/ CopyPage \/ kmalloc \/ vmalloc

Spec == Init /\ [][Next]_vars

------------------------------------------------------------------------------
(* Properties *)

TypeOK ==
  /\ mem \in [Page -> [Index -> Word \cup {Zero}]]
  /\ pool \in [next : Nodes \cup {None}, avail : Nat, brk : 0 .. PAGES,
               node : [Nodes -> [addr : Page \cup {None}, next : Nodes \cup {None}]]]
  /\ kmsize \in Nat /\ calls \in 0 .. MaxCalls
  /\ kpgdir \in Page \cup {None}
  /\ dirs \subseteq Page /\ held \subseteq Page /\ heap \subseteq Page /\ copies \subseteq Page
  /\ \/ job \in [op : {"idle", "boot"}] \cup [op : {"vmalloc"}, left : Nat \ {0}]
     \/ job \in [op : {"range"}, pgd : dirs, pa : Page, va : VPage, left : Nat \ {0},
                 flags : SUBSET Flag]
     \/ job \in [op : {"copy"}, opgd : dirs, npgd : dirs, p : VPage, left : Nat \ {0}]

\* The nodes of the free list, and their pages.
Listed == CHOOSE f \in [0 .. pool.avail - 1 -> Nodes] :
            \A k \in DOMAIN f : f[k] = IF k = 0 THEN pool.next ELSE pool.node[f[k - 1]].next
Free == [k \in 0 .. pool.avail - 1 |-> pool.node[Listed[k]].addr]

Tables == {t \in dirs \X Index : mem[t[1]][t[2]] # Zero}
TablePage == [t \in Tables |-> mem[t[1]][t[2]].page]

(***************************************************************************)
(* Every page the allocator has ever handed out has one use: it is a       *)
(* directory, the table of one entry of one directory, a caller's, one of  *)
(* the heap or of a copy, or free.  None is lost, and none has two uses    *)
(* (allocPage, freePage, map, copypgt, vmalloc).                           *)
(***************************************************************************)
InUse == dirs \cup held \cup heap \cup copies

Apart == /\ dirs \cap (held \cup heap \cup copies) = {}
         /\ held \cap (heap \cup copies) = {} /\ heap \cap copies = {}

PagesHaveOneUse ==
  job.op # "boot" =>
  /\ Apart
  /\ \A t \in Tables : TablePage[t] \notin InUse
                       /\ \A u \in Tables : TablePage[t] = TablePage[u] => t = u
  /\ \A k \in DOMAIN Free : /\ Free[k] \notin InUse
                            /\ \A t \in Tables : Free[k] # TablePage[t]
                            /\ \A j \in DOMAIN Free : Free[j] = Free[k] => j = k
  /\ InUse \cup {TablePage[t] : t \in Tables} \cup {Free[k] : k \in DOMAIN Free}
       = HEAP .. pool.brk - 1

(***************************************************************************)
(* The heap has as many pages as kmsize has grown by, rounded up: a small  *)
(* kmalloc takes none, and no page is taken twice (sbrk, vmalloc).         *)
(***************************************************************************)
HeapIsPaid ==
  job.op \notin {"boot", "vmalloc"} =>
    Cardinality(heap) = PGUPBOUND(kmsize) - HEAP

\* What the kernel's directory translates, and what the loop of rangemap has
\* still to map there.
Translations == [v \in VPage |-> IF kpgdir = None THEN Zero ELSE getpte(mem, kpgdir, v)]

Wanted == IF job.op = "range" /\ job.pgd = kpgdir
          THEN [k \in 1 .. job.left |->
                  [va |-> (job.va + k - 1) % (ENTRIES * ENTRIES),
                   word |-> [page |-> job.pa + k - 1, flags |-> job.flags]]]
          ELSE << >>

Kernel == INSTANCE AddressMap WITH
  VPAGES <- ENTRIES * ENTRIES, Frame <- Page, Flags <- SUBSET Flag, None <- Zero,
  tr <- Translations, want <- Wanted

(***************************************************************************)
(* memory.h:148, "map physical address to virtual address", and            *)
(* memory.h:156, "map pages in a certain range": whatever else happens to  *)
(* the memory, the kernel's translations change only where map and         *)
(* rangemap are asked to change them, and as they are asked (getpte, map,  *)
(* rangemap; allocPage and freePage, which must keep the tables alone).    *)
(***************************************************************************)
ImplementsAddressMap == Kernel!Spec
==============================================================================
