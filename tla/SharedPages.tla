----------------------------- MODULE SharedPages -----------------------------
(***************************************************************************)
(* The pages of memory (src/os/memory.c), the pages processes share        *)
(* (src/lib/share_memory.o, which is assembly text), and how process.c     *)
(* gives a process its pages and takes them back.                          *)
(*                                                                         *)
(* Interrupts are off in all of these; a step is a whole handler.          *)
(***************************************************************************)
EXTENDS Integers, FiniteSets, SequencesExt

CONSTANTS PROCESS_MAX_PROCS,
          NUM_PAGES,                 \* pages free when the kernel has booted
          WORD_BITS,                 \* pages per word of the freemap
          MEMORY_MAX_SHARED_PAGES,   \* size of spages
          PROCESS_MAX_PAGES          \* size of a page table

ASSUME SizesAssumption ==
  {PROCESS_MAX_PROCS, WORD_BITS, MEMORY_MAX_SHARED_PAGES, PROCESS_MAX_PAGES} \subseteq Nat \ {0}
ASSUME PagesAssumption == NUM_PAGES \in Nat /\ NUM_PAGES >= 2

VARIABLE s   \* the memory, spages and the page tables

Pids    == 0 .. (PROCESS_MAX_PROCS - 1)
Pages   == 1 .. NUM_PAGES
NoPage  == 0
Slots   == 1 .. MEMORY_MAX_SHARED_PAGES
NoProc  == [inuse |-> FALSE, pagetable |-> <<>>, sysStack |-> NoPage]

-----------------------------------------------------------------------------
\* Mutant: the freemap entry is not cleared.
MemoryAllocPageKeepsBit(m, page) ==
  [m EXCEPT !.nfreepages = @ - 1, !.mapnum = page \div WORD_BITS]

\* The free page found first: the word of the freemap found last is looked at
\* first, and the words are then taken in turn.
MapWords == NUM_PAGES \div WORD_BITS + 1
Distance(m, page) ==
  ((page \div WORD_BITS - m.mapnum + MapWords) % MapWords) * WORD_BITS + (page % WORD_BITS)
FirstFound(m) ==
  CHOOSE page \in m.freepages :
    \A other \in m.freepages : Distance(m, page) =< Distance(m, other)

MemoryAllocPage(m, page) ==
  [m EXCEPT !.freepages = @ \ {page}, !.nfreepages = @ - 1, !.mapnum = page \div WORD_BITS]

MemoryFreePage(m, page) ==
  [m EXCEPT !.freepages = @ \cup {page}, !.nfreepages = @ + 1]

-----------------------------------------------------------------------------
\* A slot is never emptied: it names the page it was made for even when nobody
\* maps that page any more.  The first slot that names a page is the one used.
SlotsOf(m, page)  == {k \in Slots : m.spages[k].page = page}
FirstSlot(m, page) == CHOOSE k \in SlotsOf(m, page) : \A j \in SlotsOf(m, page) : k =< j

AddPage(m, p, page) == [m EXCEPT !.procs[p].pagetable = Append(@, page)]

CanCreate(m, p) ==
  Len(m.procs[p].pagetable) # PROCESS_MAX_PAGES /\ SlotsOf(m, NoPage) # {}

MemoryCreateSharedPage(m, p) ==
  LET page == FirstFound(m)
  IN  AddPage([MemoryAllocPage(m, page) EXCEPT
                 !.spages[FirstSlot(m, NoPage)] = [page |-> page, ref |-> {p}]], p, page)

\* Mutant: the process is not entered as one that maps the page.
mmapForgetsRef(m, p, handle) ==
  IF handle \in ToSet(m.procs[p].pagetable) THEN m ELSE AddPage(m, p, handle)

\* Mutant: the page table may overflow.
CanMmapAlways(m, p, handle) == SlotsOf(m, handle) # {}

CanMmap(m, p, handle) ==
  /\ SlotsOf(m, handle) # {}
  /\ \/ handle \in ToSet(m.procs[p].pagetable)
     \/ Len(m.procs[p].pagetable) < PROCESS_MAX_PAGES

\* A page that is mapped already stays where it is.
mmap(m, p, handle) ==
  LET mapped == IF handle \in ToSet(m.procs[p].pagetable) THEN m ELSE AddPage(m, p, handle)
  IN  [mapped EXCEPT !.spages[FirstSlot(m, handle)].ref = @ \cup {p}]

\* Mutant: the page is freed by the first process that leaves it.
MemoryFreeSharedPteAtOnce(m, p, page) ==
  MemoryFreePage([m EXCEPT !.spages[FirstSlot(m, page)].ref = @ \ {p}], page)

MemoryFreeSharedPte(m, p, page) ==
  LET k    == FirstSlot(m, page)
      left == [m EXCEPT !.spages[k].ref = @ \ {p}]
  IN  IF left.spages[k].ref = {} THEN MemoryFreePage(left, page) ELSE left

-----------------------------------------------------------------------------
\* Every entry of the page table is first taken for a shared page.  Each one
\* that is makes npages smaller, and what is left of npages is then freed from
\* the first entry on.
ProcessFreeResources(m, p) ==
  LET table   == m.procs[p].pagetable
      shared  == {i \in DOMAIN table : SlotsOf(m, table[i]) # {}}
      npages  == Len(table) - Cardinality(shared)
      noShare == FoldLeft(LAMBDA n, i : IF i \in shared
                                        THEN MemoryFreeSharedPte(n, p, table[i]) ELSE n,
                          m, [i \in DOMAIN table |-> i])
      noPages == FoldLeft(MemoryFreePage, noShare, SubSeq(table, 1, npages))
  IN  [MemoryFreePage(noPages, m.procs[p].sysStack) EXCEPT !.procs[p] = NoProc]

\* The pages ProcessFork takes for the process p.
TakePages(m, p) ==
  LET newPage == FirstFound(m)
      user    == MemoryAllocPage(m, newPage)
      stack   == FirstFound(user)
  IN  [MemoryAllocPage(user, stack) EXCEPT
         !.procs[p] = [inuse |-> TRUE, pagetable |-> <<newPage>>, sysStack |-> stack]]

\* The first process has been forked.
Init ==
  s = TakePages([freepages |-> Pages, nfreepages |-> NUM_PAGES, mapnum |-> 0,
                 spages |-> [k \in Slots |-> [page |-> NoPage, ref |-> {}]],
                 procs  |-> [p \in Pids |-> NoProc]], 0)

InUse(p) == s.procs[p].inuse

\* A process forks another; if its program does not load, the pages go back.
\* A fork or a shmget that finds no free page calls exitsim(): nothing follows it.
Fork(p) ==
  /\ (\E q \in Pids : InUse(q)) /\ ~InUse(p)
  /\ Cardinality(s.freepages) >= 2
  /\ \/ s' = TakePages(s, p)
     \/ s' = ProcessFreeResources(TakePages(s, p), p)

Create(p) ==
  InUse(p) /\ CanCreate(s, p) /\ s.freepages # {} /\ s' = MemoryCreateSharedPage(s, p)

\* Any handle that shmget ever returned, to whomever; others are refused.
Map(p, handle) == InUse(p) /\ CanMmap(s, p, handle) /\ s' = mmap(s, p, handle)

Exit(p) == InUse(p) /\ s' = ProcessFreeResources(s, p)

-----------------------------------------------------------------------------
\* A handle is used while somebody maps the page it stands for.
MapLive(p, handle) ==
  (\E k \in SlotsOf(s, handle) : s.spages[k].ref # {}) /\ Map(p, handle)

Next == \E p \in Pids : \/ Fork(p) \/ Create(p) \/ Exit(p)
                        \/ \E handle \in Pages : MapLive(p, handle)

Spec == Init /\ [][Next]_s

\* The programs of the lab make their pages before any is given up, so that no page
\* is shared a second time.
CreateFresh(p) ==
  s.freepages # {} /\ SlotsOf(s, FirstFound(s)) = {} /\ Create(p)

FreshNext == \E p \in Pids : \/ Fork(p) \/ CreateFresh(p) \/ Exit(p)
                             \/ \E handle \in Pages : MapLive(p, handle)

FreshSpec == Init /\ [][FreshNext]_s

-----------------------------------------------------------------------------
\* Every variable has its type; page tables do not overflow.
TypeOK ==
  /\ s.freepages \subseteq Pages
  /\ s.nfreepages \in 0 .. NUM_PAGES
  /\ s.mapnum \in 0 .. MapWords - 1
  /\ s.spages \in [Slots -> [page : {NoPage} \cup Pages, ref : SUBSET Pids]]
  /\ \A p \in Pids : /\ s.procs[p].pagetable \in Seq(Pages)
                     /\ Len(s.procs[p].pagetable) =< PROCESS_MAX_PAGES
                     /\ s.procs[p].sysStack \in {NoPage} \cup Pages

Mapped(p) == ToSet(s.procs[p].pagetable)
Used      == UNION {Mapped(p) \cup {s.procs[p].sysStack} : p \in {q \in Pids : InUse(q)}}

\* A page is free if and only if no process uses it, and the count agrees:
\* whatever the order in which processes come, map and exit, no page is lost,
\* freed twice, or freed while it is mapped.
PagesConserved ==
  s.freepages = Pages \ Used /\ s.nfreepages = Cardinality(s.freepages)

\* The bits of a shared page are the processes that map it.
RefsAreMappings ==
  \A k \in Slots : s.spages[k].ref # {} =>
    s.spages[k].ref = {p \in Pids : s.spages[k].page \in Mapped(p)}

\* What a process does not share is its own: its stack and its first page are in
\* no other page table, even if they were shared pages once.
OwnPagesAreOwn ==
  \A p, q \in {r \in Pids : InUse(r)} :
    /\ s.procs[p].sysStack \notin Mapped(q)
    /\ p # q => /\ s.procs[p].sysStack # s.procs[q].sysStack
                /\ s.procs[p].pagetable[1] \notin Mapped(q)

\* A page is kept as long as a process maps it: "The page is not actually
\* deallocated untill all the process release it" (share_memory.h:28-30).
KeptWhileMapped == \A p \in Pids : InUse(p) => Mapped(p) \cap s.freepages = {}
=============================================================================
