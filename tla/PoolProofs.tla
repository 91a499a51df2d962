----------------------------- MODULE PoolProofs -----------------------------
(***************************************************************************)
(* The two pools of the kernel, for every size of them: the pages of       *)
(* memory, with the slots of the shared ones, and the links of queue.c.    *)
(*                                                                         *)
(* First SharedPages.  The inductive invariant is Paged: a free page is    *)
(* one that no live process uses (Counted), the bits of a slot are the     *)
(* processes that map its page and a page has one slot (Slotted), a page   *)
(* table is one page of its own and then shared ones (Furnished), and what *)
(* is its own is in no other page table (Separate).                        *)
(*                                                                         *)
(* Then LinkedQueues.  The inductive invariant is Sound: the memory is     *)
(* Listed, the lists being those its own pointers give.  Each list is a    *)
(* Chain, no link is on two (Chains), and the queue pointer of a link is   *)
(* that of its list (Known).  An operation on pointers is followed one     *)
(* assignment at a time (NextSet, PrevSet, QueueSet, EndsSet), while the   *)
(* lists it stands for change at one place.                                *)
(***************************************************************************)
EXTENDS SharedPages, LinkedQueues, QueueLemmas, FiniteSetTheorems

-----------------------------------------------------------------------------
\* Shared pages: the invariant, of the memory m.

Memories ==
  [freepages : SUBSET Pages, nfreepages : Int, mapnum : 0 .. MapWords - 1,
   spages : [Slots -> [page : {NoPage} \cup Pages, ref : SUBSET Pids]],
   procs : [Pids -> [inuse : BOOLEAN, pagetable : Seq(Pages), sysStack : {NoPage} \cup Pages]]]

MappedBy(m, p) == ToSet(m.procs[p].pagetable)
Alive(m)       == {p \in Pids : m.procs[p].inuse}
UsedIn(m)      == UNION {MappedBy(m, p) \cup {m.procs[p].sysStack} : p \in Alive(m)}

\* A page has one slot, and its bits are the processes that map it.
Slotted(m) ==
  /\ \A j, k \in Slots : m.spages[j].page = m.spages[k].page /\ m.spages[j].page # NoPage => j = k
  /\ \A k \in Slots : m.spages[k].page = NoPage => m.spages[k].ref = {}
  /\ \A k \in Slots : m.spages[k].ref # {} =>
       m.spages[k].ref = {p \in Pids : m.spages[k].page \in MappedBy(m, p)}

\* The first entry of a page table is the only one that is not shared; if it has a
\* slot, from the time when it was, nobody counts in it.
Furnished(m, p) ==
  LET pcb == m.procs[p]
      n   == Len(pcb.pagetable)
  IN  /\ pcb.sysStack \in Pages /\ n \in 1 .. PROCESS_MAX_PAGES /\ IsInjective(pcb.pagetable)
      /\ \A i \in 2 .. n : \E k \in Slots : m.spages[k].page = pcb.pagetable[i] /\ p \in m.spages[k].ref
      /\ \A k \in Slots : m.spages[k].page = pcb.pagetable[1] => m.spages[k].ref = {}

Separate(m) ==
  \A p, q \in Alive(m) :
    /\ m.procs[p].sysStack \notin MappedBy(m, q)
    /\ p # q => /\ m.procs[p].sysStack # m.procs[q].sysStack
                /\ m.procs[p].pagetable[1] \notin MappedBy(m, q)

Counted(m) ==
  m.freepages = Pages \ UsedIn(m) /\ m.nfreepages = Cardinality(m.freepages)

Paged(m) ==
  /\ m \in Memories /\ Slotted(m) /\ Separate(m) /\ Counted(m)
  /\ \A p \in Pids : IF m.procs[p].inuse THEN Furnished(m, p) ELSE m.procs[p] = NoProc

-----------------------------------------------------------------------------
\* What the searches find.

\* The word of a page is one of the map.
LEMMA WordOfPage ==
  ASSUME NEW page \in Pages
  PROVE  page \div WORD_BITS \in 0 .. MapWords - 1
<1> DEFINE w == WORD_BITS
<1>1. w \in Nat \ {0} /\ NUM_PAGES \in Nat /\ page \in Nat /\ page =< NUM_PAGES
  BY SizesAssumption, PagesAssumption DEF Pages
<1> HIDE DEF w
<1>2. \A a \in Nat : /\ a \div w \in Int /\ a % w \in 0 .. w - 1
                     /\ a = w * (a \div w) + (a % w)
  BY <1>1
<1> DEFINE a == page \div w
           b == NUM_PAGES \div w
<1>3. a \in Int /\ b \in Int /\ w * a > -w /\ w * a < w * b + w
  BY <1>1, <1>2
<1> HIDE DEF a, b
<1>4. a >= 0 /\ a =< b
  <2>1. w * (a + 1) > 0 /\ w * (b + 1 - a) > 0
    BY <1>1, <1>3
  <2>2. \A x \in Int : w * x > 0 => x > 0
    BY <1>1
  <2> QED BY <1>3, <2>1, <2>2
<1> QED BY <1>3, <1>4 DEF a, b, w, MapWords

\* The search of the free map ends at a free page if there is one.
LEMMA FirstFoundIsFree ==
  ASSUME NEW m \in Memories, m.freepages # {}
  PROVE  FirstFound(m) \in m.freepages
<1> DEFINE D == {Distance(m, page) : page \in m.freepages}
<1>1. D \in SUBSET Nat
  <2> SUFFICES ASSUME NEW page \in m.freepages PROVE Distance(m, page) \in Nat
    OBVIOUS
  <2> DEFINE x == page \div WORD_BITS - m.mapnum + MapWords
  <2>1. page \in Pages /\ WORD_BITS \in Nat \ {0} /\ page \in Nat /\ m.mapnum \in Int
    BY SizesAssumption DEF Memories, Pages
  <2>2. page \div WORD_BITS \in 0 .. MapWords - 1
    BY <2>1, WordOfPage
  <2>3. MapWords \in Nat \ {0}
    BY <2>2, SizesAssumption, PagesAssumption DEF MapWords
  <2>4. x \in Int
    BY <2>1, <2>2, <2>3
  <2> HIDE DEF x
  <2>5. x % MapWords \in Nat /\ page % WORD_BITS \in Nat
    BY <2>1, <2>3, <2>4
  <2>6. (x % MapWords) * WORD_BITS \in Nat
    BY <2>1, <2>5
  <2> QED BY <2>5, <2>6 DEF Distance, x
<1>2. D # {}
  OBVIOUS
<1>3. Min(D) \in D /\ \A y \in D : Min(D) =< y
  BY <1>1, <1>2, LeastNumber
<1>4. \E page \in m.freepages : \A other \in m.freepages : Distance(m, page) =< Distance(m, other)
  BY <1>3
<1> QED BY <1>4 DEF FirstFound

LEMMA FirstSlotOf ==
  ASSUME NEW m, NEW page, SlotsOf(m, page) # {}
  PROVE  FirstSlot(m, page) \in SlotsOf(m, page)
<1>1. SlotsOf(m, page) \in SUBSET Nat
  BY DEF SlotsOf, Slots
<1>2. \E k \in SlotsOf(m, page) : \A j \in SlotsOf(m, page) : k =< j
  BY <1>1, LeastNumber
<1> QED BY <1>2 DEF FirstSlot

\* The slot of a page that has one.
LEMMA TheSlot ==
  ASSUME NEW m, Slotted(m), NEW k \in Slots, m.spages[k].page # NoPage
  PROVE  SlotsOf(m, m.spages[k].page) = {k} /\ FirstSlot(m, m.spages[k].page) = k
<1>1. SlotsOf(m, m.spages[k].page) = {k}
  BY DEF SlotsOf, Slotted
<1> QED BY <1>1, FirstSlotOf

-----------------------------------------------------------------------------
\* The end of a process.

\* The two changes of a memory, field by field.
Memory(free, n, word, slots, procs) ==
  [freepages |-> free, nfreepages |-> n, mapnum |-> word, spages |-> slots, procs |-> procs]

LEMMA FreeInMemory ==
  ASSUME NEW f, NEW n \in Int, NEW w, NEW sp, NEW pr, NEW g
  PROVE  MemoryFreePage(Memory(f, n, w, sp, pr), g) = Memory(f \cup {g}, n + 1, w, sp, pr)
<1>1. [Memory(f, n, w, sp, pr) EXCEPT !.freepages = @ \cup {g}] = Memory(f \cup {g}, n, w, sp, pr)
  BY DEF Memory
<1>2. [Memory(f \cup {g}, n, w, sp, pr) EXCEPT !.nfreepages = @ + 1] = Memory(f \cup {g}, n + 1, w, sp, pr)
  BY DEF Memory
<1> QED BY <1>1, <1>2 DEF MemoryFreePage

LEMMA UnrefInMemory ==
  ASSUME NEW f, NEW n, NEW w, NEW sp, NEW pr, NEW p, NEW k
  PROVE  [Memory(f, n, w, sp, pr) EXCEPT !.spages[k].ref = @ \ {p}] =
           Memory(f, n, w, [sp EXCEPT ![k].ref = @ \ {p}], pr)
BY DEF Memory

\* What the first loop of ProcessFreeResources has done when it has seen the
\* entries I of the page table of p.
SharedBy(m, p) == {i \in DOMAIN m.procs[p].pagetable : SlotsOf(m, m.procs[p].pagetable[i]) # {}}
SlotAt(m, p, i) == FirstSlot(m, m.procs[p].pagetable[i])
LastAt(m, p, i) == m.spages[SlotAt(m, p, i)].ref \ {p} = {}
Gone(m, p, I) ==
  {m.procs[p].pagetable[i] : i \in {j \in I \cap SharedBy(m, p) : LastAt(m, p, j)}}
RefsLeft(m, p, I) ==
  [k \in Slots |-> [page |-> m.spages[k].page,
                    ref  |-> IF \E i \in I \cap SharedBy(m, p) : SlotAt(m, p, i) = k
                             THEN m.spages[k].ref \ {p} ELSE m.spages[k].ref]]
Left(m, p, I) ==
  Memory(m.freepages \cup Gone(m, p, I), m.nfreepages + Cardinality(Gone(m, p, I)), m.mapnum,
         RefsLeft(m, p, I), m.procs)

FreeEntry(m, p, n, i) ==
  IF i \in SharedBy(m, p) THEN MemoryFreeSharedPte(n, p, m.procs[p].pagetable[i]) ELSE n

LEMMA NothingLeft ==
  ASSUME NEW m \in Memories, NEW p \in Pids
  PROVE  Left(m, p, {}) = m
<1>1. Gone(m, p, {}) = {} /\ Cardinality({}) = 0
  BY FS_EmptySet DEF Gone
<1>2. RefsLeft(m, p, {}) = m.spages
  BY DEF RefsLeft, Memories
<1>3. m = Memory(m.freepages, m.nfreepages, m.mapnum, m.spages, m.procs)
  BY DEF Memories, Memory
<1>4. m.nfreepages + 0 = m.nfreepages
  BY DEF Memories
<1> QED BY <1>1, <1>2, <1>3, <1>4 DEF Left

\* One turn of the loop.
LEMMA EntryLeft ==
  ASSUME NEW m \in Memories, NEW p \in Pids, IsInjective(m.procs[p].pagetable),
         NEW I \in SUBSET DOMAIN m.procs[p].pagetable, NEW x \in I
  PROVE  Left(m, p, I) = FreeEntry(m, p, Left(m, p, I \ {x}), x)
<1> DEFINE T == m.procs[p].pagetable
           J == I \ {x}
           S == SharedBy(m, p)
           F == m.freepages \cup Gone(m, p, J)
           N == m.nfreepages + Cardinality(Gone(m, p, J))
           R == RefsLeft(m, p, J)
<1>1. T \in Seq(Pages) /\ S \subseteq DOMAIN T /\ IsInjective(T)
  BY DEF Memories, SharedBy
<1>2. Left(m, p, J) = Memory(F, N, m.mapnum, R, m.procs)
  BY DEF Left
<1>3. CASE x \notin S
  <2>1. Gone(m, p, I) = Gone(m, p, J)
    BY <1>3 DEF Gone
  <2>2. RefsLeft(m, p, I) = RefsLeft(m, p, J)
    BY <1>3 DEF RefsLeft
  <2> QED BY <1>3, <2>1, <2>2 DEF Left, FreeEntry
<1>4. CASE x \in S
  <2> DEFINE k == SlotAt(m, p, x)
             g == T[x]
             v == Memory(F, N, m.mapnum, R, m.procs)
             w == Memory(F, N, m.mapnum, [R EXCEPT ![k].ref = @ \ {p}], m.procs)
  <2>1. k \in Slots /\ m.spages[k].page = g
    BY <1>4, FirstSlotOf DEF SharedBy, SlotAt, SlotsOf
  <2>2. FirstSlot(v, g) = k
    <3>1. \A j \in Slots : v.spages[j].page = m.spages[j].page
      BY DEF RefsLeft, Memory
    <3>2. SlotsOf(v, g) = SlotsOf(m, g)
      BY <3>1 DEF SlotsOf
    <3> QED BY <3>2 DEF FirstSlot, SlotAt
  <2>3. [v EXCEPT !.spages[k].ref = @ \ {p}] = w
    <3> HIDE DEF F, N, R, k
    <3> QED BY UnrefInMemory DEF Memory
  <2>4. [R EXCEPT ![k].ref = @ \ {p}] = RefsLeft(m, p, I)
    <3> DEFINE Hit(L, j) == \E i \in L \cap S : SlotAt(m, p, i) = j
               r(L, j) == IF Hit(L, j) THEN m.spages[j].ref \ {p} ELSE m.spages[j].ref
    <3>1. Hit(I, k) /\ \A j \in Slots \ {k} : Hit(I, j) <=> Hit(J, j)
      BY <1>4
    <3>2. r(I, k) = r(J, k) \ {p} /\ \A j \in Slots \ {k} : r(I, j) = r(J, j)
      BY <3>1
    <3>3. \A L : RefsLeft(m, p, L) = [j \in Slots |-> [page |-> m.spages[j].page, ref |-> r(L, j)]]
      BY DEF RefsLeft
    <3> HIDE DEF r, k
    <3>4. R = [j \in Slots |-> [page |-> m.spages[j].page, ref |-> r(J, j)]]
      BY <3>3
    <3> HIDE DEF R
    <3>5. [R EXCEPT ![k].ref = @ \ {p}] =
            [j \in Slots |-> [page |-> m.spages[j].page, ref |-> IF j = k THEN r(J, j) \ {p} ELSE r(J, j)]]
      <4>1. [R[k] EXCEPT !.ref = @ \ {p}] = [page |-> m.spages[k].page, ref |-> r(J, k) \ {p}]
        <5>1. \A a, b : [[page |-> a, ref |-> b] EXCEPT !.ref = @ \ {p}] = [page |-> a, ref |-> b \ {p}]
          OBVIOUS
        <5>2. R[k] = [page |-> m.spages[k].page, ref |-> r(J, k)]
          BY <2>1, <3>4
        <5> QED BY <5>1, <5>2
      <4>2. [R EXCEPT ![k] = [page |-> m.spages[k].page, ref |-> r(J, k) \ {p}]] =
              [j \in Slots |-> [page |-> m.spages[j].page, ref |-> IF j = k THEN r(J, j) \ {p} ELSE r(J, j)]]
        BY <2>1, <3>4
      <4> QED BY <4>1, <4>2
    <3>6. \A j \in Slots : (IF j = k THEN r(J, j) \ {p} ELSE r(J, j)) = r(I, j)
      BY <3>2
    <3>7. RefsLeft(m, p, I) = [j \in Slots |-> [page |-> m.spages[j].page, ref |-> r(I, j)]]
      BY <3>3
    <3> QED BY <3>5, <3>6, <3>7
  <2>5. w.spages[k].ref = m.spages[k].ref \ {p}
    <3>1. w.spages = RefsLeft(m, p, I)
      BY <2>4 DEF Memory
    <3>2. k \in Slots /\ \E i \in I \cap S : SlotAt(m, p, i) = k
      BY <1>4, <2>1
    <3>3. RefsLeft(m, p, I)[k].ref = m.spages[k].ref \ {p}
      BY <3>2 DEF RefsLeft
    <3> QED BY <3>1, <3>3
  <2>6. FreeEntry(m, p, v, x) = IF LastAt(m, p, x) THEN MemoryFreePage(w, g) ELSE w
    <3> HIDE DEF v, w
    <3>1. MemoryFreeSharedPte(v, p, g) = IF w.spages[k].ref = {} THEN MemoryFreePage(w, g) ELSE w
      BY <2>2, <2>3 DEF MemoryFreeSharedPte
    <3> QED BY <1>4, <2>5, <3>1 DEF FreeEntry, LastAt
  <2>7. CASE ~LastAt(m, p, x)
    <3>1. Gone(m, p, I) = Gone(m, p, J)
      BY <2>7 DEF Gone
    <3> QED BY <1>2, <2>4, <2>6, <2>7, <3>1 DEF Left
  <2>8. CASE LastAt(m, p, x)
    <3>1. Gone(m, p, I) = Gone(m, p, J) \cup {g}
      BY <1>4, <2>8 DEF Gone
    <3>2. g \notin Gone(m, p, J)
      BY <1>1 DEF Gone, IsInjective
    <3>3. Gone(m, p, J) \in SUBSET Pages
      BY <1>1 DEF Gone
    <3>4. IsFiniteSet(Pages)
      BY PagesAssumption, FS_Interval DEF Pages
    <3>5. /\ Cardinality(Gone(m, p, J)) \in Nat
          /\ Cardinality(Gone(m, p, I)) = Cardinality(Gone(m, p, J)) + 1
      BY <3>1, <3>2, <3>3, <3>4, FS_Subset, FS_AddElement, FS_CardinalityType
    <3>6. m.nfreepages \in Int
      BY DEF Memories
    <3>7. N \in Int /\ N + 1 = m.nfreepages + Cardinality(Gone(m, p, I))
      BY <3>5, <3>6
    <3> HIDE DEF N
    <3>8. MemoryFreePage(w, g) = Memory(F \cup {g}, N + 1, m.mapnum, RefsLeft(m, p, I), m.procs)
      <4>1. w = Memory(F, N, m.mapnum, RefsLeft(m, p, I), m.procs)
        BY <2>4
      <4> HIDE DEF F, w
      <4> QED BY <3>7, <4>1, FreeInMemory
    <3> QED BY <1>2, <2>6, <2>8, <3>1, <3>7, <3>8 DEF Left
  <2> QED BY <2>7, <2>8
<1> QED BY <1>3, <1>4

\* Two functions on sets of indices are the same if they are the same for the
\* empty set, and for a set whenever they are for the set without its greatest.
SameSteps(n, g, h) ==
  \A x \in SUBSET (1 .. n) : (x = {} \/ h[x \ {Max(x)}] = g[x \ {Max(x)}]) => h[x] = g[x]

LEMMA SameFold ==
  ASSUME NEW n \in Nat, NEW g, NEW h, SameSteps(n, g, h)
  PROVE  \A x \in SUBSET (1 .. n) : h[x] = g[x]
<1> DEFINE Bad == {x \in SUBSET (1 .. n) : h[x] # g[x]}
           D   == {Cardinality(x) : x \in Bad}
<1>1. \A x \in SUBSET (1 .. n) : IsFiniteSet(x) /\ Cardinality(x) \in Nat
  <2>1. IsFiniteSet(1 .. n)
    BY FS_Interval
  <2> QED BY <2>1, FS_Subset, FS_CardinalityType
<1>2. SUFFICES ASSUME Bad # {} PROVE FALSE
  OBVIOUS
<1>3. D \in SUBSET Nat /\ D # {}
  BY <1>1, <1>2
<1>4. Min(D) \in D /\ \A y \in D : Min(D) =< y
  BY <1>3, LeastNumber
<1>5. PICK x \in Bad : Cardinality(x) = Min(D)
  BY <1>4
<1>6. x # {} /\ h[x \ {Max(x)}] # g[x \ {Max(x)}]
  BY <1>5 DEF SameSteps
<1>7. Max(x) \in x
  BY <1>5, <1>6, GreatestIndex
<1> DEFINE y == x \ {Max(x)}
<1>8. y \in Bad /\ Cardinality(y) = Cardinality(x) - 1
  BY <1>1, <1>5, <1>6, <1>7, FS_RemoveElement
<1>9. Cardinality(y) \in D /\ Cardinality(x) \in Nat
  BY <1>1, <1>5, <1>8
<1> HIDE DEF D, y
<1> QED BY <1>4, <1>5, <1>8, <1>9

\* The first loop of ProcessFreeResources.
FirstLoop(m, p) ==
  LET table  == m.procs[p].pagetable
      shared == {i \in DOMAIN table : SlotsOf(m, table[i]) # {}}
  IN  FoldLeft(LAMBDA n, i : IF i \in shared THEN MemoryFreeSharedPte(n, p, table[i]) ELSE n,
               m, [i \in DOMAIN table |-> i])

LEMMA EntriesFreed ==
  ASSUME NEW m \in Memories, NEW p \in Pids, IsInjective(m.procs[p].pagetable)
  PROVE  FirstLoop(m, p) = Left(m, p, DOMAIN m.procs[p].pagetable)
<1> DEFINE T     == m.procs[p].pagetable
           S     == {i \in DOMAIN T : SlotsOf(m, T[i]) # {}}
           id    == [i \in DOMAIN T |-> i]
           e(f, x) == IF x = {} THEN m
                      ELSE IF id[Max(x)] \in S THEN MemoryFreeSharedPte(f[x \ {Max(x)}], p, T[id[Max(x)]])
                           ELSE f[x \ {Max(x)}]
           P(f) == f = [x \in SUBSET DOMAIN id |-> e(f, x)]
           g    == [x \in SUBSET DOMAIN id |-> Left(m, p, x)]
           h    == CHOOSE f : P(f)
<1>1. T \in Seq(Pages) /\ Len(T) \in Nat /\ DOMAIN T = 1 .. Len(T) /\ DOMAIN id = DOMAIN T
  BY DEF Memories
<1>2. \A x \in SUBSET DOMAIN T : x # {} => Max(x) \in x
  BY <1>1, GreatestIndex
<1>3. \A x \in SUBSET DOMAIN T : x # {} =>
        Left(m, p, x) = FreeEntry(m, p, Left(m, p, x \ {Max(x)}), Max(x))
  BY <1>2, EntryLeft
<1>4. \A f : \A x \in SUBSET DOMAIN T :
        x # {} => e(f, x) = FreeEntry(m, p, f[x \ {Max(x)}], Max(x))
  BY <1>2 DEF FreeEntry, SharedBy
<1>5. P(g)
  <2> SUFFICES ASSUME NEW x \in SUBSET DOMAIN T PROVE Left(m, p, x) = e(g, x)
    BY <1>1
  <2>1. CASE x = {}
    BY <2>1, NothingLeft
  <2>2. CASE x # {}
    <3>1. g[x \ {Max(x)}] = Left(m, p, x \ {Max(x)})
      BY <1>1
    <3>2. Left(m, p, x) = FreeEntry(m, p, Left(m, p, x \ {Max(x)}), Max(x))
      BY <1>3, <2>2
    <3> HIDE DEF g, e
    <3>3. e(g, x) = FreeEntry(m, p, g[x \ {Max(x)}], Max(x))
      BY <1>4, <2>2
    <3> QED BY <3>1, <3>2, <3>3
  <2> QED BY <2>1, <2>2
<1>6. P(h)
  <2> HIDE DEF P
  <2> QED BY <1>5
<1>7. FirstLoop(m, p) = h[DOMAIN id]
  BY DEF FirstLoop, FoldLeft, MapThenFoldSet
<1> HIDE DEF h
<1>8. ASSUME NEW x \in SUBSET (1 .. Len(T)), x = {} \/ h[x \ {Max(x)}] = g[x \ {Max(x)}]
      PROVE  h[x] = g[x]
  <2>1. h[x] = e(h, x) /\ g[x] = e(g, x)
    <3> HIDE DEF e, g
    <3> QED BY <1>1, <1>5, <1>6
  <2> QED BY <1>8, <2>1
<1>9. \A x \in SUBSET (1 .. Len(T)) : h[x] = g[x]
  <2> HIDE DEF g
  <2>1. SameSteps(Len(T), g, h)
    BY <1>8 DEF SameSteps
  <2> QED BY <1>1, <2>1, SameFold
<1> QED BY <1>1, <1>7, <1>9

\* The second loop of ProcessFreeResources has at most one turn.
LEMMA NoEntryFreed ==
  ASSUME NEW n
  PROVE  FoldLeft(MemoryFreePage, n, <<>>) = n
<1> DEFINE q == <<>>
           P(f) == f = [x \in SUBSET DOMAIN q |->
                          IF x = {} THEN n ELSE MemoryFreePage(f[x \ {Max(x)}], q[Max(x)])]
           h == CHOOSE f : P(f)
<1>1. P([x \in SUBSET DOMAIN q |-> n])
  OBVIOUS
<1>2. P(h)
  <2> HIDE DEF P
  <2> QED BY <1>1
<1>3. FoldLeft(MemoryFreePage, n, q) = h[DOMAIN q]
  BY DEF FoldLeft, MapThenFoldSet
<1> HIDE DEF h
<1>4. h[{}] = n
  BY <1>2
<1> QED BY <1>3, <1>4

LEMMA OneEntryFreed ==
  ASSUME NEW n, NEW page
  PROVE  FoldLeft(MemoryFreePage, n, <<page>>) = MemoryFreePage(n, page)
<1> DEFINE q == <<page>>
           e(f, x) == IF x = {} THEN n ELSE MemoryFreePage(f[x \ {Max(x)}], q[Max(x)])
           P(f) == f = [x \in SUBSET DOMAIN q |-> e(f, x)]
           g == [x \in SUBSET DOMAIN q |-> IF x = {} THEN n ELSE MemoryFreePage(n, page)]
           h == CHOOSE f : P(f)
<1>1. DOMAIN q = {1} /\ q[1] = page /\ \A x \in SUBSET DOMAIN q : x = {} \/ x = {1}
  <2>1. DOMAIN q = {1} /\ q[1] = page
    OBVIOUS
  <2>2. \A x \in SUBSET {1} : x = {} \/ x = {1}
    OBVIOUS
  <2> QED BY <2>1, <2>2, Zenon
<1>2. Max({1}) = 1
  BY GreatestIndex
<1>3. P(g)
  <2>1. \A x \in SUBSET DOMAIN q : g[x] = e(g, x)
    <3>1. g[{}] = n /\ e(g, {}) = n
      OBVIOUS
    <3>2. g[{1}] = MemoryFreePage(n, page)
      BY <1>1
    <3>3. e(g, {1}) = MemoryFreePage(n, page)
      <4>1. {1} # {} /\ {1} \ {1} = {}
        OBVIOUS
      <4> HIDE DEF g
      <4> QED BY <1>1, <1>2, <3>1, <4>1
    <3> HIDE DEF g, e
    <3> QED BY <1>1, <3>1, <3>2, <3>3
  <2> HIDE DEF e
  <2> QED BY <2>1
<1>4. P(h)
  <2> HIDE DEF P
  <2> QED BY <1>3
<1>5. FoldLeft(MemoryFreePage, n, q) = h[DOMAIN q]
  BY DEF FoldLeft, MapThenFoldSet
<1> HIDE DEF h
<1>6. h[{1}] = MemoryFreePage(h[{}], page) /\ h[{}] = n
  <2>1. {} \in SUBSET DOMAIN q /\ {1} \in SUBSET DOMAIN q /\ {1} # {} /\ {1} \ {1} = {}
    OBVIOUS
  <2>2. h[{1}] = e(h, {1}) /\ h[{}] = e(h, {})
    <3> HIDE DEF e, q
    <3> QED BY <1>4, <2>1
  <2> QED BY <1>1, <1>2, <2>1, <2>2
<1> QED BY <1>1, <1>5, <1>6

LEMMA MemoryFields ==
  ASSUME NEW f, NEW n, NEW w, NEW sp, NEW pr
  PROVE  /\ Memory(f, n, w, sp, pr).freepages = f /\ Memory(f, n, w, sp, pr).nfreepages = n
         /\ Memory(f, n, w, sp, pr).mapnum = w /\ Memory(f, n, w, sp, pr).spages = sp
         /\ Memory(f, n, w, sp, pr).procs = pr
BY DEF Memory

\* The pages that nobody but p uses.
OnlyBy(m, p) == {page \in MappedBy(m, p) : \A q \in Pids \ {p} : page \notin MappedBy(m, q)}

\* Who does not run maps nothing.
LEMMA NobodyMaps ==
  ASSUME NEW m, Paged(m), NEW q \in Pids, ~m.procs[q].inuse
  PROVE  MappedBy(m, q) = {}
<1>1. m.procs[q].pagetable = <<>>
  BY DEF Paged, NoProc
<1> QED BY <1>1 DEF MappedBy, ToSet

\* What p still maps is in a slot that counts p; the first entry is in none, or
\* in one where nobody counts.
LEMMA EntriesOf ==
  ASSUME NEW m, Paged(m), NEW p \in Pids, m.procs[p].inuse
  PROVE  LET T == m.procs[p].pagetable
         IN  /\ T \in Seq(Pages) /\ Len(T) \in 1 .. PROCESS_MAX_PAGES /\ IsInjective(T)
             /\ DOMAIN T = 1 .. Len(T) /\ MappedBy(m, p) = {T[i] : i \in 1 .. Len(T)}
             /\ m.procs[p].sysStack \in Pages \ MappedBy(m, p)
             /\ 2 .. Len(T) \subseteq SharedBy(m, p)
             /\ \A i \in SharedBy(m, p) : /\ SlotAt(m, p, i) \in Slots
                                          /\ m.spages[SlotAt(m, p, i)].page = T[i]
                                          /\ \A k \in Slots : m.spages[k].page = T[i] => k = SlotAt(m, p, i)
             /\ \A i \in 2 .. Len(T) : p \in m.spages[SlotAt(m, p, i)].ref
             /\ 1 \in SharedBy(m, p) => m.spages[SlotAt(m, p, 1)].ref = {}
<1> DEFINE T == m.procs[p].pagetable
<1>1. T \in Seq(Pages) /\ Furnished(m, p) /\ Slotted(m) /\ Separate(m)
  BY DEF Paged, Memories
<1>2. Len(T) \in 1 .. PROCESS_MAX_PAGES /\ IsInjective(T) /\ DOMAIN T = 1 .. Len(T)
  BY <1>1 DEF Furnished
<1>3. MappedBy(m, p) = {T[i] : i \in 1 .. Len(T)}
  BY <1>2 DEF MappedBy, ToSet
<1>4. m.procs[p].sysStack \in Pages \ MappedBy(m, p)
  BY <1>1 DEF Furnished, Separate, Alive
<1>5. ASSUME NEW i \in SharedBy(m, p)
      PROVE  /\ i \in 1 .. Len(T) /\ SlotAt(m, p, i) \in Slots /\ m.spages[SlotAt(m, p, i)].page = T[i]
             /\ \A k \in Slots : m.spages[k].page = T[i] => k = SlotAt(m, p, i)
  <2>1. i \in 1 .. Len(T) /\ SlotsOf(m, T[i]) # {} /\ T[i] \in Pages
    BY <1>1, <1>2 DEF SharedBy
  <2>2. SlotAt(m, p, i) \in Slots /\ m.spages[SlotAt(m, p, i)].page = T[i]
    BY <2>1, FirstSlotOf DEF SlotAt, SlotsOf
  <2>3. T[i] # NoPage
    BY <2>1 DEF Pages, NoPage
  <2> QED BY <1>1, <2>1, <2>2, <2>3 DEF Slotted
<1>6. ASSUME NEW i \in 2 .. Len(T)
      PROVE  i \in SharedBy(m, p) /\ p \in m.spages[SlotAt(m, p, i)].ref
  <2>1. PICK k \in Slots : m.spages[k].page = T[i] /\ p \in m.spages[k].ref
    BY <1>1 DEF Furnished
  <2>2. i \in SharedBy(m, p)
    BY <1>2, <2>1 DEF SharedBy, SlotsOf
  <2> QED BY <1>5, <2>1, <2>2
<1>7. 1 \in SharedBy(m, p) => m.spages[SlotAt(m, p, 1)].ref = {}
  BY <1>1, <1>5 DEF Furnished
<1> QED BY <1>1, <1>2, <1>3, <1>4, <1>5, <1>6, <1>7

\* What an exit leaves in memory.
AfterExit(m, p) ==
  Memory(m.freepages \cup OnlyBy(m, p) \cup {m.procs[p].sysStack},
         m.nfreepages + Cardinality(OnlyBy(m, p)) + 1, m.mapnum,
         [k \in Slots |-> [page |-> m.spages[k].page, ref |-> m.spages[k].ref \ {p}]],
         [m.procs EXCEPT ![p] = NoProc])

LEMMA ExitResult ==
  ASSUME NEW m, Paged(m), NEW p \in Pids, m.procs[p].inuse
  PROVE  ProcessFreeResources(m, p) = AfterExit(m, p)
<1> DEFINE T == m.procs[p].pagetable
           n == Len(T)
           S == SharedBy(m, p)
           D == DOMAIN T
           N == n - Cardinality(S)
           v == Left(m, p, D)
           w == FoldLeft(MemoryFreePage, v, SubSeq(T, 1, N))
           U == [k \in Slots |-> [page |-> m.spages[k].page, ref |-> m.spages[k].ref \ {p}]]
<1>1. /\ m \in Memories /\ T \in Seq(Pages) /\ n \in Nat \ {0} /\ IsInjective(T) /\ D = 1 .. n
      /\ MappedBy(m, p) = {T[i] : i \in 1 .. n}
      /\ 2 .. n \subseteq S /\ S \subseteq 1 .. n
  BY EntriesOf DEF Paged, SharedBy
<1>2. ProcessFreeResources(m, p) = [MemoryFreePage(w, m.procs[p].sysStack) EXCEPT !.procs[p] = NoProc]
  <2>1. FirstLoop(m, p) = v
    BY <1>1, EntriesFreed
  <2>2. ProcessFreeResources(m, p) =
          [MemoryFreePage(FoldLeft(MemoryFreePage, FirstLoop(m, p), SubSeq(T, 1, N)), m.procs[p].sysStack)
             EXCEPT !.procs[p] = NoProc]
    BY DEF ProcessFreeResources, FirstLoop, SharedBy
  <2> HIDE DEF v
  <2> QED BY <2>1, <2>2
<1>3. RefsLeft(m, p, D) = U
  <2>1. ASSUME NEW k \in Slots
        PROVE  (IF \E i \in D \cap S : SlotAt(m, p, i) = k THEN m.spages[k].ref \ {p} ELSE m.spages[k].ref)
                 = m.spages[k].ref \ {p}
    <3>1. SUFFICES ASSUME p \in m.spages[k].ref PROVE \E i \in D \cap S : SlotAt(m, p, i) = k
      OBVIOUS
    <3>2. m.spages[k].page \in MappedBy(m, p)
      BY <3>1 DEF Paged, Slotted
    <3>3. PICK i \in 1 .. n : m.spages[k].page = T[i]
      BY <1>1, <3>2
    <3>4. i \in D \cap S
      BY <1>1, <3>3 DEF SharedBy, SlotsOf
    <3> QED BY <3>3, <3>4, EntriesOf
  <2> QED BY <2>1 DEF RefsLeft
<1>4. ASSUME NEW i \in S
      PROVE  LastAt(m, p, i) <=> T[i] \in OnlyBy(m, p)
  <2> DEFINE k == SlotAt(m, p, i)
  <2>1. k \in Slots /\ m.spages[k].page = T[i] /\ T[i] \in MappedBy(m, p)
    BY <1>1, EntriesOf
  <2>2. CASE i = 1
    <3>1. LastAt(m, p, i)
      BY <2>2, EntriesOf DEF LastAt
    <3>2. ASSUME NEW q \in Pids \ {p} PROVE T[1] \notin MappedBy(m, q)
      BY <3>2, NobodyMaps DEF Paged, Separate, Alive
    <3> QED BY <2>1, <2>2, <3>1, <3>2 DEF OnlyBy
  <2>3. CASE i # 1
    <3>1. i \in 2 .. n
      BY <1>1, <2>3
    <3>2. p \in m.spages[k].ref
      BY <3>1, EntriesOf
    <3>3. m.spages[k].ref = {q \in Pids : T[i] \in MappedBy(m, q)}
      BY <2>1, <3>2 DEF Paged, Slotted
    <3> QED BY <2>1, <3>3 DEF LastAt, OnlyBy
  <2> QED BY <2>2, <2>3
<1>5. Gone(m, p, D) = {T[i] : i \in {j \in S : T[j] \in OnlyBy(m, p)}}
  BY <1>1, <1>4 DEF Gone
<1>6. IsFiniteSet(OnlyBy(m, p)) /\ Cardinality(OnlyBy(m, p)) \in Nat /\ m.nfreepages \in Int
  <2>1. OnlyBy(m, p) \in SUBSET Pages
    BY <1>1 DEF OnlyBy
  <2>2. IsFiniteSet(Pages)
    BY PagesAssumption, FS_Interval DEF Pages
  <2> QED BY <1>1, <2>1, <2>2, FS_Subset, FS_CardinalityType DEF Memories
<1>7. T[1] \in OnlyBy(m, p)
  <2>1. ASSUME NEW q \in Pids \ {p} PROVE T[1] \notin MappedBy(m, q)
    BY <2>1, NobodyMaps DEF Paged, Separate, Alive
  <2> QED BY <1>1, <2>1 DEF OnlyBy
<1>8. w = Memory(m.freepages \cup OnlyBy(m, p), m.nfreepages + Cardinality(OnlyBy(m, p)), m.mapnum, U, m.procs)
  <2>1. CASE 1 \in S
    <3>1. S = 1 .. n
      <4>1. \A i \in 1 .. n : i = 1 \/ i \in 2 .. n
        BY <1>1
      <4> HIDE DEF S, n
      <4> QED BY <1>1, <2>1, <4>1
    <3>2. N = 0
      <4>1. Cardinality(1 .. n) = n
        BY <1>1, FS_Interval
      <4> HIDE DEF S, n
      <4> QED BY <1>1, <3>1, <4>1
    <3>3. SubSeq(T, 1, N) = <<>>
      BY <1>1, <3>2
    <3>4. Gone(m, p, D) = OnlyBy(m, p)
      BY <1>1, <1>5, <3>1 DEF OnlyBy
    <3> QED BY <1>3, <3>3, <3>4, NoEntryFreed DEF Left
  <2>2. CASE 1 \notin S
    <3>1. S = 2 .. n
      <4>1. \A i \in 1 .. n : i = 1 \/ i \in 2 .. n
        BY <1>1
      <4> HIDE DEF S, n
      <4> QED BY <1>1, <2>2, <4>1
    <3>2. N = 1
      <4> HIDE DEF S, n
      <4>1. Cardinality(2 .. n) = n - 1
        BY <1>1, FS_Interval
      <4> QED BY <1>1, <3>1, <4>1
    <3>3. SubSeq(T, 1, N) = <<T[1]>>
      <4>1. SubSeq(T, 1, 1) = <<T[1]>>
        <5> DEFINE q == SubSeq(T, 1, 1)
        <5>1. Len(T) \in Nat /\ Len(T) >= 1 /\ T \in Seq(Pages)
          BY <1>1
        <5>2. q \in Seq(Pages) /\ Len(q) = 1 /\ q[1] = T[1]
          BY <5>1
        <5>3. \A f \in Seq(Pages) : Len(f) = 1 => f = <<f[1]>>
          OBVIOUS
        <5> HIDE DEF q
        <5>4. q = <<T[1]>>
          BY <5>2, <5>3
        <5> QED BY <5>4 DEF q
      <4> QED BY <3>2, <4>1
    <3>4. Gone(m, p, D) = OnlyBy(m, p) \ {T[1]}
      <4>1. \A i \in 2 .. n : T[i] # T[1]
        BY <1>1 DEF IsInjective
      <4>2. OnlyBy(m, p) \subseteq {T[i] : i \in 1 .. n}
        BY <1>1 DEF OnlyBy
      <4>3. \A i \in 1 .. n : i = 1 \/ i \in 2 .. n
        BY <1>1
      <4> QED BY <1>5, <3>1, <4>1, <4>2, <4>3
    <3>5. Cardinality(Gone(m, p, D)) + 1 = Cardinality(OnlyBy(m, p)) /\ Cardinality(Gone(m, p, D)) \in Int
      <4> DEFINE O == OnlyBy(m, p)
                 t == T[1]
                 G == Gone(m, p, D)
      <4> HIDE DEF O, t, G
      <4>1. IsFiniteSet(O) /\ Cardinality(O) \in Nat /\ t \in O /\ G = O \ {t}
        BY <1>6, <1>7, <3>4 DEF O, t, G
      <4>2. Cardinality(G) = Cardinality(O) - 1
        BY <4>1, FS_RemoveElement
      <4>3. Cardinality(G) + 1 = Cardinality(O) /\ Cardinality(G) \in Int
        BY <4>1, <4>2
      <4> QED BY <4>3 DEF O, G
    <3>6. (m.freepages \cup Gone(m, p, D)) \cup {T[1]} = m.freepages \cup OnlyBy(m, p)
      BY <1>7, <3>4
    <3>7. /\ m.nfreepages + Cardinality(Gone(m, p, D)) \in Int
          /\ (m.nfreepages + Cardinality(Gone(m, p, D))) + 1 = m.nfreepages + Cardinality(OnlyBy(m, p))
      BY <1>6, <3>5
    <3>8. w = MemoryFreePage(v, T[1])
      BY <3>3, OneEntryFreed
    <3>9. v = Memory(m.freepages \cup Gone(m, p, D), m.nfreepages + Cardinality(Gone(m, p, D)),
                     m.mapnum, U, m.procs)
      BY <1>3 DEF Left
    <3> HIDE DEF v, w, U, D
    <3> QED BY <3>6, <3>7, <3>8, <3>9, FreeInMemory
  <2> QED BY <2>1, <2>2
<1>9. MemoryFreePage(w, m.procs[p].sysStack) =
        Memory(m.freepages \cup OnlyBy(m, p) \cup {m.procs[p].sysStack},
               m.nfreepages + Cardinality(OnlyBy(m, p)) + 1, m.mapnum, U, m.procs)
  <2>1. m.nfreepages + Cardinality(OnlyBy(m, p)) \in Int
    BY <1>6
  <2> HIDE DEF w, U
  <2> QED BY <1>8, <2>1, FreeInMemory
<1>10. \A a, b, c, d : [Memory(a, b, c, d, m.procs) EXCEPT !.procs[p] = NoProc] =
                          Memory(a, b, c, d, [m.procs EXCEPT ![p] = NoProc])
  BY DEF Memory
<1> HIDE DEF w
<1>11. ProcessFreeResources(m, p) =
         Memory(m.freepages \cup OnlyBy(m, p) \cup {m.procs[p].sysStack},
                m.nfreepages + Cardinality(OnlyBy(m, p)) + 1, m.mapnum, U, [m.procs EXCEPT ![p] = NoProc])
  <2> DEFINE F == m.freepages \cup OnlyBy(m, p) \cup {m.procs[p].sysStack}
             K == m.nfreepages + Cardinality(OnlyBy(m, p)) + 1
  <2>1. [Memory(F, K, m.mapnum, U, m.procs) EXCEPT !.procs[p] = NoProc] =
           Memory(F, K, m.mapnum, U, [m.procs EXCEPT ![p] = NoProc])
    BY <1>10
  <2>2. MemoryFreePage(w, m.procs[p].sysStack) = Memory(F, K, m.mapnum, U, m.procs)
    BY <1>9
  <2> HIDE DEF U, F, K
  <2>3. ProcessFreeResources(m, p) = Memory(F, K, m.mapnum, U, [m.procs EXCEPT ![p] = NoProc])
    BY <1>2, <2>1, <2>2
  <2> QED BY <2>3 DEF F, K
<1> QED BY <1>11 DEF AfterExit

-----------------------------------------------------------------------------
\* Each operation keeps the invariant.

LEMMA FinitePages ==
  ASSUME NEW S \in SUBSET Pages
  PROVE  IsFiniteSet(S) /\ Cardinality(S) \in 0 .. NUM_PAGES
<1>1. IsFiniteSet(Pages) /\ Cardinality(Pages) = NUM_PAGES
  BY PagesAssumption, FS_Interval DEF Pages
<1>2. IsFiniteSet(S) /\ Cardinality(S) =< NUM_PAGES
  BY <1>1, FS_Subset
<1> QED BY <1>2, FS_CardinalityType, PagesAssumption

LEMMA ExitPaged ==
  ASSUME NEW m, Paged(m), NEW p \in Pids, m.procs[p].inuse
  PROVE  Paged(AfterExit(m, p))
<1> DEFINE u   == AfterExit(m, p)
           stk == m.procs[p].sysStack
           R   == OnlyBy(m, p) \cup {stk}
<1>1. /\ u.freepages = m.freepages \cup R
      /\ u.nfreepages = m.nfreepages + Cardinality(OnlyBy(m, p)) + 1
      /\ u.mapnum = m.mapnum
      /\ u.spages = [k \in Slots |-> [page |-> m.spages[k].page, ref |-> m.spages[k].ref \ {p}]]
      /\ u.procs = [m.procs EXCEPT ![p] = NoProc]
  BY MemoryFields DEF AfterExit
<1>2. /\ m \in Memories /\ Slotted(m) /\ Separate(m) /\ Counted(m)
      /\ \A q \in Pids : IF m.procs[q].inuse THEN Furnished(m, q) ELSE m.procs[q] = NoProc
  BY DEF Paged
<1>3. /\ OnlyBy(m, p) \in SUBSET Pages /\ stk \in Pages \ MappedBy(m, p) /\ stk \notin OnlyBy(m, p)
      /\ m.freepages \in SUBSET Pages /\ m.nfreepages \in Int
  BY <1>2, EntriesOf DEF OnlyBy, Memories
<1>4. Cardinality(OnlyBy(m, p)) \in Nat /\ Cardinality(R) = Cardinality(OnlyBy(m, p)) + 1
  BY <1>3, FinitePages, FS_AddElement
<1>5. u \in Memories
  <2>1. u.freepages \in SUBSET Pages /\ u.nfreepages \in Int /\ u.mapnum \in 0 .. MapWords - 1
    BY <1>1, <1>2, <1>3, <1>4 DEF Memories
  <2>2. u.spages \in [Slots -> [page : {NoPage} \cup Pages, ref : SUBSET Pids]]
    <3>1. \A k \in Slots : m.spages[k].page \in {NoPage} \cup Pages /\ m.spages[k].ref \in SUBSET Pids
      BY <1>2 DEF Memories
    <3> HIDE DEF u
    <3> QED BY <1>1, <3>1
  <2>3. u.procs \in [Pids -> [inuse : BOOLEAN, pagetable : Seq(Pages), sysStack : {NoPage} \cup Pages]]
    BY <1>1, <1>2 DEF Memories, NoProc
  <2>4. u = Memory(u.freepages, u.nfreepages, u.mapnum, u.spages, u.procs)
    BY <1>1 DEF AfterExit
  <2> HIDE DEF u
  <2> QED BY <2>1, <2>2, <2>3, <2>4 DEF Memories, Memory
<1> HIDE DEF u
<1>6. /\ u.procs[p] = NoProc /\ MappedBy(u, p) = {} /\ ~u.procs[p].inuse
      /\ \A q \in Pids \ {p} : u.procs[q] = m.procs[q] /\ MappedBy(u, q) = MappedBy(m, q)
      /\ Alive(u) = Alive(m) \ {p}
  BY <1>1, <1>2 DEF Memories, NoProc, MappedBy, ToSet, Alive
<1>7. \A k \in Slots : u.spages[k].page = m.spages[k].page /\ u.spages[k].ref = m.spages[k].ref \ {p}
  BY <1>1
<1>8. Slotted(u)
  <2>1. ASSUME NEW k \in Slots, u.spages[k].ref # {}
        PROVE  u.spages[k].ref = {q \in Pids : u.spages[k].page \in MappedBy(u, q)}
    <3>1. m.spages[k].ref = {q \in Pids : m.spages[k].page \in MappedBy(m, q)}
      BY <1>2, <1>7, <2>1 DEF Slotted
    <3> QED BY <1>6, <1>7, <3>1
  <2>2. /\ \A j, k \in Slots : u.spages[j].page = u.spages[k].page /\ u.spages[j].page # NoPage => j = k
        /\ \A k \in Slots : u.spages[k].page = NoPage => u.spages[k].ref = {}
    BY <1>2, <1>7 DEF Slotted
  <2> QED BY <2>1, <2>2 DEF Slotted
<1>9. Separate(u)
  BY <1>2, <1>6 DEF Separate, Alive
<1>10. Counted(u)
  <2>1. m.freepages = Pages \ UsedIn(m) /\ m.nfreepages = Cardinality(m.freepages)
    BY <1>2 DEF Counted
  <2>2. R \in SUBSET Pages /\ R \subseteq UsedIn(m) /\ m.freepages \cap R = {}
    BY <1>3, <2>1 DEF UsedIn, OnlyBy, Alive
  <2>3. \A page : page \in UsedIn(u) <=> page \in UsedIn(m) /\ page \notin R
    <3>1. ASSUME NEW page \in UsedIn(u) PROVE page \in UsedIn(m) /\ page \notin R
      <4>1. PICK q \in Alive(m) \ {p} : page \in MappedBy(m, q) \cup {m.procs[q].sysStack}
        BY <1>6, <3>1 DEF UsedIn, Alive
      <4>2. p \in Alive(m) /\ page \notin R
        BY <1>2, <4>1 DEF Separate, OnlyBy, Alive
      <4> QED BY <4>1, <4>2 DEF UsedIn
    <3>2. ASSUME NEW page \in UsedIn(m), page \notin R PROVE page \in UsedIn(u)
      <4>1. PICK q \in Alive(m) : page \in MappedBy(m, q) \cup {m.procs[q].sysStack}
        BY DEF UsedIn
      <4>2. CASE q # p
        BY <1>6, <4>1, <4>2 DEF UsedIn, Alive
      <4>3. CASE q = p
        <5>1. PICK r \in Pids \ {p} : page \in MappedBy(m, r)
          BY <3>2, <4>1, <4>3 DEF OnlyBy
        <5>2. r \in Alive(m)
          BY <5>1, NobodyMaps DEF Alive
        <5> QED BY <1>6, <5>1, <5>2 DEF UsedIn
      <4> QED BY <4>2, <4>3
    <3> QED BY <3>1, <3>2
  <2>4. u.freepages = Pages \ UsedIn(u)
    BY <1>1, <2>1, <2>2, <2>3
  <2>5. u.nfreepages = Cardinality(u.freepages)
    <3>1. Cardinality(m.freepages \cup R) = Cardinality(m.freepages) + Cardinality(R) - Cardinality(m.freepages \cap R)
      BY <1>3, <2>2, FinitePages, FS_Union
    <3>2. Cardinality(m.freepages \cap R) = 0
      BY <2>2, FS_EmptySet
    <3> QED BY <1>1, <1>3, <1>4, <2>1, <3>1, <3>2
  <2> QED BY <2>4, <2>5 DEF Counted
<1>11. ASSUME NEW q \in Pids
       PROVE  IF u.procs[q].inuse THEN Furnished(u, q) ELSE u.procs[q] = NoProc
  <2>1. CASE q = p
    BY <1>6, <2>1
  <2>2. CASE q # p /\ ~m.procs[q].inuse
    BY <1>2, <1>6, <2>2
  <2>3. CASE q # p /\ m.procs[q].inuse
    <3>1. u.procs[q] = m.procs[q] /\ Furnished(m, q)
      BY <1>2, <1>6, <2>3
    <3>2. \A i \in 2 .. Len(m.procs[q].pagetable) :
            \E k \in Slots : u.spages[k].page = m.procs[q].pagetable[i] /\ q \in u.spages[k].ref
      BY <1>7, <2>3, <3>1 DEF Furnished
    <3>3. \A k \in Slots : u.spages[k].page = m.procs[q].pagetable[1] => u.spages[k].ref = {}
      BY <1>7, <3>1 DEF Furnished
    <3> QED BY <2>3, <3>1, <3>2, <3>3 DEF Furnished
  <2> QED BY <2>1, <2>2, <2>3
<1> QED BY <1>5, <1>8, <1>9, <1>10, <1>11 DEF Paged, u

\* A page that is taken from the free ones.
LEMMA TakeInMemory ==
  ASSUME NEW f, NEW n \in Int, NEW w, NEW sp, NEW pr, NEW page
  PROVE  MemoryAllocPage(Memory(f, n, w, sp, pr), page) =
           Memory(f \ {page}, n - 1, page \div WORD_BITS, sp, pr)
<1>1. [Memory(f, n, w, sp, pr) EXCEPT !.freepages = @ \ {page}] = Memory(f \ {page}, n, w, sp, pr)
  BY DEF Memory
<1>2. [Memory(f \ {page}, n, w, sp, pr) EXCEPT !.nfreepages = @ - 1] = Memory(f \ {page}, n - 1, w, sp, pr)
  BY DEF Memory
<1>3. [Memory(f \ {page}, n - 1, w, sp, pr) EXCEPT !.mapnum = page \div WORD_BITS] =
        Memory(f \ {page}, n - 1, page \div WORD_BITS, sp, pr)
  BY DEF Memory
<1> QED BY <1>1, <1>2, <1>3 DEF MemoryAllocPage

\* A memory is what its fields are.
LEMMA MemoryOf ==
  ASSUME NEW m \in Memories
  PROVE  m = Memory(m.freepages, m.nfreepages, m.mapnum, m.spages, m.procs)
BY DEF Memories, Memory

\* A free page is nobody's.
LEMMA FreeUnused ==
  ASSUME NEW m, Paged(m), NEW page \in m.freepages
  PROVE  /\ page \in Pages
         /\ \A q \in Pids : page \notin MappedBy(m, q) /\ (m.procs[q].inuse => m.procs[q].sysStack # page)
         /\ \A k \in Slots : m.spages[k].page = page => m.spages[k].ref = {}
<1>1. page \in Pages \ UsedIn(m) /\ Slotted(m) /\ m \in Memories
  BY DEF Paged, Counted
<1>2. \A q \in Pids : page \notin MappedBy(m, q) /\ (m.procs[q].inuse => m.procs[q].sysStack # page)
  BY <1>1, NobodyMaps DEF UsedIn, Alive
<1>3. ASSUME NEW k \in Slots, m.spages[k].page = page
      PROVE  m.spages[k].ref = {}
  BY <1>1, <1>2, <1>3 DEF Slotted
<1> QED BY <1>1, <1>2, <1>3

\* The process p takes a page of its own and a stack.
AfterTake(m, p, page, stack) ==
  Memory(m.freepages \ {page, stack}, m.nfreepages - 2, stack \div WORD_BITS, m.spages,
         [m.procs EXCEPT ![p] = [inuse |-> TRUE, pagetable |-> <<page>>, sysStack |-> stack]])

LEMMA TakeResult ==
  ASSUME NEW m \in Memories, NEW p \in Pids, Cardinality(m.freepages) >= 2
  PROVE  \E page, stack \in m.freepages : page # stack /\ TakePages(m, p) = AfterTake(m, p, page, stack)
<1> DEFINE page  == FirstFound(m)
           user  == MemoryAllocPage(m, page)
           stack == FirstFound(user)
           f     == m.freepages
           pcb   == [inuse |-> TRUE, pagetable |-> <<page>>, sysStack |-> stack]
<1>1. f \in SUBSET Pages /\ IsFiniteSet(f) /\ m.nfreepages \in Int
  BY FinitePages DEF Memories
<1>2. f # {} /\ page \in f
  BY <1>1, FS_EmptySet, FirstFoundIsFree
<1>3. user = Memory(f \ {page}, m.nfreepages - 1, page \div WORD_BITS, m.spages, m.procs)
  <2> HIDE DEF page
  <2> QED BY <1>1, MemoryOf, TakeInMemory
<1>4. user \in Memories
  BY <1>1, <1>2, <1>3, WordOfPage DEF Memories, Memory
<1>5. user.freepages = f \ {page} /\ user.freepages # {}
  <2>1. user.freepages = f \ {page}
    BY <1>3, MemoryFields
  <2>2. Cardinality(f \ {page}) = Cardinality(f) - 1
    BY <1>1, <1>2, FS_RemoveElement
  <2>3. Cardinality({}) = 0 /\ Cardinality(f) >= 2 /\ Cardinality(f) \in Nat
    BY <1>1, FS_EmptySet, FS_CardinalityType
  <2> HIDE DEF f, page, user
  <2> QED BY <2>1, <2>2, <2>3
<1>6. stack \in f /\ stack # page
  BY <1>4, <1>5, FirstFoundIsFree
<1>7. MemoryAllocPage(user, stack) =
        Memory(f \ {page, stack}, m.nfreepages - 2, stack \div WORD_BITS, m.spages, m.procs)
  <2> DEFINE F == f \ {page}
             N == m.nfreepages - 1
  <2>1. F \ {stack} = f \ {page, stack} /\ N - 1 = m.nfreepages - 2 /\ N \in Int
    BY <1>1
  <2>2. user = Memory(F, N, page \div WORD_BITS, m.spages, m.procs)
    BY <1>3
  <2> HIDE DEF F, N, user, stack, page, f
  <2> QED BY <2>1, <2>2, TakeInMemory
<1>8. TakePages(m, p) = AfterTake(m, p, page, stack)
  <2>1. TakePages(m, p) = [MemoryAllocPage(user, stack) EXCEPT !.procs[p] = pcb]
    BY DEF TakePages
  <2> HIDE DEF pcb
  <2>2. \A a, b, c, d : [Memory(a, b, c, d, m.procs) EXCEPT !.procs[p] = pcb] =
                          Memory(a, b, c, d, [m.procs EXCEPT ![p] = pcb])
    BY DEF Memory
  <2> HIDE DEF user, stack, page, f
  <2>3. TakePages(m, p) = Memory(f \ {page, stack}, m.nfreepages - 2, stack \div WORD_BITS, m.spages,
                                 [m.procs EXCEPT ![p] = pcb])
    <3> DEFINE X == MemoryAllocPage(user, stack)
               a == f \ {page, stack}
               b == m.nfreepages - 2
               c == stack \div WORD_BITS
    <3>1. X = Memory(a, b, c, m.spages, m.procs)
      BY <1>7
    <3>2. TakePages(m, p) = [X EXCEPT !.procs[p] = pcb]
      BY <2>1
    <3> HIDE DEF X, a, b, c
    <3>3. TakePages(m, p) = Memory(a, b, c, m.spages, [m.procs EXCEPT ![p] = pcb])
      BY <2>2, <3>1, <3>2
    <3> QED BY <3>3 DEF a, b, c
  <2> QED BY <2>3 DEF AfterTake, f, pcb
<1> QED BY <1>2, <1>6, <1>8

LEMMA TakePaged ==
  ASSUME NEW m, Paged(m), NEW p \in Pids, ~m.procs[p].inuse,
         NEW page \in m.freepages, NEW stack \in m.freepages, page # stack
  PROVE  Paged(AfterTake(m, p, page, stack))
<1> DEFINE u   == AfterTake(m, p, page, stack)
           pcb == [inuse |-> TRUE, pagetable |-> <<page>>, sysStack |-> stack]
<1>1. /\ u.freepages = m.freepages \ {page, stack} /\ u.nfreepages = m.nfreepages - 2
      /\ u.mapnum = stack \div WORD_BITS /\ u.spages = m.spages
      /\ u.procs = [m.procs EXCEPT ![p] = pcb]
  BY MemoryFields DEF AfterTake
<1>2. /\ m \in Memories /\ Slotted(m) /\ Separate(m) /\ Counted(m)
      /\ \A q \in Pids : IF m.procs[q].inuse THEN Furnished(m, q) ELSE m.procs[q] = NoProc
  BY DEF Paged
<1>3. page \in Pages /\ stack \in Pages /\ m.freepages \in SUBSET Pages /\ m.nfreepages \in Int
  BY <1>2 DEF Memories
<1>4. u \in Memories
  <2>1. u.freepages \in SUBSET Pages /\ u.nfreepages \in Int /\ u.mapnum \in 0 .. MapWords - 1
    BY <1>1, <1>3, WordOfPage
  <2>2. u.spages \in [Slots -> [page : {NoPage} \cup Pages, ref : SUBSET Pids]]
    BY <1>1, <1>2 DEF Memories
  <2>3. u.procs \in [Pids -> [inuse : BOOLEAN, pagetable : Seq(Pages), sysStack : {NoPage} \cup Pages]]
    <3>1. pcb \in [inuse : BOOLEAN, pagetable : Seq(Pages), sysStack : {NoPage} \cup Pages]
      BY <1>3
    <3> HIDE DEF pcb
    <3> QED BY <1>1, <1>2, <3>1 DEF Memories
  <2>4. u = Memory(u.freepages, u.nfreepages, u.mapnum, u.spages, u.procs)
    BY <1>1 DEF AfterTake
  <2> HIDE DEF u
  <2> QED BY <2>1, <2>2, <2>3, <2>4 DEF Memories, Memory
<1> HIDE DEF u
<1>5. /\ u.procs[p] = pcb /\ MappedBy(u, p) = {page} /\ u.procs[p].inuse
      /\ \A q \in Pids \ {p} : u.procs[q] = m.procs[q] /\ MappedBy(u, q) = MappedBy(m, q)
      /\ Alive(u) = Alive(m) \cup {p} /\ p \notin Alive(m)
  <2>1. u.procs[p] = pcb /\ \A q \in Pids \ {p} : u.procs[q] = m.procs[q]
    BY <1>1, <1>2 DEF Memories
  <2>2. ToSet(<<page>>) = {page}
    BY DEF ToSet
  <2> QED BY <2>1, <2>2 DEF MappedBy, Alive
<1>6. \A q \in Pids : /\ page \notin MappedBy(m, q) /\ stack \notin MappedBy(m, q)
                      /\ m.procs[q].inuse => m.procs[q].sysStack # page /\ m.procs[q].sysStack # stack
  BY FreeUnused
<1>7. \A k \in Slots : m.spages[k].page = page => m.spages[k].ref = {}
  BY FreeUnused
<1>8. Slotted(u)
  <2>1. ASSUME NEW k \in Slots, u.spages[k].ref # {}
        PROVE  u.spages[k].ref = {q \in Pids : u.spages[k].page \in MappedBy(u, q)}
    <3>1. m.spages[k].ref = {q \in Pids : m.spages[k].page \in MappedBy(m, q)}
      BY <1>1, <1>2, <2>1 DEF Slotted
    <3>2. m.spages[k].page # page /\ MappedBy(m, p) = {}
      BY <1>1, <1>7, <2>1, NobodyMaps
    <3> QED BY <1>1, <1>5, <3>1, <3>2
  <2>2. /\ \A j, k \in Slots : u.spages[j].page = u.spages[k].page /\ u.spages[j].page # NoPage => j = k
        /\ \A k \in Slots : u.spages[k].page = NoPage => u.spages[k].ref = {}
    BY <1>1, <1>2 DEF Slotted
  <2> QED BY <2>1, <2>2 DEF Slotted
<1>9. Separate(u)
  <2> SUFFICES ASSUME NEW q \in Alive(u), NEW r \in Alive(u)
               PROVE  /\ u.procs[q].sysStack \notin MappedBy(u, r)
                      /\ q # r => /\ u.procs[q].sysStack # u.procs[r].sysStack
                                  /\ u.procs[q].pagetable[1] \notin MappedBy(u, r)
    BY DEF Separate
  <2>1. CASE q = p
    BY <1>5, <1>6, <2>1 DEF Alive
  <2>2. CASE q # p /\ r = p
    <3>1. q \in Alive(m) /\ u.procs[q] = m.procs[q] /\ m.procs[q].pagetable[1] \in MappedBy(m, q)
      <4>1. q \in Alive(m) /\ u.procs[q] = m.procs[q]
        BY <1>5, <2>2 DEF Alive
      <4> QED BY <4>1, EntriesOf DEF Alive
    <3> QED BY <1>5, <1>6, <2>2, <3>1 DEF Alive
  <2>3. CASE q # p /\ r # p
    BY <1>2, <1>5, <2>3 DEF Separate, Alive
  <2> QED BY <2>1, <2>2, <2>3
<1>10. Counted(u)
  <2>1. m.freepages = Pages \ UsedIn(m) /\ m.nfreepages = Cardinality(m.freepages) /\ IsFiniteSet(m.freepages)
    BY <1>2, <1>3, FinitePages DEF Counted
  <2>2. UsedIn(u) = UsedIn(m) \cup {page, stack}
    BY <1>5 DEF UsedIn, Alive
  <2>3. Cardinality(m.freepages \ {page}) = Cardinality(m.freepages) - 1 /\ IsFiniteSet(m.freepages \ {page})
    BY <2>1, FS_RemoveElement
  <2>4. Cardinality((m.freepages \ {page}) \ {stack}) = Cardinality(m.freepages \ {page}) - 1
    BY <2>3, FS_RemoveElement
  <2>5. (m.freepages \ {page}) \ {stack} = m.freepages \ {page, stack}
    OBVIOUS
  <2>6. u.freepages = Pages \ UsedIn(u)
    BY <1>1, <2>1, <2>2
  <2>7. Cardinality(m.freepages \ {page, stack}) = Cardinality(m.freepages) - 2
    <3>1. Cardinality(m.freepages) \in Int
      BY <1>3, <2>1
    <3> QED BY <2>3, <2>4, <2>5, <3>1
  <2>8. u.nfreepages = Cardinality(u.freepages)
    BY <1>1, <2>1, <2>7
  <2> QED BY <2>6, <2>8 DEF Counted
<1>11. ASSUME NEW q \in Pids
       PROVE  IF u.procs[q].inuse THEN Furnished(u, q) ELSE u.procs[q] = NoProc
  <2>1. CASE q = p
    <3>1. Len(<<page>>) = 1 /\ <<page>>[1] = page /\ IsInjective(<<page>>) /\ 1 \in 1 .. PROCESS_MAX_PAGES
      BY SizesAssumption DEF IsInjective
    <3> QED BY <1>1, <1>3, <1>5, <1>7, <2>1, <3>1 DEF Furnished
  <2>2. CASE q # p
    BY <1>1, <1>2, <1>5, <2>2 DEF Furnished
  <2> QED BY <2>1, <2>2
<1> QED BY <1>4, <1>8, <1>9, <1>10, <1>11 DEF Paged, u

\* The process p gets the page at the end of its page table, and counts in slot k:
\* a new one for a free page, or the one the page has.
Mappers(m, page) == {q \in Pids : page \in MappedBy(m, q)}

Grown(m, p, page, k, word) ==
  Memory(m.freepages \ {page}, Cardinality(m.freepages \ {page}), word,
         [m.spages EXCEPT ![k] = [page |-> page, ref |-> Mappers(m, page) \cup {p}]],
         [m.procs EXCEPT ![p].pagetable = Append(@, page)])

MayCount(m, page, k) ==
  \/ page \in m.freepages /\ SlotsOf(m, page) = {} /\ m.spages[k].page = NoPage
  \/ m.spages[k].page = page /\ m.spages[k].ref # {}

LEMMA GrownPaged ==
  ASSUME NEW m, Paged(m), NEW p \in Pids, m.procs[p].inuse,
         NEW page \in Pages \ MappedBy(m, p), Len(m.procs[p].pagetable) < PROCESS_MAX_PAGES,
         NEW k \in Slots, MayCount(m, page, k), NEW word \in 0 .. MapWords - 1
  PROVE  Paged(Grown(m, p, page, k, word))
<1> DEFINE u    == Grown(m, p, page, k, word)
           T    == m.procs[p].pagetable
           slot == [page |-> page, ref |-> Mappers(m, page) \cup {p}]
<1>1. /\ u.freepages = m.freepages \ {page} /\ u.nfreepages = Cardinality(m.freepages \ {page})
      /\ u.mapnum = word /\ u.spages = [m.spages EXCEPT ![k] = slot]
      /\ u.procs = [m.procs EXCEPT ![p].pagetable = Append(@, page)]
  BY MemoryFields DEF Grown
<1>2. /\ m \in Memories /\ Slotted(m) /\ Separate(m) /\ Counted(m)
      /\ \A q \in Pids : IF m.procs[q].inuse THEN Furnished(m, q) ELSE m.procs[q] = NoProc
  BY DEF Paged
<1>3. /\ T \in Seq(Pages) /\ Len(T) \in Nat \ {0} /\ IsInjective(T) /\ page \notin ToSet(T)
      /\ m.freepages \in SUBSET Pages /\ page # NoPage
  BY <1>2, EntriesOf DEF Memories, MappedBy, Pages, NoPage
<1>4. /\ Append(T, page) \in Seq(Pages) /\ IsInjective(Append(T, page))
      /\ ToSet(Append(T, page)) = ToSet(T) \cup {page}
      /\ Len(Append(T, page)) = Len(T) + 1 /\ Append(T, page)[1] = T[1]
      /\ \A i \in 1 .. Len(T) : Append(T, page)[i] = T[i]
      /\ Append(T, page)[Len(T) + 1] = page
  <2>1. /\ Append(T, page) \in Seq(Pages) /\ IsInjective(Append(T, page))
        /\ ToSet(Append(T, page)) = ToSet(T) \cup {page}
    BY <1>3, AppendToQueue
  <2> DEFINE A == Append(T, page)
  <2>2. Len(A) = Len(T) + 1 /\ (\A i \in 1 .. Len(T) : A[i] = T[i]) /\ A[Len(T) + 1] = page
    <3> HIDE DEF T
    <3> QED BY <1>3
  <2>3. 1 \in 1 .. Len(T)
    BY <1>3
  <2> HIDE DEF A
  <2>4. A[1] = T[1]
    BY <2>2, <2>3
  <2> QED BY <2>1, <2>2, <2>4 DEF A
\* Who maps the page, and that it is nobody's own.
<1>5. /\ \A q \in Alive(m) : page # m.procs[q].sysStack /\ page # m.procs[q].pagetable[1]
      /\ page \in m.freepages \/ page \in UsedIn(m)
      /\ m.spages[k].page = page => m.spages[k].ref = Mappers(m, page)
      /\ page \in m.freepages => Mappers(m, page) = {}
  <2>1. CASE page \in m.freepages /\ SlotsOf(m, page) = {}
    <3>1. \A q \in Alive(m) : m.procs[q].pagetable[1] \in MappedBy(m, q)
      BY EntriesOf DEF Alive
    <3>2. m.spages[k].page # page
      BY <2>1 DEF SlotsOf
    <3> QED BY <2>1, <3>1, <3>2, FreeUnused DEF Alive, Mappers
  <2>2. CASE m.spages[k].page = page /\ m.spages[k].ref # {}
    <3>1. m.spages[k].ref = Mappers(m, page)
      BY <1>2, <2>2 DEF Slotted, Mappers
    <3>2. PICK r \in Pids : page \in MappedBy(m, r)
      BY <2>2, <3>1 DEF Mappers
    <3>3. r \in Alive(m)
      BY <3>2, NobodyMaps DEF Alive
    <3>4. \A q \in Alive(m) : page # m.procs[q].sysStack
      BY <1>2, <3>2, <3>3 DEF Separate
    <3>5. \A q \in Alive(m) : page # m.procs[q].pagetable[1]
      BY <1>2, <2>2 DEF Furnished, Alive
    <3>6. page \in UsedIn(m) /\ page \notin m.freepages
      BY <1>2, <3>2, <3>3 DEF UsedIn, Counted
    <3> QED BY <3>1, <3>4, <3>5, <3>6
  <2> QED BY <2>1, <2>2 DEF MayCount
<1>6. /\ u.procs[p].inuse /\ u.procs[p].sysStack = m.procs[p].sysStack
      /\ u.procs[p].pagetable = Append(T, page) /\ MappedBy(u, p) = MappedBy(m, p) \cup {page}
      /\ \A q \in Pids \ {p} : u.procs[q] = m.procs[q] /\ MappedBy(u, q) = MappedBy(m, q)
      /\ Alive(u) = Alive(m) /\ p \in Alive(m)
  <2>1. /\ u.procs[p].inuse /\ u.procs[p].sysStack = m.procs[p].sysStack
        /\ u.procs[p].pagetable = Append(T, page)
        /\ \A q \in Pids \ {p} : u.procs[q] = m.procs[q]
    <3> HIDE DEF u
    <3> QED BY <1>1, <1>2 DEF Memories
  <2> HIDE DEF u
  <2> QED BY <1>4, <2>1 DEF MappedBy, Alive
<1>7. u \in Memories
  <2>1. u.freepages \in SUBSET Pages /\ u.nfreepages \in Int
    <3>1. m.freepages \ {page} \in SUBSET Pages
      BY <1>3
    <3>2. Cardinality(m.freepages \ {page}) \in Int
      BY <3>1, FinitePages
    <3> HIDE DEF u
    <3> QED BY <1>1, <3>1, <3>2
  <2>2. u.spages \in [Slots -> [page : {NoPage} \cup Pages, ref : SUBSET Pids]]
    <3>1. slot \in [page : {NoPage} \cup Pages, ref : SUBSET Pids]
      BY DEF Mappers
    <3> HIDE DEF u, slot
    <3> QED BY <1>1, <1>2, <3>1 DEF Memories
  <2>3. u.procs \in [Pids -> [inuse : BOOLEAN, pagetable : Seq(Pages), sysStack : {NoPage} \cup Pages]]
    <3> DEFINE PCB == [inuse : BOOLEAN, pagetable : Seq(Pages), sysStack : {NoPage} \cup Pages]
               V   == Append(m.procs[p].pagetable, page)
    <3>1. m.procs \in [Pids -> PCB] /\ m.procs[p] \in PCB
      BY <1>2 DEF Memories
    <3>2. V \in Seq(Pages)
      BY <1>4
    <3>3. [m.procs[p] EXCEPT !.pagetable = V] \in PCB
      <4> HIDE DEF V
      <4> QED BY <3>1, <3>2
    <3>4. u.procs = [m.procs EXCEPT ![p] = [m.procs[p] EXCEPT !.pagetable = V]]
      <4> HIDE DEF u
      <4> QED BY <1>1
    <3> HIDE DEF u, V, PCB
    <3>5. u.procs \in [Pids -> PCB]
      BY <3>1, <3>3, <3>4
    <3> QED BY <3>5 DEF PCB
  <2>4. u = Memory(u.freepages, u.nfreepages, u.mapnum, u.spages, u.procs)
    BY <1>1 DEF Grown
  <2>5. u.mapnum \in 0 .. MapWords - 1
    BY <1>1
  <2> HIDE DEF u
  <2> QED BY <2>1, <2>2, <2>3, <2>4, <2>5 DEF Memories, Memory
<1> HIDE DEF u
<1>8. /\ u.spages[k].page = page /\ u.spages[k].ref = Mappers(m, page) \cup {p}
      /\ \A j \in Slots \ {k} : u.spages[j] = m.spages[j]
  BY <1>1, <1>2 DEF Memories
<1>9. \A j \in Slots \ {k} : m.spages[j].page # page
  BY <1>2, <1>3 DEF MayCount, SlotsOf, Slotted
<1>10. Slotted(u)
  <2>1. ASSUME NEW i \in Slots, NEW j \in Slots, u.spages[i].page = u.spages[j].page, u.spages[i].page # NoPage
        PROVE  i = j
    BY <1>2, <1>8, <1>9, <2>1 DEF Slotted
  <2>2. ASSUME NEW j \in Slots, u.spages[j].page = NoPage
        PROVE  u.spages[j].ref = {}
    BY <1>2, <1>3, <1>8, <2>2 DEF Slotted
  <2>3. ASSUME NEW j \in Slots, u.spages[j].ref # {}
        PROVE  u.spages[j].ref = {q \in Pids : u.spages[j].page \in MappedBy(u, q)}
    <3>1. CASE j = k
      BY <1>6, <1>8, <3>1 DEF Mappers
    <3>2. CASE j # k
      BY <1>2, <1>6, <1>8, <1>9, <2>3, <3>2 DEF Slotted
    <3> QED BY <3>1, <3>2
  <2> QED BY <2>1, <2>2, <2>3 DEF Slotted
<1>11. Separate(u)
  <2> SUFFICES ASSUME NEW q \in Alive(m), NEW r \in Alive(m)
               PROVE  /\ u.procs[q].sysStack \notin MappedBy(u, r)
                      /\ q # r => /\ u.procs[q].sysStack # u.procs[r].sysStack
                                  /\ u.procs[q].pagetable[1] \notin MappedBy(u, r)
    BY <1>6 DEF Separate
  <2>1. /\ u.procs[q].sysStack = m.procs[q].sysStack /\ u.procs[r].sysStack = m.procs[r].sysStack
        /\ u.procs[q].pagetable[1] = m.procs[q].pagetable[1]
        /\ MappedBy(u, r) \subseteq MappedBy(m, r) \cup {page}
    BY <1>4, <1>6 DEF Alive
  <2> QED BY <1>2, <1>5, <2>1 DEF Separate
<1>12. Counted(u)
  <2>1. UsedIn(u) = UsedIn(m) \cup {page}
    BY <1>6 DEF UsedIn, Alive
  <2> QED BY <1>1, <1>2, <2>1 DEF Counted
<1>13. ASSUME NEW q \in Pids
       PROVE  IF u.procs[q].inuse THEN Furnished(u, q) ELSE u.procs[q] = NoProc
  <2>1. CASE ~m.procs[q].inuse
    BY <1>2, <1>6, <2>1 DEF Alive
  <2>2. CASE m.procs[q].inuse
    <3>1. Furnished(m, q) /\ q \in Alive(m)
      BY <1>2, <2>2 DEF Alive
    <3>2. ASSUME NEW j \in Slots, q \in m.spages[j].ref
          PROVE  u.spages[j].page = m.spages[j].page /\ q \in u.spages[j].ref
      <4>1. CASE j = k
        <5>1. m.spages[k].page = page
          BY <1>2, <3>2, <4>1 DEF MayCount, Slotted
        <5> QED BY <1>5, <1>8, <3>2, <4>1, <5>1
      <4>2. CASE j # k
        BY <1>8, <3>2, <4>2
      <4> QED BY <4>1, <4>2
    <3>3. ASSUME NEW j \in Slots, u.spages[j].page = m.procs[q].pagetable[1]
          PROVE  u.spages[j].ref = {}
      BY <1>5, <1>8, <3>1, <3>3 DEF Furnished
    <3>4. CASE q # p
      <4>1. u.procs[q] = m.procs[q]
        BY <1>6, <3>4
      <4>2. ASSUME NEW i \in 2 .. Len(m.procs[q].pagetable)
            PROVE  \E j \in Slots : u.spages[j].page = m.procs[q].pagetable[i] /\ q \in u.spages[j].ref
        <5>1. PICK j \in Slots : m.spages[j].page = m.procs[q].pagetable[i] /\ q \in m.spages[j].ref
          BY <3>1 DEF Furnished
        <5> QED BY <3>2, <5>1
      <4> QED BY <2>2, <3>1, <3>3, <4>1, <4>2 DEF Furnished
    <3>5. CASE q = p
      <4> DEFINE V == Append(T, page)
      <4>1. u.procs[q].pagetable = V /\ u.procs[q].sysStack = m.procs[q].sysStack /\ u.procs[q].inuse
        BY <1>6, <3>5
      <4>2. Len(V) = Len(T) + 1 /\ Len(V) \in 1 .. PROCESS_MAX_PAGES /\ V[1] = T[1]
        BY <1>3, <1>4, SizesAssumption
      <4>3. ASSUME NEW i \in 2 .. Len(V)
            PROVE  \E j \in Slots : u.spages[j].page = V[i] /\ p \in u.spages[j].ref
        <5>1. CASE i = Len(T) + 1
          BY <1>4, <1>8, <5>1
        <5>2. CASE i # Len(T) + 1
          <6>1. i \in 2 .. Len(T) /\ V[i] = T[i]
            BY <1>3, <1>4, <4>2, <5>2
          <6>2. PICK j \in Slots : m.spages[j].page = T[i] /\ p \in m.spages[j].ref
            BY <3>1, <3>5, <6>1 DEF Furnished
          <6> QED BY <3>2, <3>5, <6>1, <6>2
        <5> QED BY <5>1, <5>2
      <4>4. m.procs[p].sysStack \in Pages
        BY <3>1, <3>5 DEF Furnished
      <4>5. \A j \in Slots : u.spages[j].page = V[1] => u.spages[j].ref = {}
        BY <3>3, <3>5, <4>2
      <4>6. IsInjective(V)
        BY <1>4
      <4> HIDE DEF V
      <4> QED BY <3>5, <4>1, <4>2, <4>3, <4>4, <4>5, <4>6 DEF Furnished
    <3> QED BY <3>4, <3>5
  <2> QED BY <2>1, <2>2
<1> QED BY <1>7, <1>10, <1>11, <1>12, <1>13 DEF Paged, u

LEMMA SlotInMemory ==
  ASSUME NEW f, NEW n, NEW w, NEW sp, NEW pr, NEW k, NEW slot
  PROVE  [Memory(f, n, w, sp, pr) EXCEPT !.spages[k] = slot] = Memory(f, n, w, [sp EXCEPT ![k] = slot], pr)
BY DEF Memory

LEMMA AddInMemory ==
  ASSUME NEW f, NEW n, NEW w, NEW sp, NEW pr, NEW p, NEW page
  PROVE  AddPage(Memory(f, n, w, sp, pr), p, page) =
           Memory(f, n, w, sp, [pr EXCEPT ![p].pagetable = Append(@, page)])
<1> DEFINE a(r) == [r EXCEPT ![p].pagetable = Append(@, page)]
<1>1. Memory(f, n, w, sp, pr).procs = pr
  BY DEF Memory
<1>2. AddPage(Memory(f, n, w, sp, pr), p, page) = [Memory(f, n, w, sp, pr) EXCEPT !.procs = a(@)]
  BY DEF AddPage
<1> HIDE DEF a
<1>3. [Memory(f, n, w, sp, pr) EXCEPT !.procs = a(@)] = Memory(f, n, w, sp, a(pr))
  BY <1>1 DEF Memory
<1>4. AddPage(Memory(f, n, w, sp, pr), p, page) = Memory(f, n, w, sp, a(pr))
  BY <1>2, <1>3
<1> QED BY <1>4 DEF a

LEMMA CreatePaged ==
  ASSUME NEW m, Paged(m), NEW p \in Pids, m.procs[p].inuse, CanCreate(m, p), m.freepages # {},
         SlotsOf(m, FirstFound(m)) = {}
  PROVE  Paged(MemoryCreateSharedPage(m, p))
<1> DEFINE page == FirstFound(m)
           k    == FirstSlot(m, NoPage)
           word == page \div WORD_BITS
           F    == m.freepages \ {page}
           N    == Cardinality(F)
           PT   == [m.procs EXCEPT ![p].pagetable = Append(@, page)]
           SP   == [m.spages EXCEPT ![k] = [page |-> page, ref |-> {p}]]
<1>1. m \in Memories /\ page \in m.freepages /\ page \in Pages /\ page \notin MappedBy(m, p)
  BY FirstFoundIsFree, FreeUnused DEF Paged
<1>2. Mappers(m, page) \cup {p} = {p}
  BY <1>1, FreeUnused DEF Mappers
<1>3. k \in Slots /\ m.spages[k].page = NoPage
  BY FirstSlotOf DEF CanCreate, SlotsOf
<1>4. Len(m.procs[p].pagetable) < PROCESS_MAX_PAGES
  <2>1. Len(m.procs[p].pagetable) \in 1 .. PROCESS_MAX_PAGES /\ Len(m.procs[p].pagetable) # PROCESS_MAX_PAGES
    BY EntriesOf DEF CanCreate
  <2> QED BY <2>1, SizesAssumption
<1>5. m.nfreepages \in Int /\ m.nfreepages - 1 = N
  <2>1. m.nfreepages = Cardinality(m.freepages) /\ m.freepages \in SUBSET Pages
    BY <1>1 DEF Paged, Counted, Memories
  <2> QED BY <1>1, <2>1, FinitePages, FS_RemoveElement
<1>6. MemoryAllocPage(m, page) = Memory(F, N, word, m.spages, m.procs)
  <2>1. m = Memory(m.freepages, m.nfreepages, m.mapnum, m.spages, m.procs)
    BY <1>1, MemoryOf
  <2> HIDE DEF page
  <2> QED BY <1>5, <2>1, TakeInMemory
<1>7. MemoryCreateSharedPage(m, p) = Memory(F, N, word, SP, PT)
  <2> DEFINE X == MemoryAllocPage(m, page)
             slot == [page |-> page, ref |-> {p}]
             Y == [X EXCEPT !.spages[k] = slot]
  <2>1. MemoryCreateSharedPage(m, p) = AddPage(Y, p, page)
    BY DEF MemoryCreateSharedPage
  <2>2. X = Memory(F, N, word, m.spages, m.procs)
    BY <1>6
  <2>3. Y = Memory(F, N, word, SP, m.procs)
    <3> HIDE DEF X, F, N, word, k, page
    <3>1. [Memory(F, N, word, m.spages, m.procs) EXCEPT !.spages[k] = slot] = Memory(F, N, word, SP, m.procs)
      <4> HIDE DEF slot
      <4>1. [Memory(F, N, word, m.spages, m.procs) EXCEPT !.spages[k] = slot] =
              Memory(F, N, word, [m.spages EXCEPT ![k] = slot], m.procs)
        BY SlotInMemory DEF Memory
      <4> QED BY <4>1 DEF slot
    <3> QED BY <2>2, <3>1
  <2> HIDE DEF Y, F, N, word, SP, page
  <2> QED BY <2>1, <2>3, AddInMemory
<1>8. MemoryCreateSharedPage(m, p) = Grown(m, p, page, k, word)
  BY <1>2, <1>7 DEF Grown
<1>9. MayCount(m, page, k)
  BY <1>1, <1>3 DEF MayCount
<1>10. word \in 0 .. MapWords - 1
  BY <1>1, WordOfPage
<1> HIDE DEF page, k, word
<1> QED BY <1>1, <1>3, <1>4, <1>8, <1>9, <1>10, GrownPaged DEF page

LEMMA MapPaged ==
  ASSUME NEW m, Paged(m), NEW p \in Pids, m.procs[p].inuse, NEW handle \in Pages,
         CanMmap(m, p, handle), \E k \in SlotsOf(m, handle) : m.spages[k].ref # {}
  PROVE  Paged(mmap(m, p, handle))
<1> DEFINE k  == FirstSlot(m, handle)
           PT == [m.procs EXCEPT ![p].pagetable = Append(@, handle)]
           SP == [m.spages EXCEPT ![k].ref = @ \cup {p}]
<1>1. m \in Memories /\ Slotted(m) /\ Counted(m) /\ handle # NoPage
  BY DEF Paged, Pages, NoPage
<1>2. k \in Slots /\ m.spages[k].page = handle /\ m.spages[k].ref # {}
  <2>1. PICK j \in Slots : m.spages[j].page = handle /\ m.spages[j].ref # {}
    BY DEF SlotsOf
  <2>2. k = j
    BY <1>1, <2>1, TheSlot
  <2> QED BY <2>1, <2>2
<1>3. m.spages[k].ref = Mappers(m, handle)
  BY <1>1, <1>2 DEF Slotted, Mappers
<1>4. m.spages[k] = [page |-> handle, ref |-> Mappers(m, handle)]
  <2>1. m.spages[k] \in [page : {NoPage} \cup Pages, ref : SUBSET Pids]
    BY <1>1, <1>2 DEF Memories
  <2> HIDE DEF k
  <2> QED BY <1>2, <1>3, <2>1
<1>5. SP = [m.spages EXCEPT ![k] = [page |-> handle, ref |-> Mappers(m, handle) \cup {p}]]
  <2>1. ASSUME NEW a, NEW b, NEW c
        PROVE  [[page |-> a, ref |-> b] EXCEPT !.ref = c] = [page |-> a, ref |-> c]
    OBVIOUS
  <2>2. [m.spages[k] EXCEPT !.ref = @ \cup {p}] = [page |-> handle, ref |-> Mappers(m, handle) \cup {p}]
    <3> DEFINE X == m.spages[k]
               c == X.ref \cup {p}
    <3>1. X = [page |-> handle, ref |-> Mappers(m, handle)]
      BY <1>4
    <3>2. c = Mappers(m, handle) \cup {p}
      BY <1>3
    <3> HIDE DEF X, c
    <3>3. [X EXCEPT !.ref = c] = [page |-> handle, ref |-> Mappers(m, handle) \cup {p}]
      BY <2>1, <3>1, <3>2
    <3> QED BY <3>3 DEF X, c
  <2> QED BY <2>2
<1>6. CASE handle \in ToSet(m.procs[p].pagetable)
  <2>1. Mappers(m, handle) \cup {p} = Mappers(m, handle)
    BY <1>6 DEF Mappers, MappedBy
  <2>2. SP = m.spages
    BY <1>1, <1>2, <1>4, <1>5, <2>1 DEF Memories
  <2>3. mmap(m, p, handle) = [m EXCEPT !.spages = SP]
    BY <1>6 DEF mmap
  <2>4. mmap(m, p, handle) = m
    <3> HIDE DEF SP
    <3> QED BY <1>1, <2>2, <2>3 DEF Memories
  <2> QED BY <2>4
<1>7. CASE handle \notin ToSet(m.procs[p].pagetable)
  <2> DEFINE X == AddPage(m, p, handle)
             F == m.freepages
             N == m.nfreepages
             w == m.mapnum
  <2>1. X = Memory(F, N, w, m.spages, PT)
    <3>1. m = Memory(F, N, w, m.spages, m.procs)
      BY <1>1, MemoryOf
    <3>2. AddPage(Memory(F, N, w, m.spages, m.procs), p, handle) = Memory(F, N, w, m.spages, PT)
      BY AddInMemory
    <3> QED BY <3>1, <3>2
  <2>2. mmap(m, p, handle) = [X EXCEPT !.spages = [X.spages EXCEPT ![k].ref = @ \cup {p}]]
    BY <1>7 DEF mmap
  <2>3. mmap(m, p, handle) = Memory(F, N, w, SP, PT)
    <3>1. X.spages = m.spages
      BY <2>1, MemoryFields
    <3>2. mmap(m, p, handle) = [X EXCEPT !.spages = SP]
      <4> HIDE DEF X, k
      <4> QED BY <2>2, <3>1
    <3>3. [Memory(F, N, w, m.spages, PT) EXCEPT !.spages = SP] = Memory(F, N, w, SP, PT)
      <4> HIDE DEF SP, PT
      <4> QED BY DEF Memory
    <3> HIDE DEF X, SP, PT
    <3> QED BY <2>1, <3>2, <3>3
  <2>4. handle \notin m.freepages
    BY <1>2, FreeUnused
  <2>5. m.freepages \ {handle} = F /\ Cardinality(m.freepages \ {handle}) = N
    BY <1>1, <2>4 DEF Counted
  <2>6. mmap(m, p, handle) = Grown(m, p, handle, k, w)
    BY <1>5, <2>3, <2>5 DEF Grown
  <2>7. MayCount(m, handle, k) /\ Len(m.procs[p].pagetable) < PROCESS_MAX_PAGES
    BY <1>2, <1>7 DEF MayCount, CanMmap
  <2>8. w \in 0 .. MapWords - 1 /\ handle \in Pages \ MappedBy(m, p)
    BY <1>1, <1>7 DEF Memories, MappedBy
  <2> HIDE DEF k, w
  <2> QED BY <1>2, <2>6, <2>7, <2>8, GrownPaged
<1> QED BY <1>6, <1>7

-----------------------------------------------------------------------------
\* The specification.

LEMMA BootPaged ==
  ASSUME Init
  PROVE  Paged(s)
<1> DEFINE SP == [k \in Slots |-> [page |-> NoPage, ref |-> {}]]
           PR == [p \in Pids |-> NoProc]
           m  == Memory(Pages, NUM_PAGES, 0, SP, PR)
<1>1. /\ m.freepages = Pages /\ m.nfreepages = NUM_PAGES /\ m.mapnum = 0
      /\ m.spages = SP /\ m.procs = PR
  BY MemoryFields
<1>2. 0 \in Pids
  BY SizesAssumption DEF Pids
<1>3. Cardinality(Pages) = NUM_PAGES /\ NUM_PAGES \in Int /\ NUM_PAGES >= 2
  BY PagesAssumption, FS_Interval DEF Pages
<1>4. m \in Memories
  <2>1. 0 \in 0 .. MapWords - 1
    <3>1. 1 \in Pages
      BY PagesAssumption DEF Pages
    <3>2. 1 \div WORD_BITS \in 0 .. MapWords - 1
      BY <3>1, WordOfPage
    <3> DEFINE n == MapWords - 1
    <3>3. n \in Int
      <4>1. NUM_PAGES \div WORD_BITS \in Int
        BY SizesAssumption, PagesAssumption
      <4> QED BY <4>1 DEF MapWords
    <3> HIDE DEF n
    <3>4. 0 \in 0 .. n
      BY <3>2, <3>3 DEF n
    <3> QED BY <3>4 DEF n
  <2>2. SP \in [Slots -> [page : {NoPage} \cup Pages, ref : SUBSET Pids]]
    OBVIOUS
  <2>3. PR \in [Pids -> [inuse : BOOLEAN, pagetable : Seq(Pages), sysStack : {NoPage} \cup Pages]]
    BY DEF NoProc
  <2> HIDE DEF SP, PR
  <2> QED BY <1>3, <2>1, <2>2, <2>3 DEF Memories, Memory
<1> HIDE DEF m
<1>5. \A p \in Pids : m.procs[p] = NoProc /\ ~m.procs[p].inuse
  BY <1>1 DEF NoProc
<1>6. Alive(m) = {} /\ UsedIn(m) = {}
  BY <1>5 DEF Alive, UsedIn
<1>7. Slotted(m)
  BY <1>1 DEF Slotted
<1>8. Paged(m)
  BY <1>1, <1>3, <1>4, <1>5, <1>6, <1>7 DEF Paged, Separate, Counted
<1>9. PICK page, stack \in m.freepages : page # stack /\ TakePages(m, 0) = AfterTake(m, 0, page, stack)
  BY <1>1, <1>2, <1>3, <1>4, TakeResult
<1>10. Paged(TakePages(m, 0))
  BY <1>2, <1>5, <1>8, <1>9, TakePaged
<1> QED BY <1>10 DEF Init, m, Memory

LEMMA StepPaged ==
  ASSUME Paged(s), FreshNext
  PROVE  Paged(s')
<1>1. ASSUME NEW p \in Pids, Fork(p)
      PROVE  Paged(s')
  <2>1. ~s.procs[p].inuse /\ Cardinality(s.freepages) >= 2 /\ s \in Memories
    BY <1>1 DEF Fork, InUse, Paged
  <2>2. PICK page, stack \in s.freepages : page # stack /\ TakePages(s, p) = AfterTake(s, p, page, stack)
    BY <2>1, TakeResult
  <2>3. Paged(TakePages(s, p))
    BY <2>1, <2>2, TakePaged
  <2>4. TakePages(s, p).procs[p].inuse
    <3>1. p \in DOMAIN s.procs
      BY <2>1 DEF Memories
    <3> QED BY <2>2, <3>1 DEF AfterTake, Memory
  <2>5. CASE s' = TakePages(s, p)
    BY <2>3, <2>5
  <2>6. CASE s' = ProcessFreeResources(TakePages(s, p), p)
    BY <2>3, <2>4, <2>6, ExitResult, ExitPaged
  <2> QED BY <1>1, <2>5, <2>6 DEF Fork
<1>2. ASSUME NEW p \in Pids, CreateFresh(p)
      PROVE  Paged(s')
  BY <1>2, CreatePaged DEF CreateFresh, Create, InUse
<1>3. ASSUME NEW p \in Pids, Exit(p)
      PROVE  Paged(s')
  BY <1>3, ExitResult, ExitPaged DEF Exit, InUse
<1>4. ASSUME NEW p \in Pids, NEW handle \in Pages, MapLive(p, handle)
      PROVE  Paged(s')
  BY <1>4, MapPaged DEF MapLive, Map, InUse
<1> QED BY <1>1, <1>2, <1>3, <1>4 DEF FreshNext

\* Whatever the order in which the processes of the lab fork, share and exit, the
\* invariant holds.
THEOREM AlwaysPaged == FreshSpec => []Paged(s)
<1>1. Init => Paged(s)
  BY BootPaged
<1>2. Paged(s) /\ [FreshNext]_s => Paged(s)'
  <2>1. Paged(s) /\ FreshNext => Paged(s')
    BY StepPaged
  <2>2. Paged(s) /\ UNCHANGED s => Paged(s')
    OBVIOUS
  <2>3. Paged(s') => Paged(s)'
    BY DEF Paged, Memories, Slotted, Separate, Counted, Furnished, MappedBy, Alive, UsedIn
  <2> QED BY <2>1, <2>2, <2>3
<1> QED BY <1>1, <1>2, PTL DEF FreshSpec

\* Every variable has its type, and no page table overflows.
THEOREM PagesAreTyped == FreshSpec => []TypeOK
<1>1. Paged(s) => TypeOK
  <2> SUFFICES ASSUME Paged(s) PROVE TypeOK
    OBVIOUS
  <2>1. s \in Memories /\ s.nfreepages = Cardinality(s.freepages) /\ s.freepages \in SUBSET Pages
    BY DEF Paged, Counted, Memories
  <2>2. s.nfreepages \in 0 .. NUM_PAGES
    BY <2>1, FinitePages
  <2>3. ASSUME NEW p \in Pids
        PROVE  /\ s.procs[p].pagetable \in Seq(Pages) /\ Len(s.procs[p].pagetable) =< PROCESS_MAX_PAGES
               /\ s.procs[p].sysStack \in {NoPage} \cup Pages
    <3>1. s.procs[p].pagetable \in Seq(Pages) /\ s.procs[p].sysStack \in {NoPage} \cup Pages
      BY <2>1 DEF Memories
    <3>2. CASE s.procs[p].inuse
      BY <3>1, <3>2, EntriesOf
    <3>3. CASE ~s.procs[p].inuse
      <4>1. Len(s.procs[p].pagetable) = 0
        BY <3>3 DEF Paged, NoProc
      <4> QED BY <3>1, <4>1, SizesAssumption
    <3> QED BY <3>1, <3>2, <3>3
  <2> QED BY <2>1, <2>2, <2>3 DEF TypeOK, Memories
<1> QED BY <1>1, AlwaysPaged, PTL

\* A page is free if and only if nobody uses it, and the kernel's count of free
\* pages is right: no page is lost, freed twice or freed while it is mapped.
THEOREM PagesAreConserved == FreshSpec => []PagesConserved
<1>1. Paged(s) => PagesConserved
  <2>1. Used = UsedIn(s)
    BY DEF Used, UsedIn, Alive, InUse, Mapped, MappedBy
  <2> QED BY <2>1 DEF Paged, Counted, PagesConserved
<1> QED BY <1>1, AlwaysPaged, PTL

\* The bits of a shared page are the processes that have it in their page table.
THEOREM RefsAreTheMappings == FreshSpec => []RefsAreMappings
<1>1. Paged(s) => RefsAreMappings
  BY DEF Paged, Slotted, RefsAreMappings, Mapped, MappedBy
<1> QED BY <1>1, AlwaysPaged, PTL

\* The stack and the first page of a process are in nobody else's page table.
THEOREM OwnPagesStayOwn == FreshSpec => []OwnPagesAreOwn
<1>1. Paged(s) => OwnPagesAreOwn
  BY DEF Paged, Separate, OwnPagesAreOwn, Mapped, MappedBy, Alive, InUse
<1> QED BY <1>1, AlwaysPaged, PTL

-----------------------------------------------------------------------------
\* Linked queues: sequences by their places.

LEMMA InsertAtPlaces ==
  ASSUME NEW S, NEW c \in Seq(S), NEW j \in 1 .. Len(c) + 1, NEW e \in S
  PROVE  /\ InsertAt(c, j, e) \in Seq(S) /\ Len(InsertAt(c, j, e)) = Len(c) + 1
         /\ \A i \in 1 .. Len(c) + 1 :
              InsertAt(c, j, e)[i] = IF i < j THEN c[i] ELSE IF i = j THEN e ELSE c[i - 1]
<1> DEFINE k == j - 1
           a == SubSeq(c, 1, k)
           b == SubSeq(c, j, Len(c))
           f == a \o <<e>>
<1>0. k + 1 = j /\ k \in 0 .. Len(c) /\ j \in Nat
  OBVIOUS
<1>5. InsertAt(c, j, e) = f \o b
  BY DEF InsertAt
<1> HIDE DEF k
<1>1. Len(c) \in Nat /\ k \in Nat /\ k =< Len(c)
  BY <1>0
<1>2. a \in Seq(S) /\ Len(a) = k /\ \A i \in 1 .. k : a[i] = c[i]
  BY <1>1
<1>3. b \in Seq(S) /\ Len(b) = Len(c) - k /\ \A i \in 1 .. Len(c) - k : b[i] = c[k + i]
  BY <1>0, <1>1
<1>4. f \in Seq(S) /\ Len(f) = k + 1 /\ (\A i \in 1 .. k : f[i] = a[i]) /\ f[k + 1] = e
  <2> HIDE DEF a
  <2> QED BY <1>1, <1>2
<1>6. /\ f \o b \in Seq(S) /\ Len(f \o b) = Len(c) + 1
      /\ \A i \in 1 .. Len(f \o b) : (f \o b)[i] = IF i =< k + 1 THEN f[i] ELSE b[i - (k + 1)]
  <2> HIDE DEF f, b
  <2>1. f \o b \in Seq(S) /\ Len(f \o b) = Len(f) + Len(b)
    BY <1>3, <1>4, ConcatProperties
  <2>2. \A i \in 1 .. Len(f) + Len(b) : (f \o b)[i] = IF i =< Len(f) THEN f[i] ELSE b[i - Len(f)]
    BY <1>3, <1>4, ConcatProperties
  <2> QED BY <1>1, <1>3, <1>4, <2>1, <2>2
<1> HIDE DEF f, b, a
<1>7. ASSUME NEW i \in 1 .. Len(c) + 1
      PROVE  (f \o b)[i] = IF i =< k THEN c[i] ELSE IF i = k + 1 THEN e ELSE c[i - 1]
  <2>1. CASE i =< k
    BY <1>1, <1>2, <1>4, <1>6, <2>1
  <2>2. CASE i = k + 1
    BY <1>1, <1>4, <1>6, <2>2
  <2>3. CASE i > k + 1
    <3>1. (f \o b)[i] = b[i - (k + 1)] /\ i - (k + 1) \in 1 .. Len(c) - k
      <4>1. i \in 1 .. Len(f \o b) /\ ~(i =< k + 1) /\ i - (k + 1) \in 1 .. Len(c) - k
        BY <1>1, <1>6, <2>3
      <4> QED BY <1>6, <4>1
    <3>2. b[i - (k + 1)] = c[k + (i - (k + 1))] /\ k + (i - (k + 1)) = i - 1
      BY <1>1, <1>3, <3>1
    <3> QED BY <1>1, <2>3, <3>1, <3>2
  <2>4. i =< k \/ i = k + 1 \/ i > k + 1
    BY <1>1
  <2> QED BY <2>1, <2>2, <2>3, <2>4
<1>8. \A i \in 1 .. Len(c) + 1 : i =< k <=> i < j
  BY <1>0, <1>1
<1>9. \A i \in 1 .. Len(c) + 1 : (f \o b)[i] = IF i < j THEN c[i] ELSE IF i = j THEN e ELSE c[i - 1]
  BY <1>0, <1>7, <1>8
<1> QED BY <1>5, <1>6, <1>9

LEMMA InsertAtEnd ==
  ASSUME NEW S, NEW c \in Seq(S), NEW e \in S
  PROVE  InsertAt(c, Len(c) + 1, e) = Append(c, e)
<1>1. InsertAt(c, Len(c) + 1, e) = SubSeq(c, 1, (Len(c) + 1) - 1) \o <<e>> \o SubSeq(c, Len(c) + 1, Len(c))
  BY DEF InsertAt
<1>2. SubSeq(c, 1, (Len(c) + 1) - 1) = c /\ SubSeq(c, Len(c) + 1, Len(c)) = <<>>
  <2>1. Len(c) \in Nat /\ (Len(c) + 1) - 1 = Len(c)
    OBVIOUS
  <2>2. SubSeq(c, 1, Len(c)) = c
    OBVIOUS
  <2>3. SubSeq(c, Len(c) + 1, Len(c)) = <<>>
    BY <2>1
  <2> QED BY <2>1, <2>2, <2>3
<1>3. Append(c, e) = c \o <<e>> /\ Append(c, e) \in Seq(S)
  BY AppendIsConcat
<1>4. Append(c, e) \o <<>> = Append(c, e)
  BY <1>3, ConcatEmptySeq
<1> QED BY <1>1, <1>2, <1>3, <1>4

LEMMA RemoveAtPlaces ==
  ASSUME NEW S, NEW c \in Seq(S), NEW k \in 1 .. Len(c)
  PROVE  /\ RemoveAt(c, k) \in Seq(S) /\ Len(RemoveAt(c, k)) = Len(c) - 1
         /\ \A i \in 1 .. Len(c) - 1 : RemoveAt(c, k)[i] = IF i < k THEN c[i] ELSE c[i + 1]
<1> DEFINE a == SubSeq(c, 1, k - 1)
           b == SubSeq(c, k + 1, Len(c))
<1>1. Len(c) \in Nat /\ k \in Nat \ {0} /\ k =< Len(c)
  OBVIOUS
<1>2. a \in Seq(S) /\ Len(a) = k - 1 /\ \A i \in 1 .. k - 1 : a[i] = c[i]
  BY <1>1
<1>3. b \in Seq(S) /\ Len(b) = Len(c) - k /\ \A i \in 1 .. Len(c) - k : b[i] = c[k + i]
  BY <1>1
<1>4. RemoveAt(c, k) = a \o b
  BY DEF RemoveAt
<1>5. /\ a \o b \in Seq(S) /\ Len(a \o b) = Len(c) - 1
      /\ \A i \in 1 .. Len(a \o b) : (a \o b)[i] = IF i =< k - 1 THEN a[i] ELSE b[i - (k - 1)]
  <2> HIDE DEF a, b
  <2>1. k - 1 \in Nat /\ Len(c) - k \in Nat /\ (k - 1) + (Len(c) - k) = Len(c) - 1
    BY <1>1
  <2>2. a \o b \in Seq(S) /\ Len(a \o b) = Len(a) + Len(b)
    BY <1>2, <1>3, ConcatProperties
  <2>3. \A i \in 1 .. Len(a) + Len(b) : (a \o b)[i] = IF i =< Len(a) THEN a[i] ELSE b[i - Len(a)]
    BY <1>2, <1>3, ConcatProperties
  <2> QED BY <1>2, <1>3, <2>1, <2>2, <2>3
<1> HIDE DEF a, b
<1>6. ASSUME NEW i \in 1 .. Len(c) - 1
      PROVE  (a \o b)[i] = IF i < k THEN c[i] ELSE c[i + 1]
  <2>1. CASE i < k
    BY <1>1, <1>2, <1>5, <2>1
  <2>2. CASE i >= k
    <3>1. (a \o b)[i] = b[i - (k - 1)] /\ i - (k - 1) \in 1 .. Len(c) - k
      BY <1>1, <1>5, <2>2
    <3>2. b[i - (k - 1)] = c[k + (i - (k - 1))] /\ k + (i - (k - 1)) = i + 1
      BY <1>1, <1>3, <3>1
    <3> QED BY <1>1, <2>2, <3>1, <3>2
  <2>3. i < k \/ i >= k
    BY <1>1
  <2> QED BY <2>1, <2>2, <2>3
<1> QED BY <1>4, <1>5, <1>6

-----------------------------------------------------------------------------
\* What the pointers of a list say.

\* The link at the place i of c, and NULL before its first and behind its last.
At(c, i) == IF i \in 1 .. Len(c) THEN c[i] ELSE NULL

Cells == [next : Links \cup {NULL}, prev : Links \cup {NULL}, queue : AllQueues \cup {NoQueue},
          object : Objects \cup {NoObject}]
Heads == [first : Links \cup {NULL}, last : Links \cup {NULL}, nitems : Int]
LinkMemories == [link : [Links -> Cells], queue : [AllQueues -> Heads]]

\* The queue q of the memory m is the list c.
Chain(m, q, c) ==
  /\ c \in Seq(Links) /\ IsInjective(c)
  /\ m.queue[q] = [first |-> At(c, 1), last |-> At(c, Len(c)), nitems |-> Len(c)]
  /\ \A i \in 1 .. Len(c) : m.link[c[i]].next = At(c, i + 1) /\ m.link[c[i]].prev = At(c, i - 1)

\* The queues are the lists f, and no link is on two of them.
Chains(m, f) ==
  /\ \A q \in AllQueues : Chain(m, q, f[q])
  /\ \A q, r \in AllQueues : q # r => ToSet(f[q]) \cap ToSet(f[r]) = {}

\* A link is on the queue its queue pointer says.
Known(m, f) == \A q \in AllQueues, l \in Links : m.link[l].queue = q <=> l \in ToSet(f[q])

-----------------------------------------------------------------------------
\* What the assignments do.

\* From m to w, one field of one link has been set, of no link if l is NULL.
NextSet(m, w, l, n) ==
  /\ w \in LinkMemories /\ w.queue = m.queue
  /\ \A x \in Links : /\ w.link[x].next = IF x = l THEN n ELSE m.link[x].next
                      /\ w.link[x].prev = m.link[x].prev
                      /\ w.link[x].queue = m.link[x].queue /\ w.link[x].object = m.link[x].object
PrevSet(m, w, l, n) ==
  /\ w \in LinkMemories /\ w.queue = m.queue
  /\ \A x \in Links : /\ w.link[x].prev = IF x = l THEN n ELSE m.link[x].prev
                      /\ w.link[x].next = m.link[x].next
                      /\ w.link[x].queue = m.link[x].queue /\ w.link[x].object = m.link[x].object
QueueSet(m, w, l, n) ==
  /\ w \in LinkMemories /\ w.queue = m.queue
  /\ \A x \in Links : /\ w.link[x].queue = IF x = l THEN n ELSE m.link[x].queue
                      /\ w.link[x].next = m.link[x].next
                      /\ w.link[x].prev = m.link[x].prev /\ w.link[x].object = m.link[x].object

LEMMA SetNextDoes ==
  ASSUME NEW m \in LinkMemories, NEW l \in Links \cup {NULL}, NEW n \in Links \cup {NULL}
  PROVE  NextSet(m, SetNext(m, l, n), l, n)
<1> DEFINE w == SetNext(m, l, n)
<1>1. \A x \in Links : x # NULL
  BY DEF Links, NULL
<1>2. CASE l = NULL
  BY <1>1, <1>2 DEF SetNext, NextSet
<1>3. CASE l # NULL
  <2>1. w = [m EXCEPT !.link = [m.link EXCEPT ![l] = [m.link[l] EXCEPT !.next = n]]]
    BY <1>3 DEF SetNext
  <2>2. [m.link[l] EXCEPT !.next = n] \in Cells /\ l \in Links
    BY <1>3 DEF LinkMemories, Cells
  <2> HIDE DEF w, Cells, Heads
  <2>3. w \in LinkMemories /\ w.queue = m.queue /\ w.link = [m.link EXCEPT ![l] = [m.link[l] EXCEPT !.next = n]]
    BY <2>1, <2>2 DEF LinkMemories
  <2>4. /\ w.link[l] = [m.link[l] EXCEPT !.next = n]
        /\ \A x \in Links \ {l} : w.link[x] = m.link[x]
    BY <2>2, <2>3 DEF LinkMemories
  <2>5. m.link[l] \in Cells
    BY <2>2 DEF LinkMemories
  <2>6. /\ w.link[l].next = n /\ w.link[l].prev = m.link[l].prev
        /\ w.link[l].queue = m.link[l].queue /\ w.link[l].object = m.link[l].object
    BY <2>4, <2>5 DEF Cells
  <2>7. NextSet(m, w, l, n)
    BY <2>3, <2>4, <2>6 DEF NextSet
  <2> QED BY <2>7 DEF w
<1> QED BY <1>2, <1>3

LEMMA SetPrevDoes ==
  ASSUME NEW m \in LinkMemories, NEW l \in Links \cup {NULL}, NEW n \in Links \cup {NULL}
  PROVE  PrevSet(m, SetPrev(m, l, n), l, n)
<1> DEFINE w == SetPrev(m, l, n)
<1>1. \A x \in Links : x # NULL
  BY DEF Links, NULL
<1>2. CASE l = NULL
  BY <1>1, <1>2 DEF SetPrev, PrevSet
<1>3. CASE l # NULL
  <2>1. w = [m EXCEPT !.link = [m.link EXCEPT ![l] = [m.link[l] EXCEPT !.prev = n]]]
    BY <1>3 DEF SetPrev
  <2>2. [m.link[l] EXCEPT !.prev = n] \in Cells /\ l \in Links
    BY <1>3 DEF LinkMemories, Cells
  <2> HIDE DEF w, Cells, Heads
  <2>3. w \in LinkMemories /\ w.queue = m.queue /\ w.link = [m.link EXCEPT ![l] = [m.link[l] EXCEPT !.prev = n]]
    BY <2>1, <2>2 DEF LinkMemories
  <2>4. /\ w.link[l] = [m.link[l] EXCEPT !.prev = n]
        /\ \A x \in Links \ {l} : w.link[x] = m.link[x]
    BY <2>2, <2>3 DEF LinkMemories
  <2>5. m.link[l] \in Cells
    BY <2>2 DEF LinkMemories
  <2>6. /\ w.link[l].prev = n /\ w.link[l].next = m.link[l].next
        /\ w.link[l].queue = m.link[l].queue /\ w.link[l].object = m.link[l].object
    BY <2>4, <2>5 DEF Cells
  <2>7. PrevSet(m, w, l, n)
    BY <2>3, <2>4, <2>6 DEF PrevSet
  <2> QED BY <2>7 DEF w
<1> QED BY <1>2, <1>3

LEMMA SetQueueDoes ==
  ASSUME NEW m \in LinkMemories, NEW l \in Links, NEW n \in AllQueues
  PROVE  QueueSet(m, SetQueue(m, l, n), l, n)
<1> DEFINE w == SetQueue(m, l, n)
<1>1. w = [m EXCEPT !.link = [m.link EXCEPT ![l] = [m.link[l] EXCEPT !.queue = n]]]
  BY DEF SetQueue
<1>2. [m.link[l] EXCEPT !.queue = n] \in Cells /\ l \in Links
  BY DEF LinkMemories, Cells
<1> HIDE DEF w, Cells, Heads
<1>3. w \in LinkMemories /\ w.queue = m.queue /\ w.link = [m.link EXCEPT ![l] = [m.link[l] EXCEPT !.queue = n]]
  BY <1>1, <1>2 DEF LinkMemories
<1>4. /\ w.link[l] = [m.link[l] EXCEPT !.queue = n]
      /\ \A x \in Links \ {l} : w.link[x] = m.link[x]
  BY <1>2, <1>3 DEF LinkMemories
<1>5. m.link[l] \in Cells
  BY <1>2 DEF LinkMemories
<1>6. /\ w.link[l].queue = n /\ w.link[l].next = m.link[l].next
      /\ w.link[l].prev = m.link[l].prev /\ w.link[l].object = m.link[l].object
  BY <1>4, <1>5 DEF Cells
<1>7. QueueSet(m, w, l, n)
  BY <1>3, <1>4, <1>6 DEF QueueSet
<1> QED BY <1>7 DEF w

\* From m to w, the ends of q have been set.
EndsSet(m, w, q, h) ==
  /\ w \in LinkMemories /\ w.link = m.link /\ w.queue[q] = h
  /\ \A r \in AllQueues \ {q} : w.queue[r] = m.queue[r]

LEMMA SetEndsDoes ==
  ASSUME NEW m \in LinkMemories, NEW q \in AllQueues, NEW h \in Heads
  PROVE  EndsSet(m, [m EXCEPT !.queue[q] = h], q, h)
<1> USE DEF LinkMemories
<1> HIDE DEF Cells, Heads
<1> DEFINE w == [m EXCEPT !.queue[q] = h]
<1>1. w \in LinkMemories /\ w.link = m.link /\ w.queue = [m.queue EXCEPT ![q] = h]
  OBVIOUS
<1> QED BY <1>1 DEF EndsSet

-----------------------------------------------------------------------------
\* A link put into a list, and one taken out.

\* From m to w, the link l has been put on q between a and b.
Inserted(m, w, q, a, b, l) ==
  /\ \A x \in Links : /\ w.link[x].next = IF x = l THEN b ELSE IF x = a THEN l ELSE m.link[x].next
                      /\ w.link[x].prev = IF x = l THEN a ELSE IF x = b THEN l ELSE m.link[x].prev
  /\ \A r \in AllQueues \ {q} : w.queue[r] = m.queue[r]
  /\ w.queue[q] = [first  |-> IF a = NULL THEN l ELSE m.queue[q].first,
                   last   |-> IF b = NULL THEN l ELSE m.queue[q].last,
                   nitems |-> m.queue[q].nitems + 1]

\* From m to w, the link l has been taken from between a and b on q.
Unlinked(m, w, q, a, b, l) ==
  /\ \A x \in Links \ {l} : /\ w.link[x].next = IF x = a THEN b ELSE m.link[x].next
                            /\ w.link[x].prev = IF x = b THEN a ELSE m.link[x].prev
  /\ \A r \in AllQueues \ {q} : w.queue[r] = m.queue[r]
  /\ w.queue[q] = [first  |-> IF a = NULL THEN b ELSE m.queue[q].first,
                   last   |-> IF b = NULL THEN a ELSE m.queue[q].last,
                   nitems |-> m.queue[q].nitems - 1]

\* The places of a list.
LEMMA PlacesOf ==
  ASSUME NEW c \in Seq(Links), IsInjective(c)
  PROVE  /\ Len(c) \in Nat /\ \A i \in 1 .. Len(c) : At(c, i) = c[i] /\ At(c, i) \in Links /\ At(c, i) # NULL
         /\ \A i \in 0 .. Len(c) + 1 : At(c, i) \in Links \cup {NULL}
         /\ At(c, 0) = NULL /\ At(c, Len(c) + 1) = NULL
         /\ \A i \in 1 .. Len(c), j \in 0 .. Len(c) + 1 : At(c, i) = At(c, j) => i = j
         /\ \A l : l \notin ToSet(c) => \A i \in 1 .. Len(c) : At(c, i) # l
         /\ \A i \in 1 .. Len(c) : At(c, i) \in ToSet(c)
<1>1. Len(c) \in Nat /\ \A i \in 1 .. Len(c) : c[i] \in Links /\ c[i] # NULL
  <2>1. \A x \in Links : x # NULL
    BY DEF Links, NULL
  <2> QED BY <2>1
<1>2. ToSet(c) = {c[i] : i \in 1 .. Len(c)}
  BY DEF ToSet
<1>3. \A i, j \in 1 .. Len(c) : c[i] = c[j] => i = j
  BY DEF IsInjective
<1>4. \A i \in 1 .. Len(c) : At(c, i) = c[i]
  BY DEF At
<1>5. \A i : i \notin 1 .. Len(c) => At(c, i) = NULL
  BY DEF At
<1>6. 0 \notin 1 .. Len(c) /\ Len(c) + 1 \notin 1 .. Len(c)
  BY <1>1
<1> QED BY <1>1, <1>2, <1>3, <1>4, <1>5, <1>6

LEMMA PutChain ==
  ASSUME NEW m, NEW w, NEW q \in AllQueues, NEW c, Chain(m, q, c), NEW k \in 0 .. Len(c),
         NEW l \in Links, l \notin ToSet(c), Inserted(m, w, q, At(c, k), At(c, k + 1), l)
  PROVE  Chain(w, q, InsertAt(c, k + 1, l)) /\ ToSet(InsertAt(c, k + 1, l)) = ToSet(c) \cup {l}
<1> DEFINE d == InsertAt(c, k + 1, l)
           n == Len(c)
<1>1. c \in Seq(Links) /\ IsInjective(c) /\ n \in Nat /\ k \in 0 .. n /\ l # NULL
  BY DEF Chain, Links, NULL
<1>2. /\ d \in Seq(Links) /\ Len(d) = n + 1
      /\ \A i \in 1 .. Len(d) : d[i] = IF i =< k THEN c[i] ELSE IF i = k + 1 THEN l ELSE c[i - 1]
  <2> DEFINE j == k + 1
  <2>1. d = InsertAt(c, j, l) /\ j \in 1 .. Len(c) + 1 /\ j = k + 1 /\ \A i \in 1 .. n + 1 : i =< k <=> i < j
    BY <1>1
  <2> HIDE DEF d, j, n
  <2>3. c \in Seq(Links) /\ l \in Links
    BY <1>1
  <2>2. /\ InsertAt(c, j, l) \in Seq(Links) /\ Len(InsertAt(c, j, l)) = Len(c) + 1
        /\ \A i \in 1 .. Len(c) + 1 : InsertAt(c, j, l)[i] = IF i < j THEN c[i] ELSE IF i = j THEN l ELSE c[i - 1]
    BY <2>1, <2>3, InsertAtPlaces
  <2> QED BY <2>1, <2>2 DEF n
<1> HIDE DEF d
<1>3. \A i \in 0 .. n + 2 : At(d, i) = IF i =< k THEN At(c, i) ELSE IF i = k + 1 THEN l ELSE At(c, i - 1)
  <2> SUFFICES ASSUME NEW i \in 0 .. n + 2
               PROVE  At(d, i) = IF i =< k THEN At(c, i) ELSE IF i = k + 1 THEN l ELSE At(c, i - 1)
    OBVIOUS
  <2>1. CASE i = 0 \/ i = n + 2
    <3>1. i \notin 1 .. Len(d) /\ (i =< k => i \notin 1 .. n) /\ (i > k + 1 => i - 1 \notin 1 .. n) /\ i # k + 1
      BY <1>1, <1>2, <2>1
    <3> QED BY <1>1, <2>1, <3>1 DEF At
  <2>2. CASE i \in 1 .. Len(d)
    <3>1. /\ i =< k => i \in 1 .. n
          /\ ~(i =< k) /\ i # k + 1 => i - 1 \in 1 .. n
      BY <1>1, <1>2, <2>2
    <3> QED BY <1>2, <2>2, <3>1 DEF At
  <2> QED BY <1>1, <1>2, <2>1, <2>2
<1>4. ToSet(d) = ToSet(c) \cup {l}
  <2>1. ToSet(d) = {d[i] : i \in 1 .. n + 1} /\ ToSet(c) = {c[i] : i \in 1 .. n}
    BY <1>1, <1>2 DEF ToSet
  <2>2. ASSUME NEW i \in 1 .. n + 1 PROVE d[i] = l \/ \E j \in 1 .. n : d[i] = c[j]
    <3>1. i =< k \/ i = k + 1 \/ i - 1 \in 1 .. n
      BY <1>1
    <3>2. i =< k => i \in 1 .. n
      BY <1>1
    <3> QED BY <1>2, <3>1, <3>2
  <2>3. d[k + 1] = l /\ k + 1 \in 1 .. n + 1
    BY <1>1, <1>2
  <2>4. ASSUME NEW j \in 1 .. n PROVE \E i \in 1 .. n + 1 : d[i] = c[j]
    <3>1. CASE j =< k
      <4>1. d[j] = c[j] /\ j \in 1 .. n + 1
        BY <1>1, <1>2, <3>1
      <4> QED BY <4>1
    <3>2. CASE j > k
      <4>1. j + 1 \in 1 .. n + 1 /\ ~(j + 1 =< k) /\ j + 1 # k + 1 /\ (j + 1) - 1 = j
        BY <1>1, <3>2
      <4>2. d[j + 1] = c[j]
        BY <1>2, <4>1
      <4> QED BY <4>1, <4>2
    <3> QED BY <1>1, <3>1, <3>2
  <2> QED BY <2>1, <2>2, <2>3, <2>4
<1>5. IsInjective(d)
  <2>1. \A i, j \in 1 .. n : c[i] = c[j] => i = j
    BY <1>1 DEF IsInjective
  <2>2. \A i \in 1 .. n : c[i] # l
    BY ElementInSet, <1>1
  <2>3. ASSUME NEW i \in 1 .. n + 1, NEW j \in 1 .. n + 1, d[i] = d[j] PROVE i = j
    <3> DEFINE at(x) == IF x =< k THEN x ELSE x - 1
    <3>1. \A x \in 1 .. n + 1 : x # k + 1 => at(x) \in 1 .. n /\ d[x] = c[at(x)]
      BY <1>1, <1>2
    <3>2. \A x, y \in 1 .. n + 1 : x # k + 1 /\ y # k + 1 /\ at(x) = at(y) => x = y
      BY <1>1
    <3>3. d[k + 1] = l
      BY <1>1, <1>2
    <3> HIDE DEF at
    <3>4. CASE i # k + 1 /\ j # k + 1
      BY <2>1, <2>3, <3>1, <3>2, <3>4
    <3>5. CASE i = k + 1 \/ j = k + 1
      BY <2>2, <2>3, <3>1, <3>3, <3>5
    <3> QED BY <3>4, <3>5
  <2> QED BY <1>1, <1>2, <2>3 DEF IsInjective
<1>6. \A i \in 1 .. n : m.link[c[i]].next = At(c, i + 1) /\ m.link[c[i]].prev = At(c, i - 1)
  BY DEF Chain
<1>7. /\ \A i \in 1 .. n : At(c, i) = c[i] /\ c[i] \in Links /\ c[i] # l
      /\ At(c, k) # l /\ At(c, k + 1) # l /\ At(c, 0) = NULL /\ At(c, n + 1) = NULL
      /\ \A i \in 1 .. n, j \in 0 .. n + 1 : At(c, i) = At(c, j) => i = j
  BY <1>1, PlacesOf, ElementInSet
<1>8. ASSUME NEW i \in 1 .. n + 1
      PROVE  w.link[d[i]].next = At(d, i + 1) /\ w.link[d[i]].prev = At(d, i - 1)
  <2>1. i + 1 \in 0 .. n + 2 /\ i - 1 \in 0 .. n + 2 /\ (i + 1) - 1 = i /\ (i - 1) - 1 = i - 2
    BY <1>1
  <2>2. CASE i = k + 1
    <3>1. d[i] = l /\ At(d, i + 1) = At(c, k + 1) /\ At(d, i - 1) = At(c, k)
      BY <1>1, <1>2, <1>3, <2>1, <2>2
    <3> QED BY <3>1 DEF Inserted
  <2>3. CASE i =< k
    <3>1. d[i] = c[i] /\ i \in 1 .. n /\ i - 1 =< k /\ At(d, i - 1) = At(c, i - 1)
      BY <1>1, <1>2, <1>3, <2>1, <2>3
    <3>2. c[i] # At(c, k + 1) /\ (c[i] = At(c, k) <=> i = k)
      BY <1>1, <1>7, <2>3, <3>1
    <3>3. At(d, i + 1) = IF i = k THEN l ELSE At(c, i + 1)
      BY <1>1, <1>3, <2>1, <2>3
    <3>4. /\ w.link[c[i]].next = IF c[i] = At(c, k) THEN l ELSE m.link[c[i]].next
          /\ w.link[c[i]].prev = IF c[i] = At(c, k + 1) THEN l ELSE m.link[c[i]].prev
      BY <1>7, <3>1 DEF Inserted
    <3> QED BY <1>6, <3>1, <3>2, <3>3, <3>4
  <2>4. CASE i > k + 1
    <3> DEFINE j == i - 1
    <3>1. d[i] = c[j] /\ j \in 1 .. n /\ j > k /\ At(d, i + 1) = At(c, j + 1)
      BY <1>1, <1>2, <1>3, <2>1, <2>4
    <3>2. c[j] # At(c, k) /\ (c[j] = At(c, k + 1) <=> j = k + 1)
      BY <1>1, <1>7, <3>1
    <3>3. At(d, i - 1) = IF j = k + 1 THEN l ELSE At(c, j - 1)
      BY <1>1, <1>3, <2>1, <2>4
    <3> HIDE DEF j
    <3>4. /\ w.link[c[j]].next = IF c[j] = At(c, k) THEN l ELSE m.link[c[j]].next
          /\ w.link[c[j]].prev = IF c[j] = At(c, k + 1) THEN l ELSE m.link[c[j]].prev
      BY <1>7, <3>1 DEF Inserted
    <3> QED BY <1>6, <3>1, <3>2, <3>3, <3>4
  <2> QED BY <1>1, <2>2, <2>3, <2>4
<1>9. w.queue[q] = [first |-> At(d, 1), last |-> At(d, Len(d)), nitems |-> Len(d)]
  <2>1. m.queue[q] = [first |-> At(c, 1), last |-> At(c, n), nitems |-> n]
    BY DEF Chain
  <2>2. At(d, 1) = IF k = 0 THEN l ELSE At(c, 1)
    BY <1>1, <1>3
  <2>3. At(d, n + 1) = IF k = n THEN l ELSE At(c, n)
    BY <1>1, <1>3
  <2>4. (At(c, k) = NULL <=> k = 0) /\ (At(c, k + 1) = NULL <=> k = n)
    <3>1. k = 0 \/ k \in 1 .. n
      BY <1>1
    <3>2. k = n \/ k + 1 \in 1 .. n
      BY <1>1
    <3>3. k = n => k + 1 = n + 1
      BY <1>1
    <3>4. 0 \notin 1 .. n /\ n + 1 \notin 1 .. n
      BY <1>1
    <3>5. \A i \in 1 .. n : At(c, i) # NULL
      BY <1>1, PlacesOf
    <3> QED BY <1>1, <1>7, <3>1, <3>2, <3>3, <3>4, <3>5
  <2> QED BY <1>2, <2>1, <2>2, <2>3, <2>4 DEF Inserted
<1> QED BY <1>2, <1>4, <1>5, <1>8, <1>9 DEF Chain, d

TakenAt(m, w, q, c, k) == Unlinked(m, w, q, At(c, k - 1), At(c, k + 1), c[k])

LEMMA TakeChain ==
  ASSUME NEW m, NEW w, NEW q \in AllQueues, NEW c, Chain(m, q, c), NEW k \in 1 .. Len(c),
         TakenAt(m, w, q, c, k)
  PROVE  Chain(w, q, RemoveAt(c, k)) /\ ToSet(RemoveAt(c, k)) = ToSet(c) \ {c[k]}
<1> DEFINE d == RemoveAt(c, k)
           n == Len(c)
<1>1. c \in Seq(Links) /\ IsInjective(c) /\ n \in Nat \ {0} /\ k \in 1 .. n
  BY DEF Chain
<1>2. /\ d \in Seq(Links) /\ Len(d) = n - 1
      /\ \A i \in 1 .. Len(d) : d[i] = IF i < k THEN c[i] ELSE c[i + 1]
  <2>1. /\ RemoveAt(c, k) \in Seq(Links) /\ Len(RemoveAt(c, k)) = Len(c) - 1
        /\ \A i \in 1 .. Len(c) - 1 : RemoveAt(c, k)[i] = IF i < k THEN c[i] ELSE c[i + 1]
    BY <1>1, RemoveAtPlaces
  <2>2. d = RemoveAt(c, k)
    OBVIOUS
  <2> HIDE DEF d
  <2> QED BY <2>1, <2>2
<1> HIDE DEF d
<1>3. \A i \in 0 .. n : At(d, i) = IF i < k THEN At(c, i) ELSE At(c, i + 1)
  <2> SUFFICES ASSUME NEW i \in 0 .. n
               PROVE  At(d, i) = IF i < k THEN At(c, i) ELSE At(c, i + 1)
    OBVIOUS
  <2>1. CASE i = 0 \/ i = n
    <3>1. i \notin 1 .. Len(d) /\ (i < k => i \notin 1 .. n) /\ (i >= k => i + 1 \notin 1 .. n)
      BY <1>1, <1>2, <2>1
    <3> QED BY <1>1, <2>1, <3>1 DEF At
  <2>2. CASE i \in 1 .. Len(d)
    <3>1. i \in 1 .. n /\ i + 1 \in 1 .. n
      BY <1>1, <1>2, <2>2
    <3> QED BY <1>2, <2>2, <3>1 DEF At
  <2> QED BY <1>1, <1>2, <2>1, <2>2
<1>4. \A i, j \in 1 .. n : c[i] = c[j] => i = j
  BY <1>1 DEF IsInjective
<1> DEFINE at(x) == IF x < k THEN x ELSE x + 1
<1>5. /\ \A x \in 1 .. n - 1 : at(x) \in 1 .. n /\ at(x) # k /\ d[x] = c[at(x)]
      /\ \A x, y \in 1 .. n - 1 : at(x) = at(y) => x = y
      /\ \A x \in 1 .. n : x # k => \E y \in 1 .. n - 1 : at(y) = x
  <2>1. \A x \in 1 .. n - 1 : at(x) \in 1 .. n /\ at(x) # k /\ d[x] = c[at(x)]
    BY <1>1, <1>2
  <2>2. \A x, y \in 1 .. n - 1 : at(x) = at(y) => x = y
    BY <1>1
  <2>3. ASSUME NEW x \in 1 .. n, x # k PROVE \E y \in 1 .. n - 1 : at(y) = x
    <3>1. CASE x < k
      <4>1. x \in 1 .. n - 1 /\ at(x) = x
        BY <1>1, <3>1
      <4> QED BY <4>1
    <3>2. CASE x > k
      <4>1. x - 1 \in 1 .. n - 1 /\ at(x - 1) = x
        BY <1>1, <3>2
      <4> QED BY <4>1
    <3> QED BY <1>1, <2>3, <3>1, <3>2
  <2> QED BY <2>1, <2>2, <2>3
<1>6. ToSet(d) = ToSet(c) \ {c[k]}
  <2>1. ToSet(d) = {d[i] : i \in 1 .. n - 1} /\ ToSet(c) = {c[i] : i \in 1 .. n}
    BY <1>1, <1>2 DEF ToSet
  <2> HIDE DEF at
  <2>2. ASSUME NEW x \in 1 .. n - 1 PROVE d[x] \in ToSet(c) \ {c[k]}
    <3>1. at(x) \in 1 .. n /\ at(x) # k /\ d[x] = c[at(x)]
      BY <1>5
    <3>2. c[at(x)] # c[k]
      BY <1>1, <1>4, <3>1
    <3> QED BY <2>1, <3>1, <3>2
  <2>3. ASSUME NEW x \in 1 .. n, c[x] # c[k] PROVE c[x] \in ToSet(d)
    <3>1. PICK y \in 1 .. n - 1 : at(y) = x
      BY <1>5, <2>3
    <3>2. d[y] = c[x]
      BY <1>5, <3>1
    <3> QED BY <2>1, <3>2
  <2> QED BY <2>1, <2>2, <2>3
<1>7. IsInjective(d)
  <2> HIDE DEF at
  <2>1. \A x, y \in 1 .. n - 1 : d[x] = d[y] => x = y
    BY <1>4, <1>5
  <2> QED BY <1>2, <2>1 DEF IsInjective
<1>8. \A i \in 1 .. n : m.link[c[i]].next = At(c, i + 1) /\ m.link[c[i]].prev = At(c, i - 1)
  BY DEF Chain
<1>9. /\ \A i \in 1 .. n : At(c, i) = c[i] /\ c[i] \in Links /\ c[i] # NULL
      /\ At(c, 0) = NULL /\ At(c, n + 1) = NULL
      /\ \A i \in 1 .. n, j \in 0 .. n + 1 : At(c, i) = At(c, j) => i = j
  BY <1>1, PlacesOf
<1>10. ASSUME NEW i \in 1 .. n - 1
       PROVE  w.link[d[i]].next = At(d, i + 1) /\ w.link[d[i]].prev = At(d, i - 1)
  <2>1. i + 1 \in 0 .. n /\ i - 1 \in 0 .. n /\ (i - 1) + 1 = i /\ (i + 1) + 1 = i + 2
    BY <1>1
  <2>2. CASE i < k
    <3>1. d[i] = c[i] /\ i \in 1 .. n /\ At(d, i - 1) = At(c, i - 1)
      BY <1>1, <1>2, <1>3, <2>1, <2>2
    <3>2. c[i] # At(c, k + 1) /\ c[i] # c[k] /\ (c[i] = At(c, k - 1) <=> i = k - 1)
      BY <1>1, <1>9, <2>2, <3>1
    <3>3. At(d, i + 1) = IF i = k - 1 THEN At(c, k + 1) ELSE At(c, i + 1)
      BY <1>1, <1>3, <2>1, <2>2
    <3>4. /\ w.link[c[i]].next = IF c[i] = At(c, k - 1) THEN At(c, k + 1) ELSE m.link[c[i]].next
          /\ w.link[c[i]].prev = IF c[i] = At(c, k + 1) THEN At(c, k - 1) ELSE m.link[c[i]].prev
      BY <1>9, <3>1, <3>2 DEF TakenAt, Unlinked
    <3> QED BY <1>8, <3>1, <3>2, <3>3, <3>4
  <2>3. CASE i >= k
    <3> DEFINE j == i + 1
    <3>1. d[i] = c[j] /\ j \in 1 .. n /\ j > k /\ At(d, i + 1) = At(c, j + 1)
      BY <1>1, <1>2, <1>3, <2>1, <2>3
    <3>2. c[j] # At(c, k - 1) /\ c[j] # c[k] /\ (c[j] = At(c, k + 1) <=> j = k + 1)
      BY <1>1, <1>9, <3>1
    <3>3. At(d, i - 1) = IF j = k + 1 THEN At(c, k - 1) ELSE At(c, j - 1)
      BY <1>1, <1>3, <2>1, <2>3
    <3> HIDE DEF j
    <3>4. /\ w.link[c[j]].next = IF c[j] = At(c, k - 1) THEN At(c, k + 1) ELSE m.link[c[j]].next
          /\ w.link[c[j]].prev = IF c[j] = At(c, k + 1) THEN At(c, k - 1) ELSE m.link[c[j]].prev
      BY <1>9, <3>1, <3>2 DEF TakenAt, Unlinked
    <3> QED BY <1>8, <3>1, <3>2, <3>3, <3>4
  <2> QED BY <1>1, <2>2, <2>3
<1>11. w.queue[q] = [first |-> At(d, 1), last |-> At(d, Len(d)), nitems |-> Len(d)]
  <2>1. m.queue[q] = [first |-> At(c, 1), last |-> At(c, n), nitems |-> n]
    BY DEF Chain
  <2>2. At(d, 1) = IF k = 1 THEN At(c, k + 1) ELSE At(c, 1)
    BY <1>1, <1>3
  <2>3. At(d, n - 1) = IF k = n THEN At(c, k - 1) ELSE At(c, n)
    <3>1. n - 1 \in 0 .. n /\ (n - 1) + 1 = n /\ (n - 1 < k <=> k = n)
      BY <1>1
    <3> QED BY <1>3, <3>1
  <2>4. (At(c, k - 1) = NULL <=> k = 1) /\ (At(c, k + 1) = NULL <=> k = n)
    <3>1. k = 1 \/ k - 1 \in 1 .. n
      BY <1>1
    <3>2. k = n \/ k + 1 \in 1 .. n
      BY <1>1
    <3>3. (k = n => k + 1 = n + 1) /\ (k = 1 => k - 1 = 0)
      BY <1>1
    <3>4. 0 \notin 1 .. n /\ n + 1 \notin 1 .. n
      BY <1>1
    <3> QED BY <1>1, <1>9, <3>1, <3>2, <3>3, <3>4
  <2> QED BY <1>2, <2>1, <2>2, <2>3, <2>4 DEF TakenAt, Unlinked
<1> QED BY <1>2, <1>6, <1>7, <1>10, <1>11 DEF Chain, d

\* A list is not touched by what is done to the links of another.
LEMMA OtherChain ==
  ASSUME NEW m, NEW w, NEW r, NEW c, Chain(m, r, c), w.queue[r] = m.queue[r],
         \A x \in ToSet(c) : w.link[x].next = m.link[x].next /\ w.link[x].prev = m.link[x].prev
  PROVE  Chain(w, r, c)
BY ElementInSet DEF Chain

Lists == [AllQueues -> Seq(Links)]

OnNoList(f, l) == \A q \in AllQueues : l \notin ToSet(f[q])

\* l behind the place k of the list of q, and that list without its place k.
Put(f, q, k, l) == [f EXCEPT ![q] = InsertAt(f[q], k + 1, l)]
Taken(f, q, k)  == [f EXCEPT ![q] = RemoveAt(f[q], k)]

\* From m to w, l is put behind the place k of the list of q.
PutInto(m, w, f, q, k, l) ==
  /\ f \in Lists /\ Chains(m, f) /\ q \in AllQueues /\ k \in 0 .. Len(f[q])
  /\ l \in Links /\ OnNoList(f, l) /\ Inserted(m, w, q, At(f[q], k), At(f[q], k + 1), l)

\* From m to w, the link at the place k of the list of q is taken out.
TakenFrom(m, w, f, q, k) ==
  /\ f \in Lists /\ Chains(m, f) /\ q \in AllQueues /\ k \in 1 .. Len(f[q])
  /\ TakenAt(m, w, q, f[q], k)

LEMMA PutChains ==
  ASSUME NEW m, NEW w, NEW f, NEW q, NEW k, NEW l, PutInto(m, w, f, q, k, l),
         NEW g, g = Put(f, q, k, l)
  PROVE  /\ Chains(w, g) /\ g \in Lists
         /\ ToSet(g[q]) = ToSet(f[q]) \cup {l}
<1>0. /\ f \in [AllQueues -> Seq(Links)] /\ Chains(m, f) /\ q \in AllQueues
      /\ k \in 0 .. Len(f[q]) /\ l \in Links /\ (\A r \in AllQueues : l \notin ToSet(f[r]))
      /\ Inserted(m, w, q, At(f[q], k), At(f[q], k + 1), l)
  BY DEF PutInto, Lists, OnNoList
<1> DEFINE c == f[q]
<1>1. Chain(m, q, c) /\ k \in 0 .. Len(c) /\ g[q] = InsertAt(c, k + 1, l) /\ \A r \in AllQueues \ {q} : g[r] = f[r]
  BY <1>0 DEF Chains, Put
<1>2. Chain(w, q, g[q]) /\ ToSet(g[q]) = ToSet(c) \cup {l}
  <2> HIDE DEF c
  <2>1. Inserted(m, w, q, At(c, k), At(c, k + 1), l) /\ l \notin ToSet(c)
    BY <1>0 DEF c
  <2>2. Chain(w, q, InsertAt(c, k + 1, l)) /\ ToSet(InsertAt(c, k + 1, l)) = ToSet(c) \cup {l}
    BY <1>0, <1>1, <2>1, PutChain
  <2> QED BY <1>1, <2>2
<1>3. g \in Lists
  <2>1. g[q] \in Seq(Links)
    BY <1>2 DEF Chain
  <2> QED BY <1>0, <1>1, <2>1 DEF Lists, Put
<1>4. \A i \in {k, k + 1} : At(c, i) = NULL \/ At(c, i) \in ToSet(c)
  BY <1>0, ElementInSet DEF At
<1>5. ASSUME NEW r \in AllQueues \ {q}
      PROVE  Chain(w, r, g[r])
  <2>1. Chain(m, r, f[r]) /\ f[r] \in Seq(Links) /\ ToSet(f[r]) \cap ToSet(c) = {} /\ l \notin ToSet(f[r])
    BY <1>0 DEF Chains
  <2>2. ToSet(f[r]) \subseteq Links /\ NULL \notin Links
    <3>1. ToSet(f[r]) \subseteq Links
      BY <2>1 DEF ToSet
    <3> QED BY <3>1 DEF Links, NULL
  <2>3. ASSUME NEW x \in ToSet(f[r])
        PROVE  w.link[x].next = m.link[x].next /\ w.link[x].prev = m.link[x].prev
    <3>1. x \in Links /\ x # l /\ x # At(c, k) /\ x # At(c, k + 1)
      BY <1>4, <2>1, <2>2
    <3> QED BY <1>0, <3>1 DEF Inserted
  <2>4. w.queue[r] = m.queue[r]
    BY <1>0 DEF Inserted
  <2> QED BY <1>1, <2>1, <2>3, <2>4, OtherChain
<1>6. \A r, t \in AllQueues : r # t => ToSet(g[r]) \cap ToSet(g[t]) = {}
  BY <1>0, <1>1, <1>2 DEF Chains
<1> QED BY <1>2, <1>3, <1>5, <1>6 DEF Chains

LEMMA TakeChains ==
  ASSUME NEW m, NEW w, NEW f, NEW q, NEW k, TakenFrom(m, w, f, q, k),
         NEW g, g = Taken(f, q, k)
  PROVE  /\ Chains(w, g) /\ g \in Lists
         /\ ToSet(g[q]) = ToSet(f[q]) \ {f[q][k]}
<1>0. /\ f \in [AllQueues -> Seq(Links)] /\ Chains(m, f) /\ q \in AllQueues
      /\ k \in 1 .. Len(f[q]) /\ TakenAt(m, w, q, f[q], k)
  BY DEF TakenFrom, Lists
<1> DEFINE c == f[q]
<1>1. Chain(m, q, c) /\ k \in 1 .. Len(c) /\ TakenAt(m, w, q, c, k) /\ g[q] = RemoveAt(c, k)
      /\ \A r \in AllQueues \ {q} : g[r] = f[r]
  BY <1>0 DEF Chains, Taken
<1>2. Chain(w, q, g[q]) /\ ToSet(g[q]) = ToSet(c) \ {c[k]}
  <2> HIDE DEF c
  <2>3. q \in AllQueues
    BY <1>0
  <2>1. ASSUME NEW x, Chain(m, q, x), NEW i \in 1 .. Len(x), TakenAt(m, w, q, x, i)
        PROVE  Chain(w, q, RemoveAt(x, i)) /\ ToSet(RemoveAt(x, i)) = ToSet(x) \ {x[i]}
    BY <2>3, <2>1, TakeChain
  <2>2. Chain(w, q, RemoveAt(c, k)) /\ ToSet(RemoveAt(c, k)) = ToSet(c) \ {c[k]}
    BY <1>1, <2>1
  <2> QED BY <1>1, <2>2
<1>3. g \in Lists
  <2>1. g[q] \in Seq(Links)
    BY <1>2 DEF Chain
  <2> QED BY <1>0, <1>1, <2>1 DEF Lists, Taken
<1>4. c[k] \in ToSet(c) /\ \A i \in {k - 1, k + 1} : At(c, i) = NULL \/ At(c, i) \in ToSet(c)
  BY <1>0, ElementInSet DEF At
<1>5. ASSUME NEW r \in AllQueues \ {q}
      PROVE  Chain(w, r, g[r])
  <2>1. Chain(m, r, f[r]) /\ f[r] \in Seq(Links) /\ ToSet(f[r]) \cap ToSet(c) = {}
    BY <1>0 DEF Chains
  <2>2. ToSet(f[r]) \subseteq Links /\ NULL \notin Links
    <3>1. ToSet(f[r]) \subseteq Links
      BY <2>1 DEF ToSet
    <3> QED BY <3>1 DEF Links, NULL
  <2>3. ASSUME NEW x \in ToSet(f[r])
        PROVE  w.link[x].next = m.link[x].next /\ w.link[x].prev = m.link[x].prev
    <3>1. x \in Links \ {c[k]} /\ x # At(c, k - 1) /\ x # At(c, k + 1)
      BY <1>4, <2>1, <2>2
    <3> QED BY <1>0, <3>1 DEF TakenAt, Unlinked
  <2>4. w.queue[r] = m.queue[r]
    BY <1>0 DEF TakenAt, Unlinked
  <2> QED BY <1>1, <2>1, <2>3, <2>4, OtherChain
<1>6. \A r, t \in AllQueues : r # t => ToSet(g[r]) \cap ToSet(g[t]) = {}
  BY <1>0, <1>1, <1>2 DEF Chains
<1> QED BY <1>2, <1>3, <1>5, <1>6 DEF Chains

-----------------------------------------------------------------------------
\* What the operations do.

\* The gap between a and b, two links of q or its ends.
Gap(m, q, a, b) ==
  /\ a # NULL => m.link[a].next = b /\ m.link[a].queue = q /\ (m.queue[q].last = a <=> b = NULL)
  /\ b # NULL => m.link[b].prev = a /\ m.link[b].queue = q /\ (m.queue[q].first = b <=> a = NULL)
  /\ a = NULL /\ b = NULL => m.queue[q] = [first |-> NULL, last |-> NULL, nitems |-> 0]

\* l is put there, and its queue pointer is set.
PutThere(m, w, q, a, b, l) ==
  /\ w \in LinkMemories /\ Inserted(m, w, q, a, b, l)
  /\ \A x \in Links : /\ w.link[x].queue = IF x = l THEN q ELSE m.link[x].queue
                      /\ w.link[x].object = m.link[x].object

LEMMA InsertAfterDoes ==
  ASSUME NEW m \in LinkMemories, NEW q \in AllQueues, NEW a \in Links \cup {NULL}, NEW b \in Links \cup {NULL},
         NEW l \in Links, l # a, l # b, Gap(m, q, a, b), a = NULL => b = NULL
  PROVE  PutThere(m, AQueueInsertAfter(m, q, a, l), q, a, b, l)
<1> DEFINE s1 == SetQueue(m, l, q)
           s2 == SetPrev(s1, l, a)
           s3 == SetNext(s2, l, b)
           s4 == SetNext(s3, a, l)
           s5 == SetPrev(s4, b, l)
           w  == AQueueInsertAfter(m, q, a, l)
<1>1. b = IF a = NULL THEN NULL ELSE m.link[a].next
  BY DEF Gap
<1>2. CanInsert(m, q, a) /\ l # NULL /\ \A x \in Links : x # NULL
  BY DEF CanInsert, Gap, Links, NULL
<1>3. w = IF a = NULL THEN [s5 EXCEPT !.queue[q] = OnlyLink(l)]
          ELSE [s5 EXCEPT !.queue[q] =
                  [first  |-> @.first,
                   last   |-> IF @.last = a THEN l ELSE @.last,
                   nitems |-> @.nitems + 1]]
  BY <1>1, <1>2 DEF AQueueInsertAfter
<1>0. l \in Links \cup {NULL}
  OBVIOUS
<1>4. QueueSet(m, s1, l, q)
  BY SetQueueDoes
<1>5. PrevSet(s1, s2, l, a)
  <2>1. s1 \in LinkMemories
    BY <1>4 DEF QueueSet
  <2> QED BY <1>0, <2>1, SetPrevDoes
<1>6. NextSet(s2, s3, l, b)
  <2>1. s2 \in LinkMemories
    BY <1>5 DEF PrevSet
  <2> QED BY <1>0, <2>1, SetNextDoes
<1>7. NextSet(s3, s4, a, l)
  <2>1. s3 \in LinkMemories
    BY <1>6 DEF NextSet
  <2> QED BY <1>0, <2>1, SetNextDoes
<1>8. PrevSet(s4, s5, b, l)
  <2>1. s4 \in LinkMemories
    BY <1>7 DEF PrevSet, NextSet
  <2> QED BY <1>0, <2>1, SetPrevDoes
<1> HIDE DEF w, s1, s2, s3, s4, s5
<1>9. /\ s5 \in LinkMemories /\ s5.queue = m.queue
      /\ \A x \in Links : /\ s5.link[x].next = IF x = l THEN b ELSE IF x = a THEN l ELSE m.link[x].next
                          /\ s5.link[x].prev = IF x = l THEN a ELSE IF x = b THEN l ELSE m.link[x].prev
                          /\ s5.link[x].queue = IF x = l THEN q ELSE m.link[x].queue
                          /\ s5.link[x].object = m.link[x].object
  <2>1. s5 \in LinkMemories /\ s5.queue = m.queue
    BY <1>4, <1>5, <1>6, <1>7, <1>8 DEF QueueSet, NextSet, PrevSet
  <2>2. ASSUME NEW x \in Links
        PROVE  /\ s5.link[x].next = IF x = l THEN b ELSE IF x = a THEN l ELSE m.link[x].next
               /\ s5.link[x].prev = IF x = l THEN a ELSE IF x = b THEN l ELSE m.link[x].prev
               /\ s5.link[x].queue = IF x = l THEN q ELSE m.link[x].queue
               /\ s5.link[x].object = m.link[x].object
    BY <1>4, <1>5, <1>6, <1>7, <1>8 DEF QueueSet, NextSet, PrevSet
  <2> QED BY <2>1, <2>2
<1> DEFINE h == [first  |-> IF a = NULL THEN l ELSE m.queue[q].first,
                 last   |-> IF b = NULL THEN l ELSE m.queue[q].last,
                 nitems |-> m.queue[q].nitems + 1]
<1>10. m.queue[q] \in Heads /\ h \in Heads
  BY DEF LinkMemories, Heads
<1>11. w = [s5 EXCEPT !.queue[q] = h]
  <2>1. CASE a = NULL
    <3>1. m.queue[q] = [first |-> NULL, last |-> NULL, nitems |-> 0] /\ b = NULL
      BY <2>1 DEF Gap
    <3>2. h = OnlyLink(l)
      BY <2>1, <3>1 DEF OnlyLink
    <3> QED BY <1>3, <2>1, <3>2
  <2>2. CASE a # NULL
    <3>1. m.queue[q].last = a <=> b = NULL
      BY <2>2 DEF Gap
    <3>2. s5.queue[q] = m.queue[q]
      BY <1>9
    <3>3. w = [s5 EXCEPT !.queue[q] =
                 [first  |-> s5.queue[q].first,
                  last   |-> IF s5.queue[q].last = a THEN l ELSE s5.queue[q].last,
                  nitems |-> s5.queue[q].nitems + 1]]
      BY <1>3, <2>2
    <3> QED BY <2>2, <3>1, <3>2, <3>3
  <2> QED BY <2>1, <2>2
<1>12. EndsSet(s5, w, q, h)
  <2> HIDE DEF h
  <2> QED BY <1>9, <1>10, <1>11, SetEndsDoes
<1>13. PutThere(m, w, q, a, b, l)
  BY <1>9, <1>12 DEF PutThere, Inserted, EndsSet
<1> QED BY <1>13 DEF w

LEMMA InsertBeforeDoes ==
  ASSUME NEW m \in LinkMemories, NEW q \in AllQueues, NEW a \in Links \cup {NULL}, NEW b \in Links \cup {NULL},
         NEW l \in Links, l # a, l # b, Gap(m, q, a, b), b = NULL => a = NULL
  PROVE  PutThere(m, AQueueInsertBefore(m, q, b, l), q, a, b, l)
<1> DEFINE s1 == SetQueue(m, l, q)
           s2 == SetNext(s1, l, b)
           s3 == SetPrev(s2, l, a)
           s4 == SetPrev(s3, b, l)
           s5 == SetNext(s4, a, l)
           w  == AQueueInsertBefore(m, q, b, l)
<1>1. a = IF b = NULL THEN NULL ELSE m.link[b].prev
  BY DEF Gap
<1>2. CanInsert(m, q, b) /\ l # NULL /\ \A x \in Links : x # NULL
  BY DEF CanInsert, Gap, Links, NULL
<1>3. w = IF b = NULL THEN [s5 EXCEPT !.queue[q] = OnlyLink(l)]
          ELSE [s5 EXCEPT !.queue[q] =
                  [first  |-> IF @.first = b THEN l ELSE @.first,
                   last   |-> @.last,
                   nitems |-> @.nitems + 1]]
  BY <1>1, <1>2 DEF AQueueInsertBefore
<1>0. l \in Links \cup {NULL}
  OBVIOUS
<1>4. QueueSet(m, s1, l, q)
  BY SetQueueDoes
<1>5. NextSet(s1, s2, l, b)
  <2>1. s1 \in LinkMemories
    BY <1>4 DEF QueueSet
  <2> QED BY <1>0, <2>1, SetNextDoes
<1>6. PrevSet(s2, s3, l, a)
  <2>1. s2 \in LinkMemories
    BY <1>5 DEF NextSet
  <2> QED BY <1>0, <2>1, SetPrevDoes
<1>7. PrevSet(s3, s4, b, l)
  <2>1. s3 \in LinkMemories
    BY <1>6 DEF PrevSet
  <2> QED BY <1>0, <2>1, SetPrevDoes
<1>8. NextSet(s4, s5, a, l)
  <2>1. s4 \in LinkMemories
    BY <1>7 DEF NextSet, PrevSet
  <2> QED BY <1>0, <2>1, SetNextDoes
<1> HIDE DEF w, s1, s2, s3, s4, s5
<1>9. /\ s5 \in LinkMemories /\ s5.queue = m.queue
      /\ \A x \in Links : /\ s5.link[x].next = IF x = l THEN b ELSE IF x = a THEN l ELSE m.link[x].next
                          /\ s5.link[x].prev = IF x = l THEN a ELSE IF x = b THEN l ELSE m.link[x].prev
                          /\ s5.link[x].queue = IF x = l THEN q ELSE m.link[x].queue
                          /\ s5.link[x].object = m.link[x].object
  <2>1. s5 \in LinkMemories /\ s5.queue = m.queue
    BY <1>4, <1>5, <1>6, <1>7, <1>8 DEF QueueSet, NextSet, PrevSet
  <2>2. ASSUME NEW x \in Links
        PROVE  /\ s5.link[x].next = IF x = l THEN b ELSE IF x = a THEN l ELSE m.link[x].next
               /\ s5.link[x].prev = IF x = l THEN a ELSE IF x = b THEN l ELSE m.link[x].prev
               /\ s5.link[x].queue = IF x = l THEN q ELSE m.link[x].queue
               /\ s5.link[x].object = m.link[x].object
    BY <1>4, <1>5, <1>6, <1>7, <1>8 DEF QueueSet, NextSet, PrevSet
  <2> QED BY <2>1, <2>2
<1> DEFINE h == [first  |-> IF a = NULL THEN l ELSE m.queue[q].first,
                 last   |-> IF b = NULL THEN l ELSE m.queue[q].last,
                 nitems |-> m.queue[q].nitems + 1]
<1>10. m.queue[q] \in Heads /\ h \in Heads
  BY DEF LinkMemories, Heads
<1>11. w = [s5 EXCEPT !.queue[q] = h]
  <2>1. CASE b = NULL
    <3>1. m.queue[q] = [first |-> NULL, last |-> NULL, nitems |-> 0] /\ a = NULL
      BY <2>1 DEF Gap
    <3>2. h = OnlyLink(l)
      BY <2>1, <3>1 DEF OnlyLink
    <3> QED BY <1>3, <2>1, <3>2
  <2>2. CASE b # NULL
    <3>1. m.queue[q].first = b <=> a = NULL
      BY <2>2 DEF Gap
    <3>2. s5.queue[q] = m.queue[q]
      BY <1>9
    <3>3. w = [s5 EXCEPT !.queue[q] =
                 [first  |-> IF s5.queue[q].first = b THEN l ELSE s5.queue[q].first,
                  last   |-> s5.queue[q].last,
                  nitems |-> s5.queue[q].nitems + 1]]
      BY <1>3, <2>2
    <3> QED BY <2>2, <3>1, <3>2, <3>3
  <2> QED BY <2>1, <2>2
<1>12. EndsSet(s5, w, q, h)
  <2> HIDE DEF h
  <2> QED BY <1>9, <1>10, <1>11, SetEndsDoes
<1>13. PutThere(m, w, q, a, b, l)
  BY <1>9, <1>12 DEF PutThere, Inserted, EndsSet
<1> QED BY <1>13 DEF w

\* a and b are the links around l on q, or its ends.
Around(m, q, a, b, l) ==
  /\ a = m.link[l].prev /\ (a = NULL <=> m.queue[q].first = l) /\ a # l
  /\ b = m.link[l].next /\ (b = NULL <=> m.queue[q].last = l) /\ b # l

\* l is taken out; its own fields are what they were, but for its pointers.
TakenOut(m, w, q, a, b, l) ==
  /\ w \in LinkMemories /\ Unlinked(m, w, q, a, b, l)
  /\ \A x \in Links : w.link[x].queue = m.link[x].queue /\ w.link[x].object = m.link[x].object

LEMMA UnlinkDoes ==
  ASSUME NEW m \in LinkMemories, NEW q \in AllQueues, NEW a \in Links \cup {NULL}, NEW b \in Links \cup {NULL},
         NEW l \in Links, Around(m, q, a, b, l)
  PROVE  TakenOut(m, Unlink(m, q, l), q, a, b, l)
<1> DEFINE h  == [first  |-> IF a = NULL THEN b ELSE m.queue[q].first,
                  last   |-> IF b = NULL THEN a ELSE m.queue[q].last,
                  nitems |-> m.queue[q].nitems - 1]
           s1 == [m EXCEPT !.queue[q] = h]
           s2 == SetNext(s1, a, b)
           w  == SetPrev(s2, b, a)
<1>1. m.queue[q] \in Heads /\ h \in Heads
  BY DEF LinkMemories, Heads
<1>2. [m EXCEPT !.queue[q] = [first  |-> IF @.first = l THEN b ELSE @.first,
                              last   |-> IF @.last = l THEN a ELSE @.last,
                              nitems |-> @.nitems - 1]] = s1
  BY DEF Around
<1>3. Unlink(m, q, l) = w
  <2> HIDE DEF s1
  <2> QED BY <1>2 DEF Unlink, Around
<1>4. EndsSet(m, s1, q, h)
  <2> HIDE DEF h
  <2> QED BY <1>1, SetEndsDoes
<1>5. NextSet(s1, s2, a, b)
  <2>1. s1 \in LinkMemories
    BY <1>4 DEF EndsSet
  <2> QED BY <2>1, SetNextDoes
<1>6. PrevSet(s2, w, b, a)
  <2>1. s2 \in LinkMemories
    BY <1>5 DEF NextSet
  <2> QED BY <2>1, SetPrevDoes
<1> HIDE DEF s1, s2, w
<1>7. TakenOut(m, w, q, a, b, l)
  <2>1. w \in LinkMemories /\ w.queue = s1.queue
    BY <1>5, <1>6 DEF NextSet, PrevSet
  <2>2. ASSUME NEW x \in Links
        PROVE  /\ w.link[x].next = IF x = a THEN b ELSE m.link[x].next
               /\ w.link[x].prev = IF x = b THEN a ELSE m.link[x].prev
               /\ w.link[x].queue = m.link[x].queue /\ w.link[x].object = m.link[x].object
    BY <1>4, <1>5, <1>6 DEF NextSet, PrevSet, EndsSet
  <2>3. w.queue[q] = h /\ \A r \in AllQueues \ {q} : w.queue[r] = m.queue[r]
    BY <1>4, <2>1 DEF EndsSet
  <2> QED BY <2>1, <2>2, <2>3 DEF TakenOut, Unlinked
<1> QED BY <1>3, <1>7

\* From u to w, l is put behind "after"; otherwise its fields are those of m.
MovedBehind(m, u, w, q, after, l) ==
  \A n \in Links \cup {NULL} :
    u.link[after].next = n /\ (u.queue[q].last = after <=> n = NULL) /\ n # l =>
      /\ w \in LinkMemories /\ Inserted(u, w, q, after, n, l)
      /\ \A x \in Links : w.link[x].queue = m.link[x].queue /\ w.link[x].object = m.link[x].object

\* l is moved behind "after", out of its place and into the new one.
LEMMA MoveAfterDoes ==
  ASSUME NEW m \in LinkMemories, NEW q \in AllQueues, NEW a \in Links \cup {NULL}, NEW b \in Links,
         NEW l \in Links, Around(m, q, a, b, l), NEW after \in Links \ {l}
  PROVE  \E u : TakenOut(m, u, q, a, b, l) /\ MovedBehind(m, u, AQueueMoveAfter(m, q, after, l), q, after, l)
<1> DEFINE h  == [first  |-> IF a = NULL THEN b ELSE m.queue[q].first,
                  last   |-> m.queue[q].last,
                  nitems |-> m.queue[q].nitems - 1]
           g  == [first  |-> IF a = NULL THEN b ELSE m.queue[q].first,
                  last   |-> IF m.queue[q].last = after THEN l ELSE m.queue[q].last,
                  nitems |-> m.queue[q].nitems]
           s1 == [m EXCEPT !.queue[q] = g]
           s2 == SetPrev(s1, b, a)
           s3 == SetNext(s2, a, b)
           u  == [s3 EXCEPT !.queue[q] = h]
<1>0. b # NULL /\ l \in Links \cup {NULL} /\ after \in Links \cup {NULL} /\ l # NULL /\ after # NULL
      /\ b \in Links \cup {NULL}
  BY DEF Links, NULL
<1>1. m.queue[q] \in Heads /\ h \in Heads /\ g \in Heads
  BY DEF LinkMemories, Heads
<1>2. [m EXCEPT !.queue[q] = [first  |-> IF @.first = l THEN b ELSE @.first,
                              last   |-> IF @.last = after THEN l ELSE @.last,
                              nitems |-> @.nitems]] = s1
  BY DEF Around
<1>3. EndsSet(m, s1, q, g)
  <2> HIDE DEF g
  <2> QED BY <1>1, SetEndsDoes
<1>4. PrevSet(s1, s2, b, a)
  <2>1. s1 \in LinkMemories
    BY <1>3 DEF EndsSet
  <2> QED BY <1>0, <2>1, SetPrevDoes
<1>5. NextSet(s2, s3, a, b)
  <2>1. s2 \in LinkMemories
    BY <1>4 DEF PrevSet
  <2> QED BY <1>0, <2>1, SetNextDoes
<1>6. EndsSet(s3, u, q, h)
  <2>1. s3 \in LinkMemories
    BY <1>5 DEF NextSet
  <2> HIDE DEF h, s3
  <2> QED BY <1>1, <2>1, SetEndsDoes
<1>7. ASSUME NEW n \in Links \cup {NULL}, s3.link[after].next = n
      PROVE  AQueueMoveAfter(m, q, after, l) =
               LET s5 == SetNext(SetPrev(s3, l, after), l, n)
               IN  SetPrev(SetNext(s5, after, l), s5.link[l].next, l)
  <2>1. m.queue[q].last # l /\ after # l
    BY <1>0 DEF Around
  <2>2. AQueueMoveAfter(m, q, after, l) =
          LET out == SetNext(SetPrev(s1, b, a), a, b)
              s5  == SetNext(SetPrev(out, l, after), l, out.link[after].next)
          IN  SetPrev(SetNext(s5, after, l), s5.link[l].next, l)
    <3> DEFINE ends(next) == [m EXCEPT !.queue[q] = [first  |-> IF @.first = l THEN next ELSE @.first,
                                                     last   |-> IF @.last = after THEN l ELSE @.last,
                                                     nitems |-> @.nitems]]
               moved(prev, next) ==
                 LET out == SetNext(SetPrev(ends(next), next, prev), prev, next)
                     s5  == SetNext(SetPrev(out, l, after), l, out.link[after].next)
                 IN  SetPrev(SetNext(s5, after, l), s5.link[l].next, l)
    <3>1. m.link[l].prev = a /\ m.link[l].next = b
      BY DEF Around
    <3>2. AQueueMoveAfter(m, q, after, l) = moved(m.link[l].prev, m.link[l].next)
      BY <2>1 DEF AQueueMoveAfter
    <3>3. ends(b) = s1
      BY <1>2
    <3>4. AQueueMoveAfter(m, q, after, l) = moved(a, b)
      <4> HIDE DEF moved
      <4> QED BY <3>1, <3>2
    <3> HIDE DEF s1, ends
    <3> QED BY <3>3, <3>4
  <2> QED BY <1>7, <2>2
<1> HIDE DEF u, s1, s2, s3
<1>8. TakenOut(m, u, q, a, b, l)
  <2>1. u \in LinkMemories
    BY <1>6 DEF EndsSet
  <2>2. ASSUME NEW x \in Links
        PROVE  /\ u.link[x].next = IF x = a THEN b ELSE m.link[x].next
               /\ u.link[x].prev = IF x = b THEN a ELSE m.link[x].prev
               /\ u.link[x].queue = m.link[x].queue /\ u.link[x].object = m.link[x].object
    BY <1>3, <1>4, <1>5, <1>6 DEF NextSet, PrevSet, EndsSet
  <2>3. u.queue[q] = h /\ \A r \in AllQueues \ {q} : u.queue[r] = m.queue[r]
    BY <1>3, <1>4, <1>5, <1>6 DEF EndsSet, NextSet, PrevSet
  <2> QED BY <1>0, <2>1, <2>2, <2>3 DEF TakenOut, Unlinked
<1>9. ASSUME NEW n \in Links \cup {NULL}, u.link[after].next = n, u.queue[q].last = after <=> n = NULL, n # l,
             NEW w, w = AQueueMoveAfter(m, q, after, l)
      PROVE  /\ w \in LinkMemories /\ Inserted(u, w, q, after, n, l)
             /\ \A x \in Links : w.link[x].queue = m.link[x].queue /\ w.link[x].object = m.link[x].object
  <2> DEFINE s4 == SetPrev(s3, l, after)
             s5 == SetNext(s4, l, n)
             s6 == SetNext(s5, after, l)
             s7 == SetPrev(s6, n, l)
  <2>1. u.link = s3.link /\ s3 \in LinkMemories
    BY <1>5, <1>6 DEF EndsSet, NextSet
  <2>2. PrevSet(s3, s4, l, after)
    BY <1>0, <2>1, SetPrevDoes
  <2>3. NextSet(s4, s5, l, n)
    <3>1. s4 \in LinkMemories
      BY <2>2 DEF PrevSet
    <3> QED BY <1>0, <3>1, SetNextDoes
  <2>4. NextSet(s5, s6, after, l)
    <3>1. s5 \in LinkMemories
      BY <2>3 DEF NextSet
    <3> QED BY <1>0, <3>1, SetNextDoes
  <2>5. PrevSet(s6, s7, n, l)
    <3>1. s6 \in LinkMemories
      BY <2>4 DEF NextSet
    <3> QED BY <1>0, <3>1, SetPrevDoes
  <2>6. w = SetPrev(s6, s5.link[l].next, l)
    BY <1>7, <1>9, <2>1
  <2> HIDE DEF s4, s5, s6, s7
  <2>7. s5.link[l].next = n
    BY <2>3 DEF NextSet
  <2>8. w = s7
    BY <2>6, <2>7 DEF s7
  <2>9. w \in LinkMemories /\ w.queue = s1.queue
    BY <1>4, <1>5, <2>2, <2>3, <2>4, <2>5, <2>8 DEF NextSet, PrevSet
  <2>10. ASSUME NEW x \in Links
         PROVE  /\ w.link[x].next = IF x = l THEN n ELSE IF x = after THEN l ELSE u.link[x].next
                /\ w.link[x].prev = IF x = l THEN after ELSE IF x = n THEN l ELSE u.link[x].prev
                /\ w.link[x].queue = u.link[x].queue /\ w.link[x].object = u.link[x].object
    BY <1>9, <2>1, <2>2, <2>3, <2>4, <2>5, <2>8 DEF NextSet, PrevSet
  <2>11. w.queue[q] = g /\ u.queue[q] = h /\ \A r \in AllQueues \ {q} : w.queue[r] = u.queue[r]
    BY <1>3, <1>4, <1>5, <1>6, <2>9 DEF EndsSet, NextSet, PrevSet
  <2>12. /\ g.first = h.first /\ g.nitems = h.nitems + 1
         /\ h.last = m.queue[q].last
         /\ g.last = IF n = NULL THEN l ELSE h.last
    <3>1. m.queue[q].nitems \in Int
      BY <1>1 DEF Heads
    <3> QED BY <1>9, <2>11, <3>1
  <2>13. g = [first |-> g.first, last |-> g.last, nitems |-> g.nitems]
    OBVIOUS
  <2> HIDE DEF g, h
  <2>14. Inserted(u, w, q, after, n, l)
    BY <1>0, <2>10, <2>11, <2>12, <2>13 DEF Inserted
  <2> QED BY <1>8, <2>9, <2>10, <2>14 DEF TakenOut
<1>10. MovedBehind(m, u, AQueueMoveAfter(m, q, after, l), q, after, l)
  <2> DEFINE w == AQueueMoveAfter(m, q, after, l)
  <2>1. w = AQueueMoveAfter(m, q, after, l)
    OBVIOUS
  <2> HIDE DEF w
  <2>2. MovedBehind(m, u, w, q, after, l)
    BY <1>9, <2>1 DEF MovedBehind
  <2> QED BY <2>1, <2>2
<1> QED BY <1>8, <1>10

-----------------------------------------------------------------------------
\* The memory m is the lists f.

\* Every link but l is on the queue its queue pointer says.
KnownBut(m, f, l) == \A q \in AllQueues, x \in Links \ {l} : m.link[x].queue = q <=> x \in ToSet(f[q])

Listed(m, f) == m \in LinkMemories /\ f \in Lists /\ Chains(m, f) /\ Known(m, f)

LEMMA GapAt ==
  ASSUME NEW m, NEW q \in AllQueues, NEW c, Chain(m, q, c), \A x \in ToSet(c) : m.link[x].queue = q,
         NEW k \in 0 .. Len(c)
  PROVE  /\ Gap(m, q, At(c, k), At(c, k + 1))
         /\ At(c, k) \in Links \cup {NULL} /\ At(c, k + 1) \in Links \cup {NULL}
<1> DEFINE n == Len(c)
<1>1. c \in Seq(Links) /\ IsInjective(c) /\ n \in Nat /\ k \in 0 .. n
  BY DEF Chain
<1>2. /\ \A i \in 1 .. n : At(c, i) = c[i] /\ At(c, i) \in Links /\ At(c, i) # NULL /\ At(c, i) \in ToSet(c)
      /\ At(c, 0) = NULL /\ At(c, n + 1) = NULL
      /\ \A i \in 0 .. n + 1 : At(c, i) \in Links \cup {NULL}
      /\ \A i \in 1 .. n, j \in 0 .. n + 1 : At(c, i) = At(c, j) => i = j
  BY <1>1, PlacesOf
<1>3. /\ m.queue[q] = [first |-> At(c, 1), last |-> At(c, n), nitems |-> n]
      /\ \A i \in 1 .. n : m.link[c[i]].next = At(c, i + 1) /\ m.link[c[i]].prev = At(c, i - 1)
  BY DEF Chain
<1>4. k \in 0 .. n + 1 /\ k + 1 \in 0 .. n + 1 /\ (k + 1) - 1 = k
  BY <1>1
<1>5. k = 0 \/ k \in 1 .. n
  BY <1>1
<1>6. k = n \/ k + 1 \in 1 .. n
  BY <1>1
<1>7. k \in 1 .. n => n \in 1 .. n /\ (k = n <=> k + 1 = n + 1)
  BY <1>1
<1>8. k + 1 \in 1 .. n => 1 \in 1 .. n /\ (k = 0 <=> k + 1 = 1)
  BY <1>1
<1>9. ASSUME At(c, k) # NULL
      PROVE  m.link[At(c, k)].next = At(c, k + 1) /\ m.link[At(c, k)].queue = q
             /\ (m.queue[q].last = At(c, k) <=> At(c, k + 1) = NULL)
  <2>1. k \in 1 .. n
    BY <1>2, <1>5, <1>9
  <2>2. At(c, n) = At(c, k) <=> k = n
    BY <1>1, <1>2, <1>7, <2>1
  <2>3. At(c, k + 1) = NULL <=> k = n
    BY <1>2, <1>6, <1>7, <2>1
  <2> QED BY <1>2, <1>3, <2>1, <2>2, <2>3
<1>10. ASSUME At(c, k + 1) # NULL
       PROVE  m.link[At(c, k + 1)].prev = At(c, k) /\ m.link[At(c, k + 1)].queue = q
              /\ (m.queue[q].first = At(c, k + 1) <=> At(c, k) = NULL)
  <2>1. k + 1 \in 1 .. n
    BY <1>2, <1>6, <1>10
  <2>2. At(c, 1) = At(c, k + 1) <=> k = 0
    BY <1>1, <1>2, <1>8, <2>1
  <2>3. At(c, k) = NULL <=> k = 0
    BY <1>2, <1>5
  <2> QED BY <1>2, <1>3, <1>4, <2>1, <2>2, <2>3
<1>11. ASSUME At(c, k) = NULL, At(c, k + 1) = NULL
       PROVE  m.queue[q] = [first |-> NULL, last |-> NULL, nitems |-> 0]
  <2>1. n = 0
    BY <1>2, <1>5, <1>6, <1>11
  <2>2. 1 \notin 1 .. n /\ n \notin 1 .. n
    BY <2>1
  <2> QED BY <1>3, <2>1, <2>2 DEF At
<1> QED BY <1>2, <1>4, <1>9, <1>10, <1>11 DEF Gap

LEMMA AroundPlace ==
  ASSUME NEW m, NEW q \in AllQueues, NEW c, Chain(m, q, c), NEW k \in 1 .. Len(c)
  PROVE  /\ Around(m, q, At(c, k - 1), At(c, k + 1), c[k]) /\ c[k] \in Links
         /\ At(c, k - 1) \in Links \cup {NULL} /\ At(c, k + 1) \in Links \cup {NULL}
         /\ k < Len(c) => At(c, k + 1) \in Links
         /\ At(c, Len(c)) = c[k] <=> k = Len(c)
<1> DEFINE n == Len(c)
<1>1. c \in Seq(Links) /\ IsInjective(c) /\ n \in Nat /\ k \in 1 .. n
  BY DEF Chain
<1>2. /\ \A i \in 1 .. n : At(c, i) = c[i] /\ At(c, i) \in Links /\ At(c, i) # NULL /\ At(c, i) \in ToSet(c)
      /\ At(c, 0) = NULL /\ At(c, n + 1) = NULL
      /\ \A i \in 0 .. n + 1 : At(c, i) \in Links \cup {NULL}
      /\ \A i \in 1 .. n, j \in 0 .. n + 1 : At(c, i) = At(c, j) => i = j
  BY <1>1, PlacesOf
<1>3. /\ m.queue[q] = [first |-> At(c, 1), last |-> At(c, n), nitems |-> n]
      /\ m.link[c[k]].next = At(c, k + 1) /\ m.link[c[k]].prev = At(c, k - 1)
  BY DEF Chain
<1>4. /\ k - 1 \in 0 .. n + 1 /\ k + 1 \in 0 .. n + 1 /\ k # k - 1 /\ k # k + 1
      /\ 1 \in 1 .. n /\ n \in 1 .. n /\ (k = 1 <=> k - 1 = 0) /\ (k = n <=> k + 1 = n + 1)
      /\ (k = 1 \/ k - 1 \in 1 .. n) /\ (k = n \/ k + 1 \in 1 .. n) /\ (k < n => k + 1 \in 1 .. n)
      /\ 1 \in 0 .. n + 1 /\ n \in 0 .. n + 1
  BY <1>1
<1>5. At(c, k - 1) # c[k] /\ At(c, k + 1) # c[k]
  BY <1>1, <1>2, <1>4
<1>6. (At(c, k - 1) = NULL <=> k = 1) /\ (At(c, k + 1) = NULL <=> k = n)
  BY <1>2, <1>4
<1>7. (At(c, 1) = c[k] <=> k = 1) /\ (At(c, n) = c[k] <=> k = n)
  BY <1>1, <1>2, <1>4
<1> QED BY <1>1, <1>2, <1>3, <1>4, <1>5, <1>6, <1>7 DEF Around

\* A link on no list is put between two places of a list.
LEMMA PutListed ==
  ASSUME NEW m, NEW f \in Lists, Chains(m, f), NEW l \in Links, OnNoList(f, l), KnownBut(m, f, l),
         NEW q \in AllQueues, NEW k \in 0 .. Len(f[q]),
         NEW w, PutThere(m, w, q, At(f[q], k), At(f[q], k + 1), l)
  PROVE  Listed(w, Put(f, q, k, l))
<1> DEFINE g == Put(f, q, k, l)
<1>1. Chains(w, g) /\ g \in Lists /\ ToSet(g[q]) = ToSet(f[q]) \cup {l}
  <2>1. PutInto(m, w, f, q, k, l)
    BY DEF PutInto, PutThere
  <2>2. g = Put(f, q, k, l)
    OBVIOUS
  <2> HIDE DEF g
  <2> QED BY <2>1, <2>2, PutChains
<1>2. \A r \in AllQueues \ {q} : g[r] = f[r]
  BY DEF Lists, Put
<1> HIDE DEF g
<1>3. w \in LinkMemories
  BY DEF PutThere
<1>4. ASSUME NEW r \in AllQueues, NEW x \in Links
      PROVE  w.link[x].queue = r <=> x \in ToSet(g[r])
  <2>1. w.link[x].queue = IF x = l THEN q ELSE m.link[x].queue
    BY DEF PutThere
  <2> QED BY <1>1, <1>2, <2>1 DEF KnownBut, OnNoList
<1>5. Listed(w, g)
  BY <1>1, <1>3, <1>4 DEF Listed, Known
<1> QED BY <1>5 DEF g

\* The link at a place of a list is taken out.
LEMMA TakeListed ==
  ASSUME NEW m, NEW f, Listed(m, f), NEW q \in AllQueues, NEW k \in 1 .. Len(f[q]),
         NEW w, TakenOut(m, w, q, At(f[q], k - 1), At(f[q], k + 1), f[q][k]),
         NEW g, g = Taken(f, q, k)
  PROVE  /\ w \in LinkMemories /\ g \in Lists /\ Chains(w, g)
         /\ KnownBut(w, g, f[q][k]) /\ OnNoList(g, f[q][k]) /\ f[q][k] \in Links
         /\ ToSet(g[q]) = ToSet(f[q]) \ {f[q][k]}
<1>1. Chains(w, g) /\ g \in Lists /\ ToSet(g[q]) = ToSet(f[q]) \ {f[q][k]}
  <2>1. TakenFrom(m, w, f, q, k)
    BY DEF TakenFrom, TakenOut, TakenAt, Listed
  <2> QED BY <2>1, TakeChains
<1>2. \A r \in AllQueues \ {q} : g[r] = f[r]
  BY DEF Lists, Listed, Taken
<1>3. w \in LinkMemories
  BY DEF TakenOut
<1>4. f[q] \in Seq(Links) /\ f[q][k] \in Links /\ f[q][k] \in ToSet(f[q])
  <2>1. f[q] \in Seq(Links)
    BY DEF Lists, Listed
  <2> QED BY <2>1, ElementInSet
<1>5. ASSUME NEW r \in AllQueues, NEW x \in Links \ {f[q][k]}
      PROVE  w.link[x].queue = r <=> x \in ToSet(g[r])
  <2>1. w.link[x].queue = m.link[x].queue
    BY DEF TakenOut
  <2> QED BY <1>1, <1>2, <2>1 DEF Known, Listed
<1>6. ASSUME NEW r \in AllQueues
      PROVE  f[q][k] \notin ToSet(g[r])
  <2>1. r # q => ToSet(f[r]) \cap ToSet(f[q]) = {}
    BY DEF Listed, Chains
  <2> QED BY <1>1, <1>2, <1>4, <2>1
<1> QED BY <1>1, <1>3, <1>4, <1>5, <1>6 DEF KnownBut, OnNoList

-----------------------------------------------------------------------------
\* What the operations do to the lists.

\* The lists, and a link l that is on none of them.
Ready(m, f, l) ==
  /\ m \in LinkMemories /\ f \in Lists /\ Chains(m, f)
  /\ l \in Links /\ OnNoList(f, l) /\ KnownBut(m, f, l)

SameObjects(m, w) == \A x \in Links : w.link[x].object = m.link[x].object

LEMMA HeldIsReady ==
  ASSUME NEW m, NEW f, Listed(m, f), NEW l \in Links, m.link[l].queue = NoQueue
  PROVE  Ready(m, f, l)
<1>1. NoQueue \notin AllQueues
  BY NoQueueAssumption DEF AllQueues
<1>2. OnNoList(f, l)
  BY <1>1 DEF OnNoList, Listed, Known
<1>3. KnownBut(m, f, l)
  BY DEF KnownBut, Listed, Known
<1> QED BY <1>2, <1>3 DEF Ready, Listed

LEMMA ReadyList ==
  ASSUME NEW m, NEW f, NEW l, Ready(m, f, l), NEW q \in AllQueues
  PROVE  /\ Chain(m, q, f[q]) /\ f[q] \in Seq(Links) /\ Len(f[q]) \in Nat
         /\ \A x \in ToSet(f[q]) : m.link[x].queue = q
         /\ \A k \in 0 .. Len(f[q]) + 1 : At(f[q], k) # l
<1>1. Chain(m, q, f[q]) /\ f[q] \in Seq(Links) /\ IsInjective(f[q]) /\ Len(f[q]) \in Nat
  BY DEF Ready, Chains, Chain
<1>2. ASSUME NEW x \in ToSet(f[q])
      PROVE  m.link[x].queue = q
  <2>1. x \in Links
    BY <1>1 DEF ToSet
  <2>2. x # l
    BY DEF Ready, OnNoList
  <2> QED BY <2>1, <2>2 DEF Ready, KnownBut
<1>3. ASSUME NEW k \in 0 .. Len(f[q]) + 1
      PROVE  At(f[q], k) # l
  <2>1. l \in Links /\ l # NULL /\ l \notin ToSet(f[q])
    BY DEF Ready, OnNoList, Links, NULL
  <2>2. CASE k \in 1 .. Len(f[q])
    BY <1>1, <2>1, <2>2, PlacesOf
  <2>3. CASE k \notin 1 .. Len(f[q])
    BY <2>1, <2>3 DEF At
  <2> QED BY <2>2, <2>3
<1> QED BY <1>1, <1>2, <1>3

LEMMA InsertAfterListed ==
  ASSUME NEW m, NEW f, NEW l, Ready(m, f, l), NEW q \in AllQueues, NEW k \in 0 .. Len(f[q]),
         k = 0 => Len(f[q]) = 0
  PROVE  /\ Listed(AQueueInsertAfter(m, q, At(f[q], k), l), Put(f, q, k, l))
         /\ SameObjects(m, AQueueInsertAfter(m, q, At(f[q], k), l))
<1> DEFINE a == At(f[q], k)
           b == At(f[q], k + 1)
           w == AQueueInsertAfter(m, q, a, l)
<1>1. /\ Chain(m, q, f[q]) /\ Len(f[q]) \in Nat /\ f[q] \in Seq(Links)
      /\ \A x \in ToSet(f[q]) : m.link[x].queue = q
      /\ \A i \in 0 .. Len(f[q]) + 1 : At(f[q], i) # l
  BY ReadyList
<1>2. Gap(m, q, a, b) /\ a \in Links \cup {NULL} /\ b \in Links \cup {NULL}
  BY <1>1, GapAt
<1>3. a # l /\ b # l
  <2>1. k \in 0 .. Len(f[q]) + 1 /\ k + 1 \in 0 .. Len(f[q]) + 1
    BY <1>1
  <2> QED BY <1>1, <2>1
<1>4. a = NULL => b = NULL
  <2>1. k \in 1 .. Len(f[q]) => a # NULL
    <3>1. IsInjective(f[q])
      BY <1>1 DEF Chain
    <3> QED BY <1>1, <3>1, PlacesOf
  <2>2. k \notin 1 .. Len(f[q]) => k + 1 \notin 1 .. Len(f[q])
    BY <1>1
  <2> QED BY <2>1, <2>2 DEF At
<1>5. m \in LinkMemories /\ l \in Links
  BY DEF Ready
<1> HIDE DEF a, b
<1>6. PutThere(m, w, q, a, b, l)
  BY <1>2, <1>3, <1>4, <1>5, InsertAfterDoes
<1> HIDE DEF w
<1>7. Listed(w, Put(f, q, k, l))
  BY <1>6, PutListed DEF Ready, a, b
<1>8. SameObjects(m, w)
  BY <1>6 DEF PutThere, SameObjects
<1> QED BY <1>7, <1>8 DEF w, a

LEMMA InsertBeforeListed ==
  ASSUME NEW m, NEW f, NEW l, Ready(m, f, l), NEW q \in AllQueues, NEW k \in 0 .. Len(f[q]),
         k = Len(f[q]) => Len(f[q]) = 0
  PROVE  /\ Listed(AQueueInsertBefore(m, q, At(f[q], k + 1), l), Put(f, q, k, l))
         /\ SameObjects(m, AQueueInsertBefore(m, q, At(f[q], k + 1), l))
<1> DEFINE a == At(f[q], k)
           b == At(f[q], k + 1)
           w == AQueueInsertBefore(m, q, b, l)
<1>1. /\ Chain(m, q, f[q]) /\ Len(f[q]) \in Nat /\ f[q] \in Seq(Links)
      /\ \A x \in ToSet(f[q]) : m.link[x].queue = q
      /\ \A i \in 0 .. Len(f[q]) + 1 : At(f[q], i) # l
  BY ReadyList
<1>2. Gap(m, q, a, b) /\ a \in Links \cup {NULL} /\ b \in Links \cup {NULL}
  BY <1>1, GapAt
<1>3. a # l /\ b # l
  <2>1. k \in 0 .. Len(f[q]) + 1 /\ k + 1 \in 0 .. Len(f[q]) + 1
    BY <1>1
  <2> QED BY <1>1, <2>1
<1>4. b = NULL => a = NULL
  <2>1. k + 1 \in 1 .. Len(f[q]) => b # NULL
    <3>1. IsInjective(f[q])
      BY <1>1 DEF Chain
    <3> QED BY <1>1, <3>1, PlacesOf
  <2>2. k + 1 \notin 1 .. Len(f[q]) => k \notin 1 .. Len(f[q])
    BY <1>1
  <2> QED BY <2>1, <2>2 DEF At
<1>5. m \in LinkMemories /\ l \in Links
  BY DEF Ready
<1> HIDE DEF a, b
<1>6. PutThere(m, w, q, a, b, l)
  BY <1>2, <1>3, <1>4, <1>5, InsertBeforeDoes
<1> HIDE DEF w
<1>7. Listed(w, Put(f, q, k, l))
  BY <1>6, PutListed DEF Ready, a, b
<1>8. SameObjects(m, w)
  BY <1>6 DEF PutThere, SameObjects
<1> QED BY <1>7, <1>8 DEF w, b

LEMMA InsertLastListed ==
  ASSUME NEW m, NEW f, NEW l, Ready(m, f, l), NEW q \in AllQueues
  PROVE  /\ Listed(AQueueInsertLast(m, q, l), Put(f, q, Len(f[q]), l))
         /\ SameObjects(m, AQueueInsertLast(m, q, l))
<1>1. Chain(m, q, f[q]) /\ Len(f[q]) \in Nat
  BY ReadyList
<1>2. m.queue[q].last = At(f[q], Len(f[q]))
  BY <1>1 DEF Chain
<1>3. Len(f[q]) \in 0 .. Len(f[q])
  BY <1>1
<1> QED BY <1>2, <1>3, InsertAfterListed DEF AQueueInsertLast

LEMMA InsertFirstListed ==
  ASSUME NEW m, NEW f, NEW l, Ready(m, f, l), NEW q \in AllQueues
  PROVE  /\ Listed(AQueueInsertFirst(m, q, l), Put(f, q, 0, l))
         /\ SameObjects(m, AQueueInsertFirst(m, q, l))
<1>1. Chain(m, q, f[q]) /\ Len(f[q]) \in Nat
  BY ReadyList
<1>2. m.queue[q].first = At(f[q], 0 + 1)
  BY <1>1 DEF Chain
<1>3. 0 \in 0 .. Len(f[q])
  BY <1>1
<1> QED BY <1>2, <1>3, InsertBeforeListed DEF AQueueInsertFirst

\* A link that says it is on q has a place there.
LEMMA PlaceOnQueue ==
  ASSUME NEW m, NEW f, Listed(m, f), NEW x \in Links, m.link[x].queue \in AllQueues
  PROVE  \E k \in 1 .. Len(f[m.link[x].queue]) : f[m.link[x].queue][k] = x
<1>1. x \in ToSet(f[m.link[x].queue]) /\ f[m.link[x].queue] \in Seq(Links)
  BY DEF Listed, Known, Lists
<1> QED BY <1>1 DEF ToSet

\* The link at the place k of q is taken out, and is on no list then.
LEMMA UnlinkListed ==
  ASSUME NEW m, NEW f, Listed(m, f), NEW q \in AllQueues, NEW k \in 1 .. Len(f[q]),
         NEW l, l = f[q][k]
  PROVE  /\ Ready(Unlink(m, q, l), Taken(f, q, k), l) /\ SameObjects(m, Unlink(m, q, l))
<1> DEFINE a == At(f[q], k - 1)
           b == At(f[q], k + 1)
           w == Unlink(m, q, l)
           g == Taken(f, q, k)
<1>1. Chain(m, q, f[q]) /\ m \in LinkMemories
  BY DEF Listed, Chains
<1>2. Around(m, q, a, b, l) /\ l \in Links /\ a \in Links \cup {NULL} /\ b \in Links \cup {NULL}
  BY <1>1, AroundPlace
<1> HIDE DEF a, b
<1>3. TakenOut(m, w, q, a, b, l)
  BY <1>1, <1>2, UnlinkDoes
<1> HIDE DEF w, g
<1>4. g = Taken(f, q, k)
  BY DEF g
<1>5. /\ w \in LinkMemories /\ g \in Lists /\ Chains(w, g)
      /\ KnownBut(w, g, l) /\ OnNoList(g, l)
  BY <1>3, <1>4, TakeListed DEF a, b
<1>6. Ready(w, g, l)
  BY <1>2, <1>5 DEF Ready
<1>7. SameObjects(m, w)
  BY <1>3 DEF TakenOut, SameObjects
<1> QED BY <1>6, <1>7 DEF w, g

LEMMA AllocListed ==
  ASSUME NEW m, NEW f, Listed(m, f), m.queue[freeLinks].nitems # 0, NEW obj \in Objects,
         NEW w, w = AQueueAllocLink(m, obj), NEW c, c = f[freeLinks]
  PROVE  /\ Listed(w, Taken(f, freeLinks, 1)) /\ 1 \in 1 .. Len(c) /\ c[1] \in Links
         /\ \A x \in Links : w.link[x].object = IF x = c[1] THEN obj ELSE m.link[x].object
<1> DEFINE l == c[1]
           u == Unlink(m, freeLinks, l)
           g == Taken(f, freeLinks, 1)
           e == [next |-> NULL, prev |-> NULL, queue |-> NoQueue, object |-> obj]
<1>1. Chain(m, freeLinks, c) /\ freeLinks \in AllQueues
  BY DEF Listed, Chains, AllQueues
<1>2. 1 \in 1 .. Len(c) /\ m.queue[freeLinks].first = l
  <2>1. c \in Seq(Links) /\ m.queue[freeLinks] = [first |-> At(c, 1), last |-> At(c, Len(c)), nitems |-> Len(c)]
    BY <1>1 DEF Chain
  <2>2. Len(c) \in Nat /\ Len(c) # 0
    BY <2>1
  <2> QED BY <2>1, <2>2 DEF At
<1>3. Ready(u, g, l) /\ SameObjects(m, u)
  BY <1>1, <1>2, UnlinkListed
<1>4. w = [u EXCEPT !.link[l] = e]
  BY <1>2 DEF AQueueAllocLink
<1>5. u \in LinkMemories /\ l \in Links /\ g \in Lists
  BY <1>3 DEF Ready
<1> HIDE DEF u, g, l
<1>6. w \in LinkMemories /\ w.queue = u.queue /\ w.link[l] = e /\ \A x \in Links \ {l} : w.link[x] = u.link[x]
  <2>1. e \in Cells
    BY DEF Cells
  <2> HIDE DEF e, Cells, Heads
  <2> QED BY <1>4, <1>5, <2>1 DEF LinkMemories
<1>7. Chains(w, g)
  <2>1. ASSUME NEW r \in AllQueues
        PROVE  Chain(w, r, g[r])
    <3>1. Chain(u, r, g[r]) /\ g[r] \in Seq(Links) /\ l \notin ToSet(g[r])
      BY <1>3 DEF Ready, Chains, Chain, OnNoList
    <3>2. \A x \in ToSet(g[r]) : x \in Links \ {l}
      BY <3>1 DEF ToSet
    <3> QED BY <1>6, <3>1, <3>2, OtherChain
  <2> QED BY <1>3, <2>1 DEF Chains, Ready
<1>8. Known(w, g)
  <2>1. ASSUME NEW r \in AllQueues, NEW x \in Links
        PROVE  w.link[x].queue = r <=> x \in ToSet(g[r])
    <3>1. CASE x = l
      <4>1. w.link[x].queue = NoQueue /\ NoQueue # r
        BY <1>6, <3>1, NoQueueAssumption DEF AllQueues
      <4> QED BY <1>3, <3>1, <4>1 DEF Ready, OnNoList
    <3>2. CASE x # l
      BY <1>3, <1>6, <3>2 DEF Ready, KnownBut
    <3> QED BY <3>1, <3>2
  <2> QED BY <2>1 DEF Known
<1>9. Listed(w, g)
  BY <1>5, <1>6, <1>7, <1>8 DEF Listed
<1>10. \A x \in Links : w.link[x].object = IF x = l THEN obj ELSE m.link[x].object
  BY <1>3, <1>6 DEF SameObjects
<1> QED BY <1>2, <1>5, <1>9, <1>10 DEF l, g

LEMMA RemoveListed ==
  ASSUME NEW m, NEW f, Listed(m, f), NEW q \in AllQueues, NEW k \in 1 .. Len(f[q]),
         NEW l, l = f[q][k], NEW g, g = Taken(f, q, k)
  PROVE  /\ Listed(AQueueRemove(m, l), Put(g, freeLinks, Len(g[freeLinks]), l))
         /\ SameObjects(m, AQueueRemove(m, l))
<1>1. Ready(Unlink(m, q, l), g, l) /\ SameObjects(m, Unlink(m, q, l))
  BY UnlinkListed
<1>2. m.link[l].queue = q
  <2>1. f[q] \in Seq(Links)
    BY DEF Listed, Lists
  <2>2. l \in Links /\ l \in ToSet(f[q])
    BY <2>1, ElementInSet
  <2> QED BY <2>2 DEF Listed, Known
<1>3. AQueueRemove(m, l) = AQueueInsertLast(Unlink(m, q, l), freeLinks, l)
  BY <1>2 DEF AQueueRemove
<1>4. freeLinks \in AllQueues
  BY DEF AllQueues
<1> DEFINE u == Unlink(m, q, l)
<1> HIDE DEF u
<1>5. Ready(u, g, l) /\ SameObjects(m, u) /\ AQueueRemove(m, l) = AQueueInsertLast(u, freeLinks, l)
  BY <1>1, <1>3 DEF u
<1>6. Listed(AQueueInsertLast(u, freeLinks, l), Put(g, freeLinks, Len(g[freeLinks]), l))
      /\ SameObjects(u, AQueueInsertLast(u, freeLinks, l))
  BY <1>4, <1>5, InsertLastListed
<1> QED BY <1>5, <1>6 DEF SameObjects

LEMMA MoveListed ==
  ASSUME NEW m, NEW f, Listed(m, f), NEW q \in AllQueues, NEW l \in Links, NEW after \in Links,
         m.link[l].queue = q, m.link[after].queue = q,
         NEW w, w = AQueueMoveAfter(m, q, after, l)
  PROVE  \/ w = m
         \/ \E i, k \in 1 .. Len(f[q]) - 1 :
              /\ f[q][i] = l /\ RemoveAt(f[q], i)[k] = after
              /\ Listed(w, Put(Taken(f, q, i), q, k, l)) /\ SameObjects(m, w)
<1> DEFINE c == f[q]
<1>1. Chain(m, q, c) /\ m \in LinkMemories /\ c \in Seq(Links) /\ IsInjective(c) /\ Len(c) \in Nat
  BY DEF Listed, Chains, Chain
<1>2. PICK i \in 1 .. Len(c) : c[i] = l
  BY PlaceOnQueue
<1>3. m.queue[q].last = At(c, Len(c))
  BY <1>1 DEF Chain
<1>4. CASE after = l \/ m.queue[q].last = l
  BY <1>4 DEF AQueueMoveAfter
<1>5. CASE after # l /\ m.queue[q].last # l
  <2> DEFINE a == At(c, i - 1)
             b == At(c, i + 1)
             d == RemoveAt(c, i)
             g == Taken(f, q, i)
  <2>1. /\ Around(m, q, a, b, l) /\ a \in Links \cup {NULL} /\ i < Len(c) /\ b \in Links
    <3>1. At(c, Len(c)) = c[i] <=> i = Len(c)
      BY <1>1, AroundPlace
    <3>2. i < Len(c)
      BY <1>1, <1>2, <1>3, <1>5, <3>1
    <3> QED BY <1>1, <1>2, <3>2, AroundPlace
  <2>2. PICK u : TakenOut(m, u, q, a, b, l) /\ MovedBehind(m, u, w, q, after, l)
    <3> HIDE DEF a, b
    <3>1. after \in Links \ {l}
      BY <1>5
    <3> QED BY <1>1, <2>1, <3>1, MoveAfterDoes
  <2>3. /\ u \in LinkMemories /\ g \in Lists /\ Chains(u, g)
        /\ KnownBut(u, g, l) /\ OnNoList(g, l)
    <3>1. TakenOut(m, u, q, At(f[q], i - 1), At(f[q], i + 1), f[q][i])
      BY <1>2, <2>2
    <3>2. g = Taken(f, q, i)
      OBVIOUS
    <3>3. Listed(m, f) /\ i \in 1 .. Len(f[q])
      OBVIOUS
    <3> HIDE DEF g, c
    <3>4. /\ u \in LinkMemories /\ g \in Lists /\ Chains(u, g)
          /\ KnownBut(u, g, f[q][i]) /\ OnNoList(g, f[q][i])
      BY <3>1, <3>2, <3>3, TakeListed
    <3> QED BY <1>2, <3>4 DEF c
  <2>4. Ready(u, g, l)
    BY <2>3 DEF Ready
  <2>5. g[q] = d /\ Len(d) = Len(c) - 1
    <3>1. g[q] = d
      BY DEF Listed, Lists, Taken
    <3> HIDE DEF d
    <3>2. Len(d) = Len(c) - 1
      BY <1>1, RemoveAtPlaces DEF d
    <3> QED BY <3>1, <3>2
  <2>6. PICK k \in 1 .. Len(d) : d[k] = after
    <3>1. u.link[after].queue = q
      BY <2>2 DEF TakenOut
    <3>2. after \in ToSet(g[q]) /\ g[q] \in Seq(Links)
      BY <1>5, <2>3, <3>1 DEF Lists, KnownBut
    <3> HIDE DEF g, d
    <3> QED BY <2>5, <3>2 DEF ToSet
  <2> HIDE DEF a, b, d, g
  <2>7. Chain(u, q, d) /\ d \in Seq(Links) /\ \A x \in ToSet(d) : u.link[x].queue = q
    BY <2>4, <2>5, ReadyList
  <2> DEFINE n == At(d, k + 1)
  <2>8. Gap(u, q, At(d, k), n) /\ n \in Links \cup {NULL} /\ At(d, k) = after /\ n # l
    <3>1. k \in 0 .. Len(d) /\ k + 1 \in 0 .. Len(d) + 1
      BY <1>1, <2>5
    <3>2. At(d, k) = after
      BY <2>6 DEF At
    <3>3. n # l
      BY <2>4, <2>5, <3>1, ReadyList
    <3> QED BY <2>7, <3>1, <3>2, <3>3, GapAt
  <2> HIDE DEF n
  <2>9. after # NULL
    BY DEF Links, NULL
  <2>10. /\ w \in LinkMemories /\ Inserted(u, w, q, after, n, l)
         /\ \A x \in Links : w.link[x].queue = m.link[x].queue /\ w.link[x].object = m.link[x].object
    BY <2>2, <2>8, <2>9 DEF Gap, MovedBehind
  <2>11. PutThere(u, w, q, At(d, k), n, l)
    BY <2>2, <2>8, <2>10 DEF PutThere, TakenOut
  <2>12. Listed(w, Put(g, q, k, l))
    <3>1. k \in 0 .. Len(g[q]) /\ PutThere(u, w, q, At(g[q], k), At(g[q], k + 1), l)
      BY <1>1, <2>5, <2>11 DEF n
    <3> QED BY <2>4, <3>1, PutListed DEF Ready
  <2>13. SameObjects(m, w)
    BY <2>10 DEF SameObjects
  <2>14. i \in 1 .. Len(c) - 1 /\ k \in 1 .. Len(c) - 1
    BY <1>1, <2>1, <2>5
  <2> QED BY <1>2, <2>6, <2>12, <2>13, <2>14 DEF d, g
<1> QED BY <1>4, <1>5

-----------------------------------------------------------------------------
\* The pool as AQueueModuleInit fills it.

\* The first n links are on the free list, in their order.
FilledTo(n) ==
  [link  |-> [l \in Links |-> IF l =< n
                THEN [next |-> IF l < n THEN l + 1 ELSE NULL, prev |-> l - 1,
                      queue |-> freeLinks, object |-> NoObject]
                ELSE [next |-> NULL, prev |-> NULL, queue |-> NoQueue, object |-> NoObject]],
   queue |-> [q \in AllQueues |-> IF q = freeLinks
                THEN [first |-> IF n = 0 THEN NULL ELSE 1, last |-> n, nitems |-> n]
                ELSE [first |-> NULL, last |-> NULL, nitems |-> 0]]]

\* A memory is its fields.
LEMMA SameMemory ==
  ASSUME NEW m \in LinkMemories, NEW w \in LinkMemories,
         \A x \in Links : /\ w.link[x].next = m.link[x].next /\ w.link[x].prev = m.link[x].prev
                          /\ w.link[x].queue = m.link[x].queue /\ w.link[x].object = m.link[x].object,
         \A q \in AllQueues : w.queue[q] = m.queue[q]
  PROVE  w = m
<1>1. /\ m.link \in [Links -> Cells] /\ w.link \in [Links -> Cells]
      /\ m.queue \in [AllQueues -> Heads] /\ w.queue \in [AllQueues -> Heads]
      /\ m = [link |-> m.link, queue |-> m.queue] /\ w = [link |-> w.link, queue |-> w.queue]
  <2> HIDE DEF Cells, Heads
  <2> QED BY DEF LinkMemories
<1>2. ASSUME NEW x \in Links
      PROVE  w.link[x] = m.link[x]
  <2>1. m.link[x] \in Cells /\ w.link[x] \in Cells
    BY <1>1
  <2>2. \A e \in Cells : e = [next |-> e.next, prev |-> e.prev, queue |-> e.queue, object |-> e.object]
    BY DEF Cells
  <2> HIDE DEF Cells
  <2> QED BY <2>1, <2>2
<1>3. w.link = m.link
  <2> HIDE DEF Cells
  <2> QED BY <1>1, <1>2
<1>4. w.queue = m.queue
  <2> HIDE DEF Heads
  <2> QED BY <1>1
<1> QED BY <1>1, <1>3, <1>4

LEMMA FilledToFields ==
  ASSUME NEW n \in 0 .. QUEUE_MAX_LINKS
  PROVE  /\ FilledTo(n) \in LinkMemories
         /\ \A x \in Links :
              /\ FilledTo(n).link[x].next = IF x < n THEN x + 1 ELSE NULL
              /\ FilledTo(n).link[x].prev = IF x =< n THEN x - 1 ELSE NULL
              /\ FilledTo(n).link[x].queue = IF x =< n THEN freeLinks ELSE NoQueue
              /\ FilledTo(n).link[x].object = NoObject
         /\ FilledTo(n).queue[freeLinks] = [first |-> IF n = 0 THEN NULL ELSE 1, last |-> n, nitems |-> n]
         /\ \A q \in Queues : FilledTo(n).queue[q] = [first |-> NULL, last |-> NULL, nitems |-> 0]
<1> DEFINE cell(l) == IF l =< n
                THEN [next |-> IF l < n THEN l + 1 ELSE NULL, prev |-> l - 1,
                      queue |-> freeLinks, object |-> NoObject]
                ELSE [next |-> NULL, prev |-> NULL, queue |-> NoQueue, object |-> NoObject]
           head(q) == IF q = freeLinks
                THEN [first |-> IF n = 0 THEN NULL ELSE 1, last |-> n, nitems |-> n]
                ELSE [first |-> NULL, last |-> NULL, nitems |-> 0]
<1>0. QUEUE_MAX_LINKS \in Nat /\ n \in Nat /\ freeLinks \in AllQueues /\ Queues \subseteq AllQueues
      /\ freeLinks \notin Queues
  BY PoolAssumption, FreeLinksAssumption DEF AllQueues
<1>1. ASSUME NEW l \in Links
      PROVE  /\ cell(l) \in Cells
             /\ cell(l).next = IF l < n THEN l + 1 ELSE NULL
             /\ cell(l).prev = IF l =< n THEN l - 1 ELSE NULL
             /\ cell(l).queue = IF l =< n THEN freeLinks ELSE NoQueue
             /\ cell(l).object = NoObject
  <2>1. l \in 1 .. QUEUE_MAX_LINKS /\ l - 1 \in Links \cup {NULL} /\ (l < n => l + 1 \in Links)
    BY <1>0 DEF Links, NULL
  <2>2. ASSUME NEW a \in Links \cup {NULL}, NEW b \in Links \cup {NULL}, NEW q \in AllQueues \cup {NoQueue}
        PROVE  [next |-> a, prev |-> b, queue |-> q, object |-> NoObject] \in Cells
    BY DEF Cells
  <2>3. CASE l =< n
    <3>1. cell(l) = [next |-> IF l < n THEN l + 1 ELSE NULL, prev |-> l - 1, queue |-> freeLinks, object |-> NoObject]
      BY <2>3
    <3>2. (IF l < n THEN l + 1 ELSE NULL) \in Links \cup {NULL}
      BY <2>1
    <3> QED BY <1>0, <2>1, <2>2, <2>3, <3>1, <3>2
  <2>4. CASE ~(l =< n)
    <3>1. cell(l) = [next |-> NULL, prev |-> NULL, queue |-> NoQueue, object |-> NoObject] /\ ~(l < n)
      BY <1>0, <2>1, <2>4
    <3> QED BY <2>2, <2>4, <3>1
  <2> QED BY <2>3, <2>4
<1>2. ASSUME NEW q \in AllQueues
      PROVE  head(q) \in Heads
  <2>1. n \in Links \cup {NULL} /\ (n # 0 => 1 \in Links) /\ n \in Int /\ 0 \in Int
    BY <1>0 DEF Links, NULL
  <2>2. ASSUME NEW a \in Links \cup {NULL}, NEW b \in Links \cup {NULL}, NEW i \in Int
        PROVE  [first |-> a, last |-> b, nitems |-> i] \in Heads
    BY DEF Heads
  <2>3. (IF n = 0 THEN NULL ELSE 1) \in Links \cup {NULL}
    BY <2>1
  <2> QED BY <2>1, <2>2, <2>3
<1>3. FilledTo(n) = [link |-> [l \in Links |-> cell(l)], queue |-> [q \in AllQueues |-> head(q)]]
  BY DEF FilledTo
<1>4. head(freeLinks) = [first |-> IF n = 0 THEN NULL ELSE 1, last |-> n, nitems |-> n]
      /\ \A q \in Queues : head(q) = [first |-> NULL, last |-> NULL, nitems |-> 0]
  BY <1>0
<1> HIDE DEF cell, head, Cells, Heads
<1>5. /\ FilledTo(n) \in LinkMemories
      /\ \A x \in Links : FilledTo(n).link[x] = cell(x)
      /\ \A q \in AllQueues : FilledTo(n).queue[q] = head(q)
  BY <1>1, <1>2, <1>3 DEF LinkMemories
<1> QED BY <1>0, <1>1, <1>4, <1>5

LEMMA OneMoreFilled ==
  ASSUME NEW n \in 1 .. QUEUE_MAX_LINKS
  PROVE  AQueueInsertLast(FilledTo(n - 1), freeLinks, n) = FilledTo(n)
<1> DEFINE m == FilledTo(n - 1)
           w == AQueueInsertLast(m, freeLinks, n)
           z == FilledTo(n)
<1>0. /\ QUEUE_MAX_LINKS \in Nat /\ n \in Nat /\ n - 1 \in 0 .. QUEUE_MAX_LINKS /\ n \in 0 .. QUEUE_MAX_LINKS
      /\ freeLinks \in AllQueues /\ AllQueues = Queues \cup {freeLinks} /\ freeLinks \notin Queues
  BY PoolAssumption, FreeLinksAssumption DEF AllQueues
<1>1. /\ n \in Links /\ n - 1 \in Links \cup {NULL} /\ n # n - 1 /\ n # NULL /\ (n - 1 = NULL <=> n = 1)
      /\ NULL \in Links \cup {NULL} /\ \A x \in Links : x # NULL /\ x \in Nat
  BY <1>0 DEF Links, NULL
<1>2. /\ m \in LinkMemories
      /\ \A x \in Links :
              /\ m.link[x].next = IF x < n - 1 THEN x + 1 ELSE NULL
              /\ m.link[x].prev = IF x =< n - 1 THEN x - 1 ELSE NULL
              /\ m.link[x].queue = IF x =< n - 1 THEN freeLinks ELSE NoQueue
              /\ m.link[x].object = NoObject
      /\ m.queue[freeLinks] = [first |-> IF n - 1 = 0 THEN NULL ELSE 1, last |-> n - 1, nitems |-> n - 1]
      /\ \A q \in Queues : m.queue[q] = [first |-> NULL, last |-> NULL, nitems |-> 0]
  BY <1>0, FilledToFields
<1>3. /\ z \in LinkMemories
      /\ \A x \in Links :
              /\ z.link[x].next = IF x < n THEN x + 1 ELSE NULL
              /\ z.link[x].prev = IF x =< n THEN x - 1 ELSE NULL
              /\ z.link[x].queue = IF x =< n THEN freeLinks ELSE NoQueue
              /\ z.link[x].object = NoObject
      /\ z.queue[freeLinks] = [first |-> IF n = 0 THEN NULL ELSE 1, last |-> n, nitems |-> n]
      /\ \A q \in Queues : z.queue[q] = [first |-> NULL, last |-> NULL, nitems |-> 0]
  BY <1>0, FilledToFields
<1>4. w = AQueueInsertAfter(m, freeLinks, n - 1, n)
  BY <1>2 DEF AQueueInsertLast
<1> HIDE DEF m, w, z
<1>5. Gap(m, freeLinks, n - 1, NULL)
  <2>1. ASSUME n - 1 # NULL
        PROVE  m.link[n - 1].next = NULL /\ m.link[n - 1].queue = freeLinks
    <3>1. n - 1 \in Links /\ ~(n - 1 < n - 1) /\ n - 1 =< n - 1
      BY <1>0, <1>1, <2>1
    <3> QED BY <1>2, <3>1
  <2>2. n - 1 = NULL => m.queue[freeLinks] = [first |-> NULL, last |-> NULL, nitems |-> 0]
    <3>1. n - 1 = NULL => n - 1 = 0
      BY DEF NULL
    <3> QED BY <1>2, <3>1
  <2> QED BY <1>2, <2>1, <2>2 DEF Gap
<1>6. PutThere(m, w, freeLinks, n - 1, NULL, n)
  BY <1>0, <1>1, <1>2, <1>4, <1>5, InsertAfterDoes
<1>7. ASSUME NEW x \in Links
      PROVE  /\ w.link[x].next = z.link[x].next /\ w.link[x].prev = z.link[x].prev
             /\ w.link[x].queue = z.link[x].queue /\ w.link[x].object = z.link[x].object
  <2>1. /\ w.link[x].next = IF x = n THEN NULL ELSE IF x = n - 1 THEN n ELSE m.link[x].next
        /\ w.link[x].prev = IF x = n THEN n - 1 ELSE IF x = NULL THEN n ELSE m.link[x].prev
        /\ w.link[x].queue = IF x = n THEN freeLinks ELSE m.link[x].queue
        /\ w.link[x].object = m.link[x].object
    BY <1>6 DEF PutThere, Inserted
  <2>2. w.link[x].next = z.link[x].next
    <3>1. x = n \/ x = n - 1 \/ (x < n - 1 /\ x < n) \/ x > n
      BY <1>0, <1>1
    <3>2. x = n - 1 => x < n /\ x + 1 = n /\ x # n
      BY <1>0, <1>1
    <3>3. x > n => ~(x < n) /\ ~(x < n - 1) /\ x # n /\ x # n - 1
      BY <1>0, <1>1
    <3>4. x = n => ~(x < n)
      BY <1>0
    <3>5. x < n - 1 => x # n /\ x # n - 1
      BY <1>0, <1>1
    <3> QED BY <1>2, <1>3, <2>1, <3>1, <3>2, <3>3, <3>4, <3>5
  <2>3. w.link[x].prev = z.link[x].prev
    <3>1. (x # n => (x =< n - 1 <=> x =< n)) /\ n =< n
      BY <1>0, <1>1
    <3> QED BY <1>1, <1>2, <1>3, <2>1, <3>1
  <2>4. w.link[x].queue = z.link[x].queue
    <3>1. (x # n => (x =< n - 1 <=> x =< n)) /\ n =< n
      BY <1>0, <1>1
    <3> QED BY <1>1, <1>2, <1>3, <2>1, <3>1
  <2> QED BY <1>2, <1>3, <2>1, <2>2, <2>3, <2>4
<1>8. w.queue[freeLinks] = z.queue[freeLinks]
  <2>1. w.queue[freeLinks] = [first  |-> IF n - 1 = NULL THEN n ELSE m.queue[freeLinks].first,
                              last   |-> n, nitems |-> m.queue[freeLinks].nitems + 1]
    BY <1>6 DEF PutThere, Inserted
  <2>2. m.queue[freeLinks].nitems + 1 = n
    BY <1>0, <1>2
  <2>3. (IF n - 1 = NULL THEN n ELSE m.queue[freeLinks].first) = 1
    BY <1>0, <1>1, <1>2
  <2>4. n # 0
    BY <1>0
  <2> QED BY <1>3, <2>1, <2>2, <2>3, <2>4
<1>9. \A q \in Queues : w.queue[q] = z.queue[q]
  <2>1. \A q \in Queues : q \in AllQueues \ {freeLinks}
    BY <1>0
  <2> QED BY <1>2, <1>3, <1>6, <2>1 DEF PutThere, Inserted
<1>10. w \in LinkMemories
  BY <1>6 DEF PutThere
<1>11. w = z
  BY <1>0, <1>3, <1>7, <1>8, <1>9, <1>10, SameMemory
<1> QED BY <1>11 DEF w, z, m

\* The recursion of AQueueModuleInit ends in the full pool.
LEMMA AllFilled == AQueueModuleInit = FilledTo(QUEUE_MAX_LINKS)
<1> DEFINE empty == [link  |-> [l \in Links |-> [next |-> NULL, prev |-> NULL,
                                            queue |-> NoQueue, object |-> NoObject]],
                     queue |-> [q \in AllQueues |-> [first |-> NULL, last |-> NULL, nitems |-> 0]]]
           P(h) == h = [l \in 0 .. QUEUE_MAX_LINKS |->
                         IF l = 0 THEN empty ELSE AQueueInsertLast(h[l - 1], freeLinks, l)]
           W == [l \in 0 .. QUEUE_MAX_LINKS |-> FilledTo(l)]
           H == CHOOSE h : P(h)
<1>1. QUEUE_MAX_LINKS \in Nat
  BY PoolAssumption
<1>2. FilledTo(0) = empty
  <2>1. \A l \in Links : ~(l =< 0)
    BY <1>1 DEF Links
  <2>2. FilledTo(0).link = empty.link
    BY <2>1 DEF FilledTo
  <2>3. FilledTo(0).queue = empty.queue
    BY DEF FilledTo, NULL
  <2> QED BY <2>2, <2>3 DEF FilledTo
<1>3. AQueueModuleInit = H[QUEUE_MAX_LINKS]
  BY DEF AQueueModuleInit
<1> HIDE DEF empty
<1>4. P(W)
  <2>1. ASSUME NEW l \in 0 .. QUEUE_MAX_LINKS
        PROVE  FilledTo(l) = IF l = 0 THEN empty ELSE AQueueInsertLast(W[l - 1], freeLinks, l)
    <3>1. CASE l = 0
      BY <1>2, <3>1
    <3>2. CASE l # 0
      <4>1. l \in 1 .. QUEUE_MAX_LINKS /\ l - 1 \in 0 .. QUEUE_MAX_LINKS
        BY <1>1, <3>2
      <4>2. W[l - 1] = FilledTo(l - 1)
        BY <4>1
      <4>3. AQueueInsertLast(FilledTo(l - 1), freeLinks, l) = FilledTo(l)
        BY <4>1, OneMoreFilled
      <4> HIDE DEF W
      <4> QED BY <3>2, <4>2, <4>3
    <3> QED BY <3>1, <3>2
  <2>2. W = [l \in 0 .. QUEUE_MAX_LINKS |-> IF l = 0 THEN empty ELSE AQueueInsertLast(W[l - 1], freeLinks, l)]
    BY <2>1
  <2> QED BY <2>2
<1> HIDE DEF P
<1>5. P(H)
  BY <1>4
<1> HIDE DEF H
<1>6. \A l \in 0 .. QUEUE_MAX_LINKS : H[l] = IF l = 0 THEN empty ELSE AQueueInsertLast(H[l - 1], freeLinks, l)
  <2>1. H = [l \in 0 .. QUEUE_MAX_LINKS |-> IF l = 0 THEN empty ELSE AQueueInsertLast(H[l - 1], freeLinks, l)]
    BY <1>5 DEF P
  <2> QED BY <2>1
<1>7. \A l \in 0 .. QUEUE_MAX_LINKS : H[l] = FilledTo(l)
  <2> DEFINE Bad == {l \in 0 .. QUEUE_MAX_LINKS : H[l] # FilledTo(l)}
  <2> SUFFICES ASSUME Bad # {} PROVE FALSE
    OBVIOUS
  <2>1. Bad \in SUBSET Nat
    BY <1>1
  <2> DEFINE k == Min(Bad)
  <2>2. k \in Bad /\ \A y \in Bad : k =< y
    BY <2>1, LeastNumber
  <2> HIDE DEF k
  <2>3. k \in 0 .. QUEUE_MAX_LINKS /\ H[k] # FilledTo(k)
    BY <2>2
  <2>4. k # 0
    BY <1>2, <1>6, <2>3
  <2>5. k \in 1 .. QUEUE_MAX_LINKS /\ k - 1 \in 0 .. QUEUE_MAX_LINKS /\ ~(k =< k - 1)
    BY <1>1, <2>3, <2>4
  <2>6. H[k - 1] = FilledTo(k - 1)
    BY <2>2, <2>5
  <2>7. H[k] = AQueueInsertLast(FilledTo(k - 1), freeLinks, k)
    BY <1>6, <2>3, <2>4, <2>6
  <2> QED BY <2>3, <2>5, <2>7, OneMoreFilled
<1> QED BY <1>1, <1>3, <1>7

\* The lists the boot leaves: the whole pool is free.
StartLists == [q \in AllQueues |-> IF q = freeLinks THEN [i \in Links |-> i] ELSE <<>>]

LEMMA StartListed == Listed(AQueueModuleInit, StartLists)
<1> DEFINE N == QUEUE_MAX_LINKS
           m == FilledTo(N)
           p == [i \in Links |-> i]
<1>0. /\ N \in Nat /\ N \in 0 .. N /\ Links = 1 .. N
      /\ AllQueues = Queues \cup {freeLinks} /\ freeLinks \notin Queues /\ freeLinks \in AllQueues
      /\ NoQueue \notin AllQueues
  BY PoolAssumption, FreeLinksAssumption, NoQueueAssumption DEF AllQueues, Links
<1>1. /\ m \in LinkMemories
      /\ \A x \in Links :
              /\ m.link[x].next = IF x < N THEN x + 1 ELSE NULL
              /\ m.link[x].prev = IF x =< N THEN x - 1 ELSE NULL
              /\ m.link[x].queue = IF x =< N THEN freeLinks ELSE NoQueue
              /\ m.link[x].object = NoObject
      /\ m.queue[freeLinks] = [first |-> IF N = 0 THEN NULL ELSE 1, last |-> N, nitems |-> N]
      /\ \A q \in Queues : m.queue[q] = [first |-> NULL, last |-> NULL, nitems |-> 0]
  BY <1>0, FilledToFields
<1>2. p \in Seq(Links) /\ Len(p) = N /\ IsInjective(p) /\ ToSet(p) = Links /\ \A i \in 1 .. N : p[i] = i
  <2>1. p \in [1 .. N -> Links] /\ \A i \in 1 .. N : p[i] = i
    BY <1>0
  <2>2. p \in Seq(Links) /\ Len(p) = N
    <3> HIDE DEF p
    <3> QED BY <1>0, <2>1
  <2>3. IsInjective(p)
    BY <1>0, <2>1 DEF IsInjective
  <2>4. ToSet(p) = Links
    BY <1>0, <2>1 DEF ToSet
  <2> QED BY <2>1, <2>2, <2>3, <2>4
<1>3. <<>> \in Seq(Links) /\ Len(<<>>) = 0 /\ IsInjective(<<>>) /\ ToSet(<<>>) = {}
  BY DEF IsInjective, ToSet
<1>4. /\ StartLists \in Lists /\ StartLists[freeLinks] = p
      /\ \A q \in Queues : StartLists[q] = <<>>
  BY <1>0, <1>2, <1>3 DEF StartLists, Lists
<1> HIDE DEF p, m
<1>5. \A i \in 0 .. N + 1 : At(p, i) = IF i =< N THEN i ELSE NULL
  <2>1. ASSUME NEW i \in 0 .. N + 1
        PROVE  At(p, i) = IF i =< N THEN i ELSE NULL
    <3>1. CASE i \in 1 .. N
      BY <1>0, <1>2, <3>1 DEF At
    <3>2. CASE i = 0
      <4>1. 0 \notin 1 .. N /\ 0 =< N
        BY <1>0
      <4> QED BY <1>2, <3>2, <4>1 DEF At, NULL
    <3>3. CASE i = N + 1
      <4>1. N + 1 \notin 1 .. N /\ ~(N + 1 =< N)
        BY <1>0
      <4> QED BY <1>2, <3>3, <4>1 DEF At
    <3> QED BY <1>0, <3>1, <3>2, <3>3
  <2> QED BY <2>1
<1>6. Chain(m, freeLinks, p)
  <2>1. ASSUME NEW i \in 1 .. N
        PROVE  m.link[p[i]].next = At(p, i + 1) /\ m.link[p[i]].prev = At(p, i - 1)
    <3>1. /\ i + 1 \in 0 .. N + 1 /\ i - 1 \in 0 .. N + 1 /\ i \in Links /\ p[i] = i
          /\ (i + 1 =< N <=> i < N) /\ i - 1 =< N /\ i =< N
      BY <1>0, <1>2
    <3> QED BY <1>1, <1>5, <3>1
  <2>2. m.queue[freeLinks] = [first |-> At(p, 1), last |-> At(p, N), nitems |-> N]
    <3>1. 1 \in 0 .. N + 1 /\ N \in 0 .. N + 1 /\ (1 =< N <=> N # 0) /\ N =< N
      BY <1>0
    <3> QED BY <1>1, <1>5, <3>1
  <2> QED BY <1>2, <2>1, <2>2 DEF Chain
<1>7. ASSUME NEW q \in Queues PROVE Chain(m, q, <<>>)
  <2>1. 1 .. Len(<<>>) = {} /\ At(<<>>, 1) = NULL /\ At(<<>>, Len(<<>>)) = NULL
    BY <1>3 DEF At
  <2> QED BY <1>1, <1>3, <2>1 DEF Chain
<1>8. Chains(m, StartLists)
  BY <1>0, <1>2, <1>3, <1>4, <1>6, <1>7 DEF Chains
<1>9. Known(m, StartLists)
  <2>1. \A x \in Links : x =< N
    BY <1>0
  <2> QED BY <1>0, <1>1, <1>2, <1>3, <1>4, <2>1 DEF Known
<1> QED BY <1>1, <1>4, <1>8, <1>9, AllFilled DEF Listed, m

-----------------------------------------------------------------------------
\* A list read by its pointers.

\* By next from the first link on it is the list.
LEMMA ForwardIsList ==
  ASSUME NEW m, NEW q \in AllQueues, NEW c, Chain(m, q, c)
  PROVE  Forward(m, q) = c
<1> DEFINE n == Len(c)
           d == c
           P(h) == h = [i \in 1 .. m.queue[q].nitems |->
                          IF i = 1 THEN m.queue[q].first
                          ELSE IF h[i - 1] = NULL THEN NULL ELSE m.link[h[i - 1]].next]
           H == CHOOSE h : P(h)
<1>1. Forward(m, q) = H
  BY DEF Forward
<1>2. /\ c \in Seq(Links) /\ n \in Nat
      /\ m.queue[q] = [first |-> At(c, 1), last |-> At(c, n), nitems |-> n]
      /\ \A i \in 1 .. n : m.link[c[i]].next = At(c, i + 1) /\ m.link[c[i]].prev = At(c, i - 1)
      /\ \A i \in 1 .. n : At(c, i) = c[i] /\ At(c, i) \in Links /\ At(c, i) # NULL
  <2>1. c \in Seq(Links) /\ IsInjective(c)
    BY DEF Chain
  <2> QED BY <2>1, PlacesOf DEF Chain
<1>3. /\ d = [i \in 1 .. n |-> d[i]] /\ \A i \in 1 .. n : d[i] \in Links /\ d[i] # NULL
      /\ n > 0 => d[1] = m.queue[q].first
      /\ \A i \in 2 .. n : m.link[d[i - 1]].next = d[i]
  <2>1. n > 0 => 1 \in 1 .. n
    BY <1>2
  <2>2. \A i \in 2 .. n : i \in 1 .. n /\ i - 1 \in 1 .. n /\ (i - 1) + 1 = i
    BY <1>2
  <2>3. d = [i \in 1 .. n |-> d[i]]
    BY <1>2
  <2> QED BY <1>2, <2>1, <2>2, <2>3
<1> HIDE DEF d
<1>4. m.queue[q].nitems = n
  BY <1>2
<1>5. P(d)
  <2>1. \A i \in 1 .. n : d[i] = IF i = 1 THEN m.queue[q].first
                                 ELSE IF d[i - 1] = NULL THEN NULL ELSE m.link[d[i - 1]].next
    <3>1. \A i \in 1 .. n : i # 1 => i \in 2 .. n /\ i - 1 \in 1 .. n
      BY <1>2
    <3>2. \A i \in 1 .. n : n > 0
      BY <1>2
    <3> QED BY <1>3, <3>1, <3>2
  <2>2. d = [i \in 1 .. n |-> IF i = 1 THEN m.queue[q].first
                              ELSE IF d[i - 1] = NULL THEN NULL ELSE m.link[d[i - 1]].next]
    BY <1>3, <2>1
  <2> QED BY <1>4, <2>2
<1> HIDE DEF P
<1>6. P(H)
  BY <1>5
<1> HIDE DEF H
<1>7. /\ H = [i \in 1 .. n |-> H[i]]
      /\ \A i \in 1 .. n : H[i] = IF i = 1 THEN m.queue[q].first
                                  ELSE IF H[i - 1] = NULL THEN NULL ELSE m.link[H[i - 1]].next
  <2>1. H = [i \in 1 .. n |-> IF i = 1 THEN m.queue[q].first
                              ELSE IF H[i - 1] = NULL THEN NULL ELSE m.link[H[i - 1]].next]
    BY <1>4, <1>6 DEF P
  <2> QED BY <2>1
<1>8. \A i \in 1 .. n : H[i] = d[i]
  <2> DEFINE Bad == {i \in 1 .. n : H[i] # d[i]}
             k == Min(Bad)
  <2> SUFFICES ASSUME Bad # {} PROVE FALSE
    OBVIOUS
  <2>1. Bad \in SUBSET Nat
    BY <1>2
  <2>2. k \in Bad /\ \A y \in Bad : k =< y
    BY <2>1, LeastNumber
  <2> HIDE DEF k
  <2>3. k \in 1 .. n /\ H[k] # d[k] /\ n > 0
    BY <1>2, <2>2
  <2>4. k # 1
    BY <1>3, <1>7, <2>3
  <2>5. k \in 2 .. n /\ k - 1 \in 1 .. n /\ ~(k =< k - 1)
    BY <1>2, <2>3, <2>4
  <2>6. H[k - 1] = d[k - 1]
    BY <2>2, <2>5
  <2>7. H[k] = m.link[d[k - 1]].next
    BY <1>3, <1>7, <2>3, <2>4, <2>5, <2>6
  <2> QED BY <1>3, <2>3, <2>5, <2>7
<1> QED BY <1>1, <1>3, <1>7, <1>8 DEF d

\* By prev from the last link on it is the list from its end.
LEMMA BackwardIsList ==
  ASSUME NEW m, NEW q \in AllQueues, NEW c, Chain(m, q, c)
  PROVE  Backward(m, q) = Reverse(c)
<1> DEFINE n == Len(c)
           d == Reverse(c)
           P(h) == h = [i \in 1 .. m.queue[q].nitems |->
                          IF i = 1 THEN m.queue[q].last
                          ELSE IF h[i - 1] = NULL THEN NULL ELSE m.link[h[i - 1]].prev]
           H == CHOOSE h : P(h)
<1>1. Backward(m, q) = H
  BY DEF Backward
<1>2. /\ c \in Seq(Links) /\ n \in Nat
      /\ m.queue[q] = [first |-> At(c, 1), last |-> At(c, n), nitems |-> n]
      /\ \A i \in 1 .. n : m.link[c[i]].next = At(c, i + 1) /\ m.link[c[i]].prev = At(c, i - 1)
      /\ \A i \in 1 .. n : At(c, i) = c[i] /\ At(c, i) \in Links /\ At(c, i) # NULL
  <2>1. c \in Seq(Links) /\ IsInjective(c)
    BY DEF Chain
  <2> QED BY <2>1, PlacesOf DEF Chain
<1>3. /\ d = [i \in 1 .. n |-> d[i]] /\ \A i \in 1 .. n : d[i] \in Links /\ d[i] # NULL
      /\ n > 0 => d[1] = m.queue[q].last
      /\ \A i \in 2 .. n : m.link[d[i - 1]].prev = d[i]
  <2>1. \A i \in 1 .. n : d[i] = c[(n - i) + 1] /\ (n - i) + 1 \in 1 .. n
    BY <1>2 DEF Reverse
  <2>2. n > 0 => 1 \in 1 .. n /\ n \in 1 .. n /\ (n - 1) + 1 = n
    BY <1>2
  <2>3. \A i \in 2 .. n : /\ i \in 1 .. n /\ i - 1 \in 1 .. n /\ (n - (i - 1)) + 1 = (n - i) + 2
                          /\ ((n - (i - 1)) + 1) - 1 = (n - i) + 1
    BY <1>2
  <2>4. d = [i \in 1 .. n |-> d[i]]
    BY DEF Reverse
  <2> HIDE DEF d
  <2>5. n > 0 => d[1] = m.queue[q].last
    BY <1>2, <2>1, <2>2
  <2>6. ASSUME NEW i \in 2 .. n PROVE m.link[d[i - 1]].prev = d[i]
    <3>1. d[i - 1] = c[(n - (i - 1)) + 1] /\ (n - (i - 1)) + 1 \in 1 .. n
      BY <2>1, <2>3
    <3>2. m.link[d[i - 1]].prev = At(c, ((n - (i - 1)) + 1) - 1)
      BY <1>2, <3>1
    <3>3. ((n - (i - 1)) + 1) - 1 = (n - i) + 1 /\ (n - i) + 1 \in 1 .. n /\ d[i] = c[(n - i) + 1]
      BY <2>1, <2>3
    <3>4. At(c, (n - i) + 1) = c[(n - i) + 1]
      BY <1>2, <3>3
    <3> QED BY <3>2, <3>3, <3>4
  <2>7. \A i \in 1 .. n : d[i] \in Links /\ d[i] # NULL
    BY <1>2, <2>1
  <2> QED BY <2>4, <2>5, <2>6, <2>7
<1> HIDE DEF d
<1>4. m.queue[q].nitems = n
  BY <1>2
<1>5. P(d)
  <2>1. \A i \in 1 .. n : d[i] = IF i = 1 THEN m.queue[q].last
                                 ELSE IF d[i - 1] = NULL THEN NULL ELSE m.link[d[i - 1]].prev
    <3>1. \A i \in 1 .. n : i # 1 => i \in 2 .. n /\ i - 1 \in 1 .. n
      BY <1>2
    <3>2. \A i \in 1 .. n : n > 0
      BY <1>2
    <3> QED BY <1>3, <3>1, <3>2
  <2>2. d = [i \in 1 .. n |-> IF i = 1 THEN m.queue[q].last
                              ELSE IF d[i - 1] = NULL THEN NULL ELSE m.link[d[i - 1]].prev]
    BY <1>3, <2>1
  <2> QED BY <1>4, <2>2
<1> HIDE DEF P
<1>6. P(H)
  BY <1>5
<1> HIDE DEF H
<1>7. /\ H = [i \in 1 .. n |-> H[i]]
      /\ \A i \in 1 .. n : H[i] = IF i = 1 THEN m.queue[q].last
                                  ELSE IF H[i - 1] = NULL THEN NULL ELSE m.link[H[i - 1]].prev
  <2>1. H = [i \in 1 .. n |-> IF i = 1 THEN m.queue[q].last
                              ELSE IF H[i - 1] = NULL THEN NULL ELSE m.link[H[i - 1]].prev]
    BY <1>4, <1>6 DEF P
  <2> QED BY <2>1
<1>8. \A i \in 1 .. n : H[i] = d[i]
  <2> DEFINE Bad == {i \in 1 .. n : H[i] # d[i]}
             k == Min(Bad)
  <2> SUFFICES ASSUME Bad # {} PROVE FALSE
    OBVIOUS
  <2>1. Bad \in SUBSET Nat
    BY <1>2
  <2>2. k \in Bad /\ \A y \in Bad : k =< y
    BY <2>1, LeastNumber
  <2> HIDE DEF k
  <2>3. k \in 1 .. n /\ H[k] # d[k] /\ n > 0
    BY <1>2, <2>2
  <2>4. k # 1
    BY <1>3, <1>7, <2>3
  <2>5. k \in 2 .. n /\ k - 1 \in 1 .. n /\ ~(k =< k - 1)
    BY <1>2, <2>3, <2>4
  <2>6. H[k - 1] = d[k - 1]
    BY <2>2, <2>5
  <2>7. H[k] = m.link[d[k - 1]].prev
    BY <1>3, <1>7, <2>3, <2>4, <2>5, <2>6
  <2> QED BY <1>3, <2>3, <2>5, <2>7
<1> QED BY <1>1, <1>3, <1>7, <1>8 DEF d

-----------------------------------------------------------------------------
\* What the lists and the objects are after an operation, as Queues has it.

ReadAll(m)   == [q \in AllQueues |-> Forward(m, q)]
ObjectsOf(m) == [l \in Links |-> m.link[l].object]
Sound(m)     == Listed(m, ReadAll(m))

LEMMA ListsAreRead ==
  ASSUME NEW m, NEW f, Listed(m, f)
  PROVE  ReadAll(m) = f /\ Sound(m)
<1>1. \A q \in AllQueues : Forward(m, q) = f[q]
  BY ForwardIsList DEF Listed, Chains
<1>2. f = [q \in AllQueues |-> f[q]]
  BY DEF Listed, Lists
<1>3. ReadAll(m) = f
  BY <1>1, <1>2 DEF ReadAll
<1> QED BY <1>3 DEF Sound

LEMMA ObjectsKept ==
  ASSUME NEW m, NEW w, SameObjects(m, w)
  PROVE  ObjectsOf(w) = ObjectsOf(m)
BY DEF SameObjects, ObjectsOf

LEMMA AllocDone ==
  ASSUME NEW m, NEW f, Listed(m, f), m.queue[freeLinks].nitems # 0, NEW obj \in Objects,
         NEW w, w = AQueueAllocLink(m, obj)
  PROVE  /\ Sound(w) /\ f[freeLinks] # <<>>
         /\ ReadAll(w) = [f EXCEPT ![freeLinks] = Tail(f[freeLinks])]
         /\ ObjectsOf(w) = [ObjectsOf(m) EXCEPT ![Head(f[freeLinks])] = obj]
<1> DEFINE c == f[freeLinks]
<1>1. /\ Listed(w, Taken(f, freeLinks, 1)) /\ 1 \in 1 .. Len(c) /\ c[1] \in Links
      /\ \A x \in Links : w.link[x].object = IF x = c[1] THEN obj ELSE m.link[x].object
  BY AllocListed
<1>2. c \in Seq(Links)
  BY DEF Listed, Lists, AllQueues
<1>3. RemoveAt(c, 1) = Tail(c) /\ Head(c) = c[1] /\ c # <<>>
  <2> HIDE DEF c
  <2>1. Len(c) \in Nat \ {0} /\ c # <<>>
    BY <1>1, <1>2
  <2> QED BY <1>2, <2>1 DEF RemoveAt
<1>4. Taken(f, freeLinks, 1) = [f EXCEPT ![freeLinks] = Tail(c)]
  BY <1>3 DEF Taken
<1>5. ReadAll(w) = Taken(f, freeLinks, 1) /\ Sound(w)
  BY <1>1, ListsAreRead
<1>6. ObjectsOf(w) = [ObjectsOf(m) EXCEPT ![Head(c)] = obj]
  <2> HIDE DEF c
  <2> QED BY <1>1, <1>3 DEF ObjectsOf
<1> QED BY <1>3, <1>4, <1>5, <1>6

LEMMA InsertDone ==
  ASSUME NEW m, NEW f, Listed(m, f), NEW l \in Links, m.link[l].queue = NoQueue, NEW q \in AllQueues,
         NEW w, \/ w = AQueueInsertFirst(m, q, l)
                \/ w = AQueueInsertLast(m, q, l)
                \/ \E place \in Links : /\ m.link[place].queue = q
                                        /\ \/ w = AQueueInsertAfter(m, q, place, l)
                                           \/ w = AQueueInsertBefore(m, q, place, l)
  PROVE  /\ Sound(w) /\ ObjectsOf(w) = ObjectsOf(m) /\ OnNoList(f, l)
         /\ \E k \in 1 .. Len(f[q]) + 1 : ReadAll(w) = [f EXCEPT ![q] = InsertAt(f[q], k, l)]
<1>1. Ready(m, f, l)
  BY HeldIsReady
<1>2. Len(f[q]) \in Nat
  BY <1>1, ReadyList
<1>3. \E k \in 0 .. Len(f[q]) : Listed(w, Put(f, q, k, l)) /\ SameObjects(m, w)
  <2>1. CASE w = AQueueInsertFirst(m, q, l)
    <3>1. 0 \in 0 .. Len(f[q])
      BY <1>2
    <3> QED BY <1>1, <2>1, <3>1, InsertFirstListed
  <2>2. CASE w = AQueueInsertLast(m, q, l)
    <3>1. Len(f[q]) \in 0 .. Len(f[q])
      BY <1>2
    <3> QED BY <1>1, <2>2, <3>1, InsertLastListed
  <2>3. ASSUME NEW place \in Links, m.link[place].queue = q,
               w = AQueueInsertAfter(m, q, place, l) \/ w = AQueueInsertBefore(m, q, place, l)
        PROVE  \E k \in 0 .. Len(f[q]) : Listed(w, Put(f, q, k, l)) /\ SameObjects(m, w)
    <3>1. PICK k \in 1 .. Len(f[q]) : f[q][k] = place
      BY <2>3, PlaceOnQueue
    <3>2. At(f[q], k) = place /\ k \in 0 .. Len(f[q]) /\ k # 0 /\ k - 1 \in 0 .. Len(f[q])
          /\ (k - 1) + 1 = k /\ k - 1 # Len(f[q])
      BY <1>2, <3>1 DEF At
    <3>3. CASE w = AQueueInsertAfter(m, q, place, l)
      BY <1>1, <3>2, <3>3, InsertAfterListed
    <3>4. CASE w = AQueueInsertBefore(m, q, place, l)
      <4>1. Listed(AQueueInsertBefore(m, q, At(f[q], (k - 1) + 1), l), Put(f, q, k - 1, l))
            /\ SameObjects(m, AQueueInsertBefore(m, q, At(f[q], (k - 1) + 1), l))
        BY <1>1, <3>2, InsertBeforeListed
      <4> QED BY <3>2, <3>4, <4>1
    <3> QED BY <2>3, <3>3, <3>4
  <2> QED BY <2>1, <2>2, <2>3
<1>4. PICK k \in 0 .. Len(f[q]) : Listed(w, Put(f, q, k, l)) /\ SameObjects(m, w)
  BY <1>3
<1>5. ReadAll(w) = Put(f, q, k, l) /\ Sound(w) /\ ObjectsOf(w) = ObjectsOf(m)
  BY <1>4, ListsAreRead, ObjectsKept
<1>6. k + 1 \in 1 .. Len(f[q]) + 1 /\ ReadAll(w) = [f EXCEPT ![q] = InsertAt(f[q], k + 1, l)]
  BY <1>2, <1>5 DEF Put
<1> QED BY <1>1, <1>5, <1>6 DEF Ready

LEMMA RemoveDone ==
  ASSUME NEW m, NEW f, Listed(m, f), NEW l \in Links, NEW q \in Queues, m.link[l].queue = q,
         NEW w, w = AQueueRemove(m, l)
  PROVE  /\ Sound(w) /\ ObjectsOf(w) = ObjectsOf(m)
         /\ \E k \in 1 .. Len(f[q]) :
              /\ f[q][k] = l
              /\ ReadAll(w) = [r \in AllQueues |-> IF r = freeLinks THEN Append(f[r], l)
                                                   ELSE IF r = q THEN RemoveAt(f[r], k) ELSE f[r]]
<1>1. q \in AllQueues /\ freeLinks \in AllQueues /\ q # freeLinks
  BY FreeLinksAssumption DEF AllQueues
<1>2. PICK k \in 1 .. Len(f[q]) : f[q][k] = l
  BY <1>1, PlaceOnQueue
<1> DEFINE g == Taken(f, q, k)
           e == Put(g, freeLinks, Len(g[freeLinks]), l)
<1>3. Listed(w, e) /\ SameObjects(m, w)
  <2>1. g = Taken(f, q, k)
    OBVIOUS
  <2> HIDE DEF g
  <2> QED BY <1>1, <1>2, <2>1, RemoveListed
<1>4. ReadAll(w) = e /\ Sound(w) /\ ObjectsOf(w) = ObjectsOf(m)
  <2> HIDE DEF e
  <2> QED BY <1>3, ListsAreRead, ObjectsKept
<1>5. f \in Lists /\ f[freeLinks] \in Seq(Links)
  BY <1>1 DEF Listed, Lists
<1>6. /\ g[freeLinks] = f[freeLinks] /\ g[q] = RemoveAt(f[q], k)
      /\ \A r \in AllQueues \ {q} : g[r] = f[r]
      /\ e = [g EXCEPT ![freeLinks] = InsertAt(f[freeLinks], Len(f[freeLinks]) + 1, l)]
      /\ DOMAIN g = AllQueues
  BY <1>1, <1>5 DEF Taken, Put, Lists
<1>7. InsertAt(f[freeLinks], Len(f[freeLinks]) + 1, l) = Append(f[freeLinks], l)
  BY <1>5, InsertAtEnd
<1>8. e = [r \in AllQueues |-> IF r = freeLinks THEN Append(f[r], l)
                               ELSE IF r = q THEN RemoveAt(f[r], k) ELSE f[r]]
  <2> HIDE DEF g, e
  <2>1. e = [r \in AllQueues |-> IF r = freeLinks THEN Append(f[freeLinks], l) ELSE g[r]]
    BY <1>6, <1>7
  <2>2. \A r \in AllQueues : r # freeLinks => g[r] = IF r = q THEN RemoveAt(f[r], k) ELSE f[r]
    BY <1>6
  <2> QED BY <2>1, <2>2
<1> QED BY <1>2, <1>4, <1>8

LEMMA MoveDone ==
  ASSUME NEW m, NEW f, Listed(m, f), NEW q \in AllQueues, NEW l \in Links, NEW after \in Links,
         m.link[l].queue = q, m.link[after].queue = q,
         NEW w, w = AQueueMoveAfter(m, q, after, l)
  PROVE  /\ Sound(w) /\ ObjectsOf(w) = ObjectsOf(m)
         /\ \/ w = m
            \/ \E i, k \in 1 .. Len(f[q]) - 1 :
                 /\ f[q][i] = l /\ RemoveAt(f[q], i)[k] = after
                 /\ ReadAll(w) = [f EXCEPT ![q] = InsertAt(RemoveAt(f[q], i), k + 1, l)]
<1>1. CASE w = m
  BY <1>1, ListsAreRead
<1>2. ASSUME NEW i \in 1 .. Len(f[q]) - 1, NEW k \in 1 .. Len(f[q]) - 1,
             f[q][i] = l /\ RemoveAt(f[q], i)[k] = after,
             Listed(w, Put(Taken(f, q, i), q, k, l)) /\ SameObjects(m, w)
      PROVE  /\ Sound(w) /\ ObjectsOf(w) = ObjectsOf(m)
             /\ ReadAll(w) = [f EXCEPT ![q] = InsertAt(RemoveAt(f[q], i), k + 1, l)]
  <2>1. ReadAll(w) = Put(Taken(f, q, i), q, k, l) /\ Sound(w) /\ ObjectsOf(w) = ObjectsOf(m)
    BY <1>2, ListsAreRead, ObjectsKept
  <2>2. \A a, b : [[f EXCEPT ![q] = a] EXCEPT ![q] = b] = [f EXCEPT ![q] = b]
    BY DEF Listed, Lists
  <2>3. Taken(f, q, i)[q] = RemoveAt(f[q], i)
    BY DEF Listed, Lists, Taken
  <2>4. Put(Taken(f, q, i), q, k, l) = [Taken(f, q, i) EXCEPT ![q] = InsertAt(RemoveAt(f[q], i), k + 1, l)]
    BY <2>3 DEF Put
  <2> QED BY <2>1, <2>2, <2>4 DEF Taken
<1> QED BY <1>1, <1>2, MoveListed

-----------------------------------------------------------------------------
\* The steps of the lists are steps of the queues.

LEMMA ReadContents == [q \in AllQueues |-> Forward(mem, q)] = ReadAll(mem)
BY DEF ReadAll

\* The operators of the sequences are the same ones in the instance.
LEMMA SameOperators ==
  /\ \A c : Abstract!ToSet(c) = ToSet(c)
  /\ \A c, i, e : Abstract!InsertAt(c, i, e) = InsertAt(c, i, e)
  /\ \A c, i : Abstract!RemoveAt(c, i) = RemoveAt(c, i)
BY DEF ToSet, Abstract!ToSet, InsertAt, Abstract!InsertAt, RemoveAt, Abstract!RemoveAt

LEMMA LinkInitial ==
  ASSUME LinksInit
  PROVE  Sound(mem) /\ Abstract!Init
<1> DEFINE p == [i \in Links |-> i]
<1>1. Listed(mem, StartLists)
  BY StartListed DEF LinksInit
<1>2. ReadAll(mem) = StartLists /\ Sound(mem)
  BY <1>1, ListsAreRead
<1>3. \A l \in Links : mem.link[l].object = NoObject
  <2>1. mem = FilledTo(QUEUE_MAX_LINKS) /\ QUEUE_MAX_LINKS \in 0 .. QUEUE_MAX_LINKS
    BY AllFilled, PoolAssumption DEF LinksInit
  <2> QED BY <2>1, FilledToFields
<1>4. ToSet(p) = Links
  BY DEF ToSet, Links
<1>5. StartLists = [q \in Queues \cup {freeLinks} |-> IF q = freeLinks THEN p ELSE <<>>]
  BY DEF StartLists, AllQueues
<1>6. [l \in Links |-> mem.link[l].object] = [l \in Links |-> NoObject]
  BY <1>3
<1>7. Abstract!LinkSet = Links
  BY <1>4, SameOperators DEF Abstract!LinkSet
<1>8. Abstract!Init
  BY <1>2, <1>5, <1>6, <1>7 DEF Abstract!Init, ReadAll
<1> QED BY <1>2, <1>8

LEMMA LinkStep ==
  ASSUME Sound(mem), LinksNext
  PROVE  Sound(mem') /\ (Abstract!Next \/ UNCHANGED Abstract!vars)
<1> DEFINE f == ReadAll(mem)
           g == ReadAll(mem')
           o == ObjectsOf(mem)
           p == ObjectsOf(mem')
<1>1. Listed(mem, f)
  BY DEF Sound
<1>2. /\ f = [q \in AllQueues |-> Forward(mem, q)] /\ g = [q \in AllQueues |-> Forward(mem', q)]
      /\ o = [l \in Links |-> mem.link[l].object] /\ p = [l \in Links |-> mem'.link[l].object]
  BY DEF ReadAll, ObjectsOf
<1>3. Abstract!LinkSet = Links
  BY SameOperators DEF Abstract!LinkSet, ToSet, Links
<1>4. AllQueues = Queues \cup {freeLinks}
  BY DEF AllQueues
<1> HIDE DEF f, g, o, p
<1>5. ASSUME NEW obj \in Objects, Alloc(obj)
      PROVE  Sound(mem') /\ Abstract!Alloc(obj)
  <2>1. /\ Sound(mem') /\ f[freeLinks] # <<>>
        /\ g = [f EXCEPT ![freeLinks] = Tail(f[freeLinks])]
        /\ p = [o EXCEPT ![Head(f[freeLinks])] = obj]
    BY <1>1, <1>5, AllocDone DEF Alloc, g, o, p
  <2> QED BY <1>2, <2>1 DEF Abstract!Alloc
<1>6. ASSUME NEW q \in Queues, NEW l \in Links, Insert(q, l)
      PROVE  Sound(mem') /\ \E k \in 1 .. Len(f[q]) + 1 : Abstract!Insert(q, k, l)
  <2>1. /\ Sound(mem') /\ p = o /\ OnNoList(f, l)
        /\ \E k \in 1 .. Len(f[q]) + 1 : g = [f EXCEPT ![q] = InsertAt(f[q], k, l)]
    <3>1. q \in AllQueues
      BY <1>4
    <3> QED BY <1>1, <1>6, <3>1, InsertDone DEF Insert, Held, LinksOf, g, o, p
  <2>2. Abstract!Held(l)
    BY <1>2, <1>4, <2>1, SameOperators DEF Abstract!Held, Abstract!OnQueue, OnNoList
  <2> QED BY <1>2, <2>1, <2>2, SameOperators DEF Abstract!Insert
<1>7. ASSUME NEW q \in Queues, NEW l \in Links, Move(q, l)
      PROVE  Sound(mem') /\ ((\E after \in Links : Abstract!MoveAfter(q, after, l)) \/ (g = f /\ p = o))
  <2>1. PICK after \in Links : /\ mem.link[l].queue = q /\ mem.link[after].queue = q
                               /\ mem' = AQueueMoveAfter(mem, q, after, l)
    BY <1>7 DEF Move, LinksOf
  <2>2. /\ Sound(mem') /\ p = o
        /\ \/ mem' = mem
           \/ \E i, k \in 1 .. Len(f[q]) - 1 :
                /\ f[q][i] = l /\ RemoveAt(f[q], i)[k] = after
                /\ g = [f EXCEPT ![q] = InsertAt(RemoveAt(f[q], i), k + 1, l)]
    <3>1. q \in AllQueues
      BY <1>4
    <3> QED BY <1>1, <2>1, <3>1, MoveDone DEF g, o, p
  <2>3. CASE mem' = mem
    BY <2>2, <2>3 DEF f, g
  <2>4. CASE \E i, k \in 1 .. Len(f[q]) - 1 :
                /\ f[q][i] = l /\ RemoveAt(f[q], i)[k] = after
                /\ g = [f EXCEPT ![q] = InsertAt(RemoveAt(f[q], i), k + 1, l)]
    <3>1. Abstract!MoveAfter(q, after, l)
      BY <1>2, <2>2, <2>4, SameOperators, ZenonT(30) DEF Abstract!MoveAfter
    <3> QED BY <2>2, <3>1
  <2> QED BY <2>2, <2>3, <2>4
<1>8. ASSUME NEW l \in Links, RemoveLink(l)
      PROVE  Sound(mem') /\ Abstract!RemoveLink(l)
  <2> DEFINE q == mem.link[l].queue
  <2>1. q \in Queues /\ mem' = AQueueRemove(mem, l)
    BY <1>8 DEF RemoveLink
  <2> HIDE DEF q
  <2>2. /\ Sound(mem') /\ p = o
        /\ \E k \in 1 .. Len(f[q]) :
             /\ f[q][k] = l
             /\ g = [r \in AllQueues |-> IF r = freeLinks THEN Append(f[r], l)
                                         ELSE IF r = q THEN RemoveAt(f[r], k) ELSE f[r]]
    BY <1>1, <2>1, RemoveDone DEF g, o, p, q
  <2>3. PICK k \in 1 .. Len(f[q]) :
             /\ f[q][k] = l
             /\ g = [r \in AllQueues |-> IF r = freeLinks THEN Append(f[r], l)
                                         ELSE IF r = q THEN RemoveAt(f[r], k) ELSE f[r]]
    BY <2>2
  <2>4. q \in AllQueues /\ freeLinks \in AllQueues /\ q # freeLinks
    BY <1>4, <2>1, FreeLinksAssumption
  <2>5. f[q] \in Seq(Links) /\ DOMAIN f = AllQueues /\ f \in [AllQueues -> Seq(Links)]
    BY <1>1, <2>4 DEF Listed, Lists
  <2>6. g = [f EXCEPT ![q] = RemoveAt(f[q], k), ![freeLinks] = Append(f[freeLinks], l)]
    BY <2>3, <2>4, <2>5
  <2>7. k \in DOMAIN f[q] /\ l \in ToSet(f[q])
    BY <2>3, <2>5, ElementInSet
  <2>8. q \in Abstract!OnQueue(l) \ {freeLinks}
    BY <1>2, <1>4, <2>4, <2>7, SameOperators DEF Abstract!OnQueue
  <2>9. Abstract!RemoveLink(l)
    <3>1. ASSUME NEW C, C = [r \in AllQueues |-> Forward(mem, r)]
          PROVE  C[q][k] = l /\ k \in DOMAIN C[q] /\ [r \in AllQueues |-> Forward(mem', r)] =
                   [C EXCEPT ![q] = Abstract!RemoveAt(C[q], k), ![freeLinks] = Append(C[freeLinks], l)]
      BY <1>2, <2>3, <2>6, <2>7, <3>1, SameOperators
    <3>2. UNCHANGED [x \in Links |-> mem.link[x].object]
      BY <1>2, <2>2
    <3> QED BY <2>8, <3>1, <3>2 DEF Abstract!RemoveLink
  <2> QED BY <2>2, <2>9
<1>9. CASE \E obj \in Objects : Alloc(obj)
  BY <1>5, <1>9 DEF Abstract!Next
<1>10. CASE \E q \in Queues, l \in Links : Insert(q, l)
  BY <1>2, <1>3, <1>6, <1>10 DEF Abstract!Next
<1>11. CASE \E q \in Queues, l \in Links : Move(q, l)
  BY <1>2, <1>3, <1>7, <1>11 DEF Abstract!Next, Abstract!vars
<1>12. CASE \E l \in Links : RemoveLink(l)
  BY <1>3, <1>8, <1>12 DEF Abstract!Next
<1> QED BY <1>9, <1>10, <1>11, <1>12 DEF LinksNext

\* The memory is a list for every queue, always: the pointers of every link on
\* a queue, both ways, the ends and the length of each queue, and the queue
\* pointers agree on the same sequences, whatever AQueueInsertAfter,
\* AQueueInsertBefore, AQueueMoveAfter, AQueueRemove and AQueueAllocLink do.
THEOREM ListsStaySound == LinksSpec => []Sound(mem)
<1>1. LinksInit => Sound(mem)
  BY LinkInitial
<1>2. Sound(mem) /\ [LinksNext]_mem => Sound(mem)'
  <2>1. CASE LinksNext
    BY <2>1, LinkStep
  <2>2. CASE UNCHANGED mem
    BY <2>2
  <2> QED BY <2>1, <2>2
<1> QED BY <1>1, <1>2, PTL DEF LinksSpec

\* A queue is read from its end as it is read from its front, and is closed at
\* both ends.
THEOREM EndsAlwaysMeet == LinksSpec => []EndsMeet
<1>1. Sound(mem) => EndsMeet
  <2> SUFFICES ASSUME Sound(mem), NEW q \in AllQueues
               PROVE  /\ Backward(mem, q) = Reverse(Forward(mem, q))
                      /\ mem.queue[q].nitems = 0 => {mem.queue[q].first, mem.queue[q].last} = {NULL}
                      /\ mem.queue[q].nitems > 0 => /\ mem.link[mem.queue[q].first].prev = NULL
                                                    /\ mem.link[mem.queue[q].last].next = NULL
    BY DEF EndsMeet
  <2> DEFINE c == ReadAll(mem)[q]
             n == Len(c)
  <2>1. Chain(mem, q, c)
    BY DEF Sound, Listed, Chains
  <2> HIDE DEF c
  <2>2. Forward(mem, q) = c /\ Backward(mem, q) = Reverse(c)
    BY <2>1, ForwardIsList, BackwardIsList
  <2>3. /\ c \in Seq(Links) /\ IsInjective(c) /\ n \in Nat
        /\ mem.queue[q] = [first |-> At(c, 1), last |-> At(c, n), nitems |-> n]
        /\ \A i \in 1 .. n : mem.link[c[i]].next = At(c, i + 1) /\ mem.link[c[i]].prev = At(c, i - 1)
    BY <2>1 DEF Chain
  <2>4. At(c, 0) = NULL /\ At(c, n + 1) = NULL /\ \A i \in 1 .. n : At(c, i) = c[i]
    BY <2>3, PlacesOf
  <2>5. n = 0 => At(c, 1) = NULL /\ At(c, n) = NULL
    BY <2>4
  <2>6. n > 0 => 1 \in 1 .. n /\ n \in 1 .. n /\ 1 - 1 = 0
    BY <2>3
  <2> QED BY <2>2, <2>3, <2>4, <2>5, <2>6
<1> QED BY <1>1, ListsStaySound, PTL

\* A link is on the queue its queue pointer says, once, and on no other.
THEOREM QueuePointersAreRight == LinksSpec => []LinksKnowTheirQueue
<1>1. Sound(mem) => LinksKnowTheirQueue
  <2> SUFFICES ASSUME Sound(mem), NEW q \in AllQueues
               PROVE  IsInjective(Forward(mem, q)) /\ ToSet(Forward(mem, q)) = LinksOf(q)
    BY DEF LinksKnowTheirQueue
  <2>1. ReadAll(mem)[q] = Forward(mem, q)
    BY DEF ReadAll
  <2>2. Forward(mem, q) \in Seq(Links) /\ IsInjective(Forward(mem, q))
    BY <2>1 DEF Sound, Listed, Chains, Chain
  <2>3. \A l \in Links : mem.link[l].queue = q <=> l \in ToSet(Forward(mem, q))
    BY <2>1 DEF Sound, Listed, Known
  <2>4. ToSet(Forward(mem, q)) \subseteq Links
    BY <2>2 DEF ToSet
  <2> QED BY <2>2, <2>3, <2>4 DEF LinksOf
<1> QED BY <1>1, ListsStaySound, PTL

\* The lists implement the sequences of Queues: every operation on the pointers
\* is the operation on the sequences, or changes nothing.
THEOREM ListsImplementQueues == LinksSpec => ImplementsQueues
<1>1. LinksInit => Abstract!Init
  BY LinkInitial
<1>2. Sound(mem) /\ [LinksNext]_mem => [Abstract!Next]_Abstract!vars
  <2>1. CASE LinksNext
    BY <2>1, LinkStep
  <2>2. CASE UNCHANGED mem
    BY <2>2 DEF Abstract!vars
  <2> QED BY <2>1, <2>2
<1> QED BY <1>1, <1>2, ListsStaySound, PTL DEF LinksSpec, ImplementsQueues, Abstract!Spec

=============================================================================
