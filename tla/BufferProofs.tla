---------------------------- MODULE BufferProofs ----------------------------
(***************************************************************************)
(* The programs that share a buffer, for every number of pairs and every   *)
(* size of buffer and items: q3 loses no slot, the first process is the    *)
(* last to end, and the memory they share is a bounded queue.              *)
(***************************************************************************)
EXTENDS MCBuffers, QueueLemmas, FiniteSetTheorems

\* The places of a process in the critical section; with a slot of each kind, or
\* asleep for the first; and in its loop, before it has used the buffer.
InSection   == {"test", "load", "insert", "remove", "release"}
BeforeUse   == {"acquire", "load", "insert", "remove"}
AfterUse    == {"release", "signal"}
InTurn      == {"wait", "test"} \cup BeforeUse
WorkerSteps == {"complete", "ended"} \cup InTurn \cup AfterUse
MainSteps   == {"create", "wait", "ended"}

SlotSems == {"emptyslots", "fullslots"}
SemNames == {"completed"} \cup (IF program = "q3" THEN SlotSems ELSE {})

Typed ==
  /\ program \in {"q2", "q3", "example"}
  /\ pc \in [Procs -> WorkerSteps \cup MainSteps]
  /\ created \in 0 .. NumProcs
  /\ DOMAIN conds = {}
  /\ sems = [s \in SemNames |-> sems[s]]

\* The processes in the critical section have the lock or wait for it, and one
\* that is about to use an index has it.
Excluded ==
  /\ LockSound(lock, Workers)
  /\ \A p \in Workers : pc[p] \in InSection <=> p \in Inside(lock)
  /\ \A p \in Workers : pc[p] \in {"insert", "remove"} => lock.pid = p

\* The count of "completed" is one more than the processes still to end, below
\* zero; the first process waits, or has seen the last one end.
Done == {p \in Workers : pc[p] = "ended"}
Awaited ==
  LET sem == sems["completed"]
  IN  /\ sem \in [count : Int, waiting : {<<>>, <<Main>>}]
      /\ pc[Main] \in MainSteps /\ (pc[Main] # "create" => created = NumProcs)
      /\ sem.waiting = <<Main>> => pc[Main] = "ended" /\ sem.count =< 0
      /\ IF pc[Main] = "ended" /\ sem.waiting = <<>>
         THEN sem.count = 0 /\ Cardinality(Done) = NumProcs
         ELSE sem.count = 1 - NumProcs + Cardinality(Done)

\* A process takes a slot from one semaphore and gives one to the other: after
\* it has taken it, it has a slot of the first kind until it uses the buffer, and
\* then one of the other.  Together with the count these are the slots there are.
Takes(p)     == IF p \in Producers THEN "emptyslots" ELSE "fullslots"
Gives(p)     == IF p \in Producers THEN "fullslots" ELSE "emptyslots"
Awaiting(s)  == ToSet(sems[s].waiting)
HasSlot(p, s) == \/ pc[p] \in BeforeUse /\ Takes(p) = s /\ p \notin Awaiting(s)
                 \/ pc[p] \in AfterUse /\ Gives(p) = s
Holders(s)   == {p \in Workers : HasSlot(p, s)}
Slots(s)     == IF s = "fullslots" THEN buf.head - buf.tail
                                   ELSE BUFFER_SIZE - (buf.head - buf.tail)
SlotsOf(s) ==
  /\ sems[s] \in [count : Nat, waiting : Seq(Workers)]
  /\ IsInjective(sems[s].waiting)
  /\ \A p \in Awaiting(s) : Takes(p) = s /\ pc[p] = "acquire"
  /\ sems[s].count + Cardinality(Holders(s)) = Slots(s)

\* What a process has loaded is still the index when it uses it; there is room
\* for all items, and one to remove.
Put == {x \in Producers \X (0 .. ITEM_SIZE - 1) : x[2] < curr_idx[x[1]]}
Indexed ==
  /\ buf = [head |-> buf.head, tail |-> buf.tail,
            char_buf |-> [k \in Indices |-> buf.char_buf[k]]]
  /\ buf.head \in Nat /\ buf.tail \in 0 .. buf.head
  /\ buf.head = Cardinality(Put)
  /\ curr_idx \in [Workers -> 0 .. ITEM_SIZE] /\ at \in [Workers -> Nat]
  /\ \A p \in Workers : pc[p] \in InTurn => curr_idx[p] < ITEM_SIZE
  /\ \A p \in Workers : pc[p] = "insert" => p \in Producers /\ at[p] = buf.head
  /\ \A p \in Workers : pc[p] = "remove" => p \in Consumers /\ at[p] = buf.tail
  /\ program # "q3" => \A p \in Workers : pc[p] = "remove" => buf.tail < buf.head

\* The processes of the example do not use the buffer.
OnlyEnd == program = "example" => \A p \in Workers : pc[p] \in {"complete", "ended"}

BuffersInv ==
  /\ Typed /\ Excluded /\ Awaited /\ Indexed /\ OnlyEnd
  /\ program = "q3" => \A s \in SlotSems : SlotsOf(s)

\* In q2 one slot is left empty.  The indices are not reduced: the test for a full
\* buffer, (head + 1) % BUFFER_SIZE == tail, finds it full while tail is less than
\* its size, and after that there must be fewer items to come than it has places.
FewItems == program = "q2" => Total < 2 * BUFFER_SIZE
OneSlotEmpty ==
  program = "q2" =>
    /\ buf.head - buf.tail < BUFFER_SIZE
    /\ \A p \in Workers : pc[p] = "insert" => buf.head - buf.tail < BUFFER_SIZE - 1

-----------------------------------------------------------------------------
\* The steps of the three programs, by what they do.

MainTurn == MainStep /\ UNCHANGED bufVars

Ends(p) == SignalCompletion(p, "complete") /\ UNCHANGED bufVars

TakesSlot(p) ==
  /\ program = "q3" /\ At(p, "wait")
  /\ Wait(p, Takes(p)) /\ Goto(p, "acquire")
  /\ UNCHANGED <<lock, conds, created, bufVars>>

AsksForLock(p) ==
  /\ At(p, "acquire")
  /\ Acquire(p) /\ Goto(p, IF program = "q2" THEN "test" ELSE "load")
  /\ UNCHANGED <<sems, conds, created, bufVars>>

LoadsIndex(p) ==
  /\ \/ /\ program = "q2" /\ At(p, "test")
        /\ IF p \in Producers THEN ~Full ELSE ~Empty
     \/ program = "q3" /\ At(p, "load")
  /\ \/ p \in Producers /\ LoadHead(p) /\ Goto(p, "insert")
     \/ p \in Consumers /\ LoadTail(p) /\ Goto(p, "remove")
  /\ UNCHANGED <<lock, sems, conds, created>>

GivesUp(p) ==
  /\ program = "q2" /\ At(p, "test") /\ Goto(p, "release")
  /\ UNCHANGED <<lock, sems, conds, created, bufVars>>

UsesIndex(p) ==
  /\ \/ At(p, "insert") /\ InsertItem(p)
     \/ At(p, "remove") /\ RemoveItem(p)
  /\ Goto(p, "release")
  /\ UNCHANGED <<lock, sems, conds, created>>

FreesLock(p) ==
  /\ At(p, "release") /\ Release(p)
  /\ IF program = "q2" THEN Again(p, "acquire") ELSE Goto(p, "signal")
  /\ UNCHANGED <<sems, conds, created, bufVars>>

GivesSlot(p) ==
  /\ program = "q3" /\ At(p, "signal")
  /\ Signal(Gives(p)) /\ Again(p, "wait")
  /\ UNCHANGED <<lock, conds, created, bufVars>>

Turn(p) ==
  \/ Ends(p) \/ TakesSlot(p) \/ AsksForLock(p) \/ LoadsIndex(p) \/ GivesUp(p)
  \/ UsesIndex(p) \/ FreesLock(p) \/ GivesSlot(p)

LEMMA PollingSteps ==
  ASSUME program = "q2"
  PROVE  /\ Q2!First => MainTurn
         /\ \A p \in Workers : Q2!Worker(p) => Turn(p)
<1>1. \A p : Q2!Asleep(p) <=> Asleep(p)
  BY DEF Q2!Asleep, Asleep, Q2!Contains, Contains
<1>2. \A p, w : /\ Q2!At(p, w) <=> At(p, w)
                /\ Q2!Goto(p, w) <=> Goto(p, w)
  BY <1>1 DEF Q2!At, At, Q2!Goto, Goto
<1>3. /\ Q2!Producers = Producers /\ Q2!Consumers = Consumers /\ Q2!Workers = Workers
      /\ Q2!bufVars = bufVars /\ Q2!Main = Main
  BY DEF Q2!Producers, Producers, Q2!Consumers, Consumers, Q2!Workers, Workers,
         Q2!bufVars, bufVars, Q2!Main, Main
<1>4. \A p : /\ Q2!Acquire(p) <=> Acquire(p)
             /\ Q2!Release(p) <=> Release(p)
  BY DEF Q2!Acquire, Acquire, Q2!LockAcquire, LockAcquire, Q2!LockBlocks, LockBlocks,
         Q2!Release, Release, Q2!LockRelease, LockRelease, Q2!NoOwner, NoOwner, Q2!Rest, Rest
<1>5. \A s : /\ Q2!Signal(s) <=> Signal(s)
             /\ \A p : Q2!Wait(p, s) <=> Wait(p, s)
  BY DEF Q2!Signal, Signal, Q2!SemSignal, SemSignal, Q2!SemWakes, SemWakes,
         Q2!Wait, Wait, Q2!SemWait, SemWait, Q2!SemBlocks, SemBlocks
<1>6. /\ Q2!Full <=> Full
      /\ Q2!Empty <=> Empty
      /\ \A p, w : Q2!Again(p, w) <=> Again(p, w)
  BY <1>2 DEF Q2!Full, Full, Q2!Empty, Empty, Q2!Again, Again
<1>7. \A p : /\ Q2!LoadHead(p) <=> LoadHead(p)
             /\ Q2!LoadTail(p) <=> LoadTail(p)
             /\ Q2!InsertItem(p) <=> InsertItem(p)
             /\ Q2!RemoveItem(p) <=> RemoveItem(p)
  BY DEF Q2!LoadHead, LoadHead, Q2!LoadTail, LoadTail, Q2!InsertItem, InsertItem,
         Q2!Item, Item, Q2!RemoveItem, RemoveItem
<1>8. Q2!First => MainTurn
  BY <1>2, <1>3, <1>5 DEF Q2!bufVars, bufVars, Q2!First, MainTurn, Q2!MainStep, MainStep, Q2!CreateNext,
                          CreateNext, Q2!FinalWait, FinalWait
<1>9. ASSUME NEW p \in Workers, Q2!Worker(p) PROVE Turn(p)
  <2>1. Q2!AcquireBuffer(p) => AsksForLock(p)
    BY <1>2, <1>3, <1>4 DEF Q2!bufVars, bufVars, Q2!AcquireBuffer, AsksForLock
  <2>2. Q2!Test(p) => LoadsIndex(p) \/ GivesUp(p)
    <3>1. p \in Consumers => p \notin Producers
      BY DEF Consumers, Producers
    <3> QED BY <1>2, <1>3, <1>6, <1>7, <3>1 DEF Q2!bufVars, bufVars, Q2!Test, LoadsIndex, GivesUp
  <2>3. Q2!UseIndex(p) => UsesIndex(p)
    BY <1>2, <1>7 DEF Q2!UseIndex, UsesIndex
  <2>4. Q2!ReleaseBuffer(p) => FreesLock(p)
    BY <1>2, <1>3, <1>4, <1>6 DEF Q2!bufVars, bufVars, Q2!ReleaseBuffer, FreesLock
  <2>5. Q2!SignalCompletion(p, "complete") /\ UNCHANGED Q2!bufVars => Ends(p)
    BY <1>2, <1>3, <1>5 DEF Q2!bufVars, bufVars, Q2!SignalCompletion, SignalCompletion, Ends
  <2> QED BY <1>9, <2>1, <2>2, <2>3, <2>4, <2>5 DEF Q2!Worker, Turn
<1> QED BY <1>8, <1>9

LEMMA SemaphoreSteps ==
  ASSUME program = "q3"
  PROVE  Q3!Next => MainTurn \/ \E p \in Workers : Turn(p)
<1>1. \A p : Q3!Asleep(p) <=> Asleep(p)
  BY DEF Q3!Asleep, Asleep, Q3!Contains, Contains
<1>2. \A p, w : /\ Q3!At(p, w) <=> At(p, w)
                /\ Q3!Goto(p, w) <=> Goto(p, w)
  BY <1>1 DEF Q3!At, At, Q3!Goto, Goto
<1>3. /\ Q3!Producers = Producers /\ Q3!Consumers = Consumers /\ Q3!Workers = Workers
      /\ Q3!bufVars = bufVars /\ Q3!Main = Main
  BY DEF Q3!Producers, Producers, Q3!Consumers, Consumers, Q3!Workers, Workers,
         Q3!bufVars, bufVars, Q3!Main, Main
<1>4. \A p : /\ Q3!Acquire(p) <=> Acquire(p)
             /\ Q3!Release(p) <=> Release(p)
  BY DEF Q3!Acquire, Acquire, Q3!LockAcquire, LockAcquire, Q3!LockBlocks, LockBlocks,
         Q3!Release, Release, Q3!LockRelease, LockRelease, Q3!NoOwner, NoOwner, Q3!Rest, Rest
<1>5. \A s : /\ Q3!Signal(s) <=> Signal(s)
             /\ \A p : Q3!Wait(p, s) <=> Wait(p, s)
  BY DEF Q3!Signal, Signal, Q3!SemSignal, SemSignal, Q3!SemWakes, SemWakes,
         Q3!Wait, Wait, Q3!SemWait, SemWait, Q3!SemBlocks, SemBlocks
<1>6. \A p, w : Q3!Again(p, w) <=> Again(p, w)
  BY <1>2 DEF Q3!Again, Again
<1>7. \A p : /\ Q3!LoadHead(p) <=> LoadHead(p)
             /\ Q3!LoadTail(p) <=> LoadTail(p)
             /\ Q3!InsertItem(p) <=> InsertItem(p)
             /\ Q3!RemoveItem(p) <=> RemoveItem(p)
  BY DEF Q3!LoadHead, LoadHead, Q3!LoadTail, LoadTail, Q3!InsertItem, InsertItem,
         Q3!Item, Item, Q3!RemoveItem, RemoveItem
<1>8. Q3!First => MainTurn
  BY <1>2, <1>3, <1>5 DEF Q3!bufVars, bufVars, Q3!First, MainTurn, Q3!MainStep, MainStep, Q3!CreateNext,
                          CreateNext, Q3!FinalWait, FinalWait
<1>9. ASSUME NEW p \in Workers, Q3!Worker(p) PROVE Turn(p)
  <2>1. Q3!AcquireBuffer(p) => AsksForLock(p)
    BY <1>2, <1>3, <1>4 DEF Q3!bufVars, bufVars, Q3!AcquireBuffer, AsksForLock
  <2>2. /\ p \in Producers /\ Q3!WaitForEmptySlot(p) => TakesSlot(p)
        /\ p \in Consumers /\ Q3!WaitForFullSlot(p) => TakesSlot(p)
    <3>1. p \in Consumers => p \notin Producers
      BY DEF Consumers, Producers
    <3> QED BY <1>2, <1>3, <1>5, <3>1
            DEF Q3!bufVars, bufVars, Q3!WaitForEmptySlot, Q3!WaitForFullSlot, TakesSlot, Takes
  <2>3. Q3!LoadIndex(p) => LoadsIndex(p)
    BY <1>2, <1>3, <1>7 DEF Q3!LoadIndex, LoadsIndex
  <2>4. Q3!UseIndex(p) => UsesIndex(p)
    BY <1>2, <1>7 DEF Q3!UseIndex, UsesIndex
  <2>5. Q3!ReleaseBuffer(p) => FreesLock(p)
    BY <1>2, <1>3, <1>4 DEF Q3!bufVars, bufVars, Q3!ReleaseBuffer, FreesLock
  <2>6. Q3!SignalSlot(p) => GivesSlot(p)
    BY <1>2, <1>3, <1>5, <1>6 DEF Q3!bufVars, bufVars, Q3!SignalSlot, GivesSlot, Gives
  <2>7. Q3!SignalCompletion(p, "complete") /\ UNCHANGED Q3!bufVars => Ends(p)
    BY <1>2, <1>3, <1>5 DEF Q3!bufVars, bufVars, Q3!SignalCompletion, SignalCompletion, Ends
  <2> QED BY <1>3, <1>9, <2>1, <2>2, <2>3, <2>4, <2>5, <2>6, <2>7 DEF Q3!Worker, Turn
<1> QED BY <1>3, <1>8, <1>9 DEF Q3!Next

LEMMA ExampleSteps ==
  Example!Next /\ UNCHANGED bufVars => MainTurn \/ \E p \in Workers : Turn(p)
<1>1. \A p : Example!Asleep(p) <=> Asleep(p)
  BY DEF Example!Asleep, Asleep, Example!Contains, Contains
<1>2. \A p, w : /\ Example!At(p, w) <=> At(p, w)
                /\ Example!Goto(p, w) <=> Goto(p, w)
  BY <1>1 DEF Example!At, At, Example!Goto, Goto
<1>3. Example!Workers = Workers /\ Example!Main = Main
  BY DEF Example!Workers, Workers, Example!Main, Main
<1>4. \A s : /\ Example!Signal(s) <=> Signal(s)
             /\ \A p : Example!Wait(p, s) <=> Wait(p, s)
  BY DEF Example!Signal, Signal, Example!SemSignal, SemSignal, Example!SemWakes, SemWakes,
         Example!Wait, Wait, Example!SemWait, SemWait, Example!SemBlocks, SemBlocks
<1>5. Example!MainStep /\ UNCHANGED bufVars => MainTurn
  BY <1>2, <1>3, <1>4 DEF MainTurn, Example!MainStep, MainStep, Example!CreateNext,
                          CreateNext, Example!FinalWait, FinalWait
<1>6. \A p : Example!Worker(p) /\ UNCHANGED bufVars => Ends(p)
  BY <1>2, <1>3, <1>4 DEF Example!Worker, Example!SignalCompletion, SignalCompletion, Ends
<1> QED BY <1>3, <1>5, <1>6 DEF Example!Next, Turn

LEMMA StepsAre ==
  ASSUME MCNext
  PROVE  UNCHANGED program /\ (MainTurn \/ \E p \in Workers : Turn(p))
BY PollingSteps, SemaphoreSteps, ExampleSteps
   DEF MCNext, PollingMain, PollingStep, SemaphoresStep, ExampleStep, Running

-----------------------------------------------------------------------------
\* Every step keeps the invariant, one conjunct after the other.

LEMMA Names ==
  /\ Main \notin Workers /\ Main \in Procs /\ Workers \subseteq Procs
  /\ Workers \in SUBSET Nat /\ NumProcs \in Nat \ {0} /\ NoOwner \notin Workers
BY NumProcsAssumption DEF Main, Workers, Procs, NoOwner

LEMMA Moved ==
  ASSUME Typed, NEW p \in Procs, NEW w \in WorkerSteps \cup MainSteps, Goto(p, w)
  PROVE  /\ pc' \in [Procs -> WorkerSteps \cup MainSteps]
         /\ pc'[p] = w /\ \A q \in Procs \ {p} : pc'[q] = pc[q]
BY DEF Goto, Typed

\* Where p stands, and that it is in no queue there.
LEMMA AtMeans ==
  ASSUME Typed, Excluded, NEW p \in Workers, NEW w, At(p, w)
  PROVE  /\ pc[p] = w /\ p =< created /\ p \notin ToSet(lock.waiting)
         /\ \A s \in SemNames : p \notin ToSet(sems[s].waiting)
         /\ w \in InSection => lock.pid = p
<1>1. /\ pc[p] = w /\ p =< created /\ ~Contains(lock.waiting, p)
      /\ \A s \in DOMAIN sems : ~Contains(sems[s].waiting, p)
  BY DEF At, Asleep
<1>2. DOMAIN sems = SemNames
  BY DEF Typed
<1>3. p \notin ToSet(lock.waiting) /\ \A s \in SemNames : p \notin ToSet(sems[s].waiting)
  BY <1>1, <1>2 DEF Contains, ToSet
<1>4. w \in InSection => lock.pid = p
  BY <1>1, <1>3 DEF Excluded, Inside
<1> QED BY <1>1, <1>3, <1>4

\* Where p goes, and what happens to the semaphores.
LEMMA TurnMoves ==
  ASSUME BuffersInv, NEW p \in Workers, Turn(p)
  PROVE  /\ \E w \in WorkerSteps : Goto(p, w)
         /\ UNCHANGED <<conds, created>> /\ DOMAIN sems' = DOMAIN sems
         /\ sems' = [s \in DOMAIN sems |-> sems'[s]]
<1>1. sems = [s \in DOMAIN sems |-> sems[s]]
  BY DEF BuffersInv, Typed
<1>2. CASE Ends(p)
  <2>1. /\ Goto(p, "ended") /\ UNCHANGED <<conds, created>>
        /\ sems' = [sems EXCEPT !["completed"] = SemSignal(sems["completed"])]
    BY <1>2 DEF Ends, SignalCompletion, Signal
  <2> QED BY <1>1, <2>1 DEF WorkerSteps
<1>3. CASE TakesSlot(p)
  <2>1. /\ Goto(p, "acquire") /\ UNCHANGED <<conds, created>>
        /\ sems' = [sems EXCEPT ![Takes(p)] = SemWait(sems[Takes(p)], p)]
    BY <1>3 DEF TakesSlot, Wait
  <2> QED BY <1>1, <2>1 DEF WorkerSteps, BeforeUse, InTurn
<1>4. CASE AsksForLock(p)
  <2>1. Goto(p, IF program = "q2" THEN "test" ELSE "load") /\ UNCHANGED <<conds, created, sems>>
    BY <1>4 DEF AsksForLock
  <2> QED BY <1>1, <2>1 DEF WorkerSteps, BeforeUse, InTurn
<1>5. CASE LoadsIndex(p)
  <2>1. (Goto(p, "insert") \/ Goto(p, "remove")) /\ UNCHANGED <<conds, created, sems>>
    BY <1>5 DEF LoadsIndex
  <2> QED BY <1>1, <2>1 DEF WorkerSteps, BeforeUse, InTurn
<1>6. CASE GivesUp(p) \/ UsesIndex(p)
  <2>1. Goto(p, "release") /\ UNCHANGED <<conds, created, sems>>
    BY <1>6 DEF GivesUp, UsesIndex
  <2> QED BY <1>1, <2>1 DEF WorkerSteps, AfterUse
<1>7. CASE FreesLock(p)
  <2>1. /\ Goto(p, "signal") \/ Goto(p, "acquire") \/ Goto(p, "complete")
        /\ UNCHANGED <<conds, created, sems>>
    BY <1>7 DEF FreesLock, Again
  <2> QED BY <1>1, <2>1 DEF WorkerSteps, BeforeUse, InTurn, AfterUse
<1>8. CASE GivesSlot(p)
  <2>1. /\ Goto(p, "wait") \/ Goto(p, "complete")
        /\ UNCHANGED <<conds, created>>
        /\ sems' = [sems EXCEPT ![Gives(p)] = SemSignal(sems[Gives(p)])]
    BY <1>8 DEF GivesSlot, Signal, Again
  <2> QED BY <1>1, <2>1 DEF WorkerSteps, BeforeUse, InTurn
<1> QED BY <1>2, <1>3, <1>4, <1>5, <1>6, <1>7, <1>8 DEF Turn

\* What the first process does to its semaphore.
LEMMA MainMoves ==
  ASSUME BuffersInv, MainTurn
  PROVE  /\ UNCHANGED <<lock, conds, bufVars>> /\ DOMAIN sems' = DOMAIN sems
         /\ sems' = [s \in DOMAIN sems |-> sems'[s]]
         /\ \A s \in DOMAIN sems \ {"completed"} : sems'[s] = sems[s]
         /\ \/ /\ pc[Main] = "create" /\ created' = created + 1 /\ created < NumProcs
               /\ Goto(Main, IF created + 1 = NumProcs THEN "wait" ELSE "create")
               /\ sems' = sems
            \/ /\ pc[Main] = "wait" /\ created' = created /\ Goto(Main, "ended")
               /\ sems'["completed"] = SemWait(sems["completed"], Main)
<1>1. sems = [s \in DOMAIN sems |-> sems[s]] /\ "completed" \in DOMAIN sems
  BY DEF BuffersInv, Typed, SemNames
<1>2. CASE CreateNext
  BY <1>1, <1>2 DEF MainTurn, CreateNext, At
<1>3. CASE FinalWait
  <2>1. /\ pc[Main] = "wait" /\ Goto(Main, "ended") /\ UNCHANGED <<lock, conds, created, bufVars>>
        /\ sems' = [sems EXCEPT !["completed"] = SemWait(sems["completed"], Main)]
    BY <1>3 DEF MainTurn, FinalWait, At, Wait
  <2> QED BY <1>1, <2>1
<1> QED BY <1>2, <1>3 DEF MainTurn, MainStep

LEMMA TypedInv ==
  ASSUME BuffersInv, UNCHANGED program, MainTurn \/ \E p \in Workers : Turn(p)
  PROVE  Typed'
<1>1. Typed
  BY DEF BuffersInv
<1>2. CASE MainTurn
  <2>1. /\ UNCHANGED <<conds>> /\ DOMAIN sems' = DOMAIN sems
        /\ sems' = [s \in DOMAIN sems |-> sems'[s]]
        /\ created' \in 0 .. NumProcs
        /\ \E w \in MainSteps : Goto(Main, w)
    BY <1>1, <1>2, MainMoves, NumProcsAssumption DEF Typed, MainSteps
  <2>2. pc' \in [Procs -> WorkerSteps \cup MainSteps]
    BY <1>1, <2>1, Moved, Names
  <2> QED BY <1>1, <2>1, <2>2 DEF Typed, SemNames
<1>3. ASSUME NEW p \in Workers, Turn(p) PROVE Typed'
  <2>1. /\ \E w \in WorkerSteps : Goto(p, w)
        /\ UNCHANGED <<conds, created>> /\ DOMAIN sems' = DOMAIN sems
        /\ sems' = [s \in DOMAIN sems |-> sems'[s]]
    BY <1>3, TurnMoves
  <2>2. pc' \in [Procs -> WorkerSteps \cup MainSteps]
    BY <1>1, <2>1, Moved, Names
  <2> QED BY <1>1, <2>1, <2>2 DEF Typed, SemNames
<1> QED BY <1>2, <1>3

\* The lock, when a process does not leave or enter the section.
LEMMA SectionKept ==
  ASSUME Typed, Excluded, NEW p \in Workers, UNCHANGED lock, NEW w \in WorkerSteps, Goto(p, w),
         pc[p] \in InSection <=> w \in InSection, w \in {"insert", "remove"} => lock.pid = p
  PROVE  Excluded'
<1>1. pc'[p] = w /\ \A q \in Workers \ {p} : pc'[q] = pc[q]
  BY Moved, Names
<1> QED BY <1>1 DEF Excluded

LEMMA ExcludedInv ==
  ASSUME BuffersInv, UNCHANGED program, MainTurn \/ \E p \in Workers : Turn(p)
  PROVE  Excluded'
<1>1. Typed /\ Excluded
  BY DEF BuffersInv
<1>2. CASE MainTurn
  <2>1. UNCHANGED lock /\ \E w \in MainSteps : Goto(Main, w)
    BY <1>2, MainMoves DEF MainSteps
  <2>2. \A q \in Workers : pc'[q] = pc[q]
    BY <1>1, <2>1, Moved, Names
  <2> QED BY <1>1, <2>1, <2>2 DEF Excluded
<1>3. ASSUME NEW p \in Workers, Turn(p) PROVE Excluded'
  <2>1. CASE Ends(p) \/ TakesSlot(p) \/ GivesSlot(p)
    <3>1. PICK w \in {"ended", "acquire", "wait", "complete"} : Goto(p, w)
      BY <2>1 DEF Ends, SignalCompletion, TakesSlot, GivesSlot, Again
    <3>2. pc[p] \in {"complete", "wait", "signal"} /\ UNCHANGED lock
      BY <2>1 DEF Ends, SignalCompletion, TakesSlot, GivesSlot, At
    <3>3. w \in WorkerSteps /\ w \notin InSection /\ pc[p] \notin InSection
      BY <3>2 DEF WorkerSteps, InTurn, BeforeUse, InSection
    <3> QED BY <1>1, <3>1, <3>2, <3>3, SectionKept DEF InSection
  <2>2. CASE LoadsIndex(p) \/ GivesUp(p) \/ UsesIndex(p)
    <3>1. PICK w \in {"insert", "remove", "release"} : Goto(p, w)
      BY <2>2 DEF LoadsIndex, GivesUp, UsesIndex
    <3>2. PICK v \in {"test", "load", "insert", "remove"} : At(p, v)
      BY <2>2 DEF LoadsIndex, GivesUp, UsesIndex
    <3>3. UNCHANGED lock
      BY <2>2 DEF LoadsIndex, GivesUp, UsesIndex
    <3>4. w \in WorkerSteps /\ w \in InSection /\ v \in InSection
      BY DEF WorkerSteps, InTurn, BeforeUse, AfterUse, InSection
    <3>5. pc[p] = v /\ lock.pid = p
      BY <1>1, <3>2, <3>4, AtMeans
    <3> QED BY <1>1, <3>1, <3>3, <3>4, <3>5, SectionKept
  <2>3. CASE AsksForLock(p)
    <3>1. PICK w \in {"test", "load"} : Goto(p, w)
      BY <2>3 DEF AsksForLock
    <3>2. pc[p] = "acquire" /\ lock' = LockAcquire(lock, p)
      BY <2>3 DEF AsksForLock, At, Acquire
    <3>3. LockSound(lock, Workers) /\ p \in Workers \ Inside(lock) /\ Workers \in SUBSET Nat
      BY <1>1, <3>2, Names DEF Excluded, InSection
    <3>4. /\ LockSound(lock', Workers) /\ Inside(lock') = Inside(lock) \cup {p}
          /\ lock.pid \in Workers => lock'.pid = lock.pid
      BY <3>2, <3>3, LockAsked
    <3>5. pc'[p] = w /\ \A q \in Workers \ {p} : pc'[q] = pc[q]
      BY <1>1, <3>1, Moved, Names DEF WorkerSteps, InTurn, BeforeUse
    <3> QED BY <1>1, <3>2, <3>4, <3>5 DEF Excluded, InSection
  <2>4. CASE FreesLock(p)
    <3>1. PICK w \in {"acquire", "complete", "signal"} : Goto(p, w)
      BY <2>4 DEF FreesLock, Again
    <3>2. At(p, "release") /\ lock' = LockRelease(lock) /\ "release" \in InSection
      BY <2>4 DEF FreesLock, Release, InSection
    <3>3. pc[p] = "release" /\ lock.pid = p
      BY <1>1, <3>2, AtMeans
    <3>4. LockSound(lock, Workers) /\ Workers \in SUBSET Nat
      BY <1>1, Names DEF Excluded
    <3>5. LockSound(lock', Workers) /\ Inside(lock') = Inside(lock) \ {p}
      BY <3>2, <3>3, <3>4, LockLeft
    <3>6. pc'[p] = w /\ \A q \in Workers \ {p} : pc'[q] = pc[q]
      BY <1>1, <3>1, Moved, Names DEF WorkerSteps, InTurn, BeforeUse, AfterUse
    <3>7. w \notin InSection
      BY DEF InSection
    <3>8. \A q \in Workers : pc'[q] \in {"insert", "remove"} => lock'.pid = q
      BY <1>1, <3>3, <3>6 DEF Excluded
    <3> QED BY <1>1, <3>5, <3>6, <3>7, <3>8 DEF Excluded
  <2> QED BY <1>3, <2>1, <2>2, <2>3, <2>4 DEF Turn
<1> QED BY <1>2, <1>3

-----------------------------------------------------------------------------
\* Counting processes, and items.

LEMMA WorkersCounted ==
  ASSUME NEW S \in SUBSET Workers
  PROVE  /\ IsFiniteSet(S) /\ Cardinality(S) \in 0 .. NumProcs
         /\ \A p \in Workers \ S : Cardinality(S \cup {p}) = Cardinality(S) + 1
         /\ \A p \in S : Cardinality(S \ {p}) = Cardinality(S) - 1 /\ Cardinality(S) > 0
<1>1. IsFiniteSet(Workers) /\ Cardinality(Workers) = NumProcs
  BY FS_Interval, NumProcsAssumption DEF Workers
<1>2. IsFiniteSet(S) /\ Cardinality(S) =< Cardinality(Workers)
  BY <1>1, FS_Subset
<1>3. Cardinality(S) \in Nat
  BY <1>2, FS_CardinalityType
<1>4. \A p \in Workers \ S : Cardinality(S \cup {p}) = Cardinality(S) + 1
  BY <1>2, FS_AddElement
<1>5. ASSUME NEW p \in S PROVE Cardinality(S \ {p}) = Cardinality(S) - 1 /\ Cardinality(S) > 0
  <2>1. Cardinality(S \ {p}) = Cardinality(S) - 1 /\ IsFiniteSet(S \ {p})
    BY <1>2, FS_RemoveElement
  <2>2. Cardinality(S \ {p}) \in Nat
    BY <2>1, FS_CardinalityType
  <2> QED BY <1>3, <2>1, <2>2
<1> QED BY <1>1, <1>2, <1>3, <1>4, <1>5, NumProcsAssumption

\* The items there are, and that there is a place for one that is not put in yet.
LEMMA ItemsCounted ==
  ASSUME curr_idx \in [Workers -> 0 .. ITEM_SIZE]
  PROVE  /\ IsFiniteSet(Put) /\ Cardinality(Put) \in 0 .. Total /\ Total \in Nat
         /\ \A p \in Producers : curr_idx[p] < ITEM_SIZE =>
              /\ <<p, curr_idx[p]>> \notin Put
              /\ Cardinality(Put \cup {<<p, curr_idx[p]>>}) = Cardinality(Put) + 1
              /\ Cardinality(Put) < Total
<1> DEFINE Places == Producers \X (0 .. ITEM_SIZE - 1)
<1>1. Producers \in SUBSET Workers /\ ITEM_SIZE \in Nat \ {0}
  BY SizesAssumption DEF Producers
<1>2. IsFiniteSet(Producers) /\ Cardinality(Producers) \in Nat
  BY <1>1, WorkersCounted
<1>3. IsFiniteSet(0 .. ITEM_SIZE - 1) /\ Cardinality(0 .. ITEM_SIZE - 1) = ITEM_SIZE
  BY <1>1, FS_Interval
<1>4. IsFiniteSet(Places) /\ Cardinality(Places) = Total
  BY <1>2, <1>3, FS_Product DEF Total
<1>5. Put \subseteq Places
  BY DEF Put
<1>6. IsFiniteSet(Put) /\ Cardinality(Put) \in 0 .. Total /\ Total \in Nat
  <2>1. IsFiniteSet(Put) /\ Cardinality(Put) =< Total
    BY <1>4, <1>5, FS_Subset
  <2>2. Cardinality(Put) \in Nat /\ Total \in Nat
    BY <1>4, <2>1, FS_CardinalityType
  <2> QED BY <2>1, <2>2
<1>7. ASSUME NEW p \in Producers, curr_idx[p] < ITEM_SIZE
      PROVE  /\ <<p, curr_idx[p]>> \notin Put
             /\ Cardinality(Put \cup {<<p, curr_idx[p]>>}) = Cardinality(Put) + 1
             /\ Cardinality(Put) < Total
  <2>1. curr_idx[p] \in 0 .. ITEM_SIZE - 1
    BY <1>1, <1>7
  <2>2. <<p, curr_idx[p]>> \notin Put /\ <<p, curr_idx[p]>> \in Places
    BY <2>1 DEF Put
  <2>3. Cardinality(Put \cup {<<p, curr_idx[p]>>}) = Cardinality(Put) + 1
    BY <1>6, <2>2, FS_AddElement
  <2>4. Put \cup {<<p, curr_idx[p]>>} \subseteq Places
    BY <1>5, <2>2
  <2>5. Cardinality(Put \cup {<<p, curr_idx[p]>>}) =< Total
    BY <1>4, <2>4, FS_Subset
  <2> QED BY <1>6, <2>2, <2>3, <2>5
<1> QED BY <1>6, <1>7

-----------------------------------------------------------------------------
\* The semaphore "completed".

LEMMA AwaitedInv ==
  ASSUME BuffersInv, UNCHANGED program, MainTurn \/ \E p \in Workers : Turn(p)
  PROVE  Awaited'
<1> DEFINE sem == sems["completed"]
<1>1. Typed /\ Excluded /\ NumProcs \in Nat \ {0}
  BY NumProcsAssumption DEF BuffersInv
<1>2. /\ sem \in [count : Int, waiting : {<<>>, <<Main>>}]
      /\ pc[Main] \in MainSteps /\ (pc[Main] # "create" => created = NumProcs)
      /\ sem.waiting = <<Main>> => pc[Main] = "ended" /\ sem.count =< 0
      /\ IF pc[Main] = "ended" /\ sem.waiting = <<>>
         THEN sem.count = 0 /\ Cardinality(Done) = NumProcs
         ELSE sem.count = 1 - NumProcs + Cardinality(Done)
      /\ <<>> # <<Main>>
  BY DEF BuffersInv, Awaited
<1>3. /\ Done \in SUBSET Workers /\ Cardinality(Done) \in 0 .. NumProcs
      /\ \A p \in Workers \ Done : Cardinality(Done \cup {p}) = Cardinality(Done) + 1
  BY WorkersCounted DEF Done
<1> HIDE DEF sem
<1>4. CASE MainTurn
  <2>1. \/ /\ pc[Main] = "create" /\ created' = created + 1 /\ created < NumProcs
           /\ Goto(Main, IF created + 1 = NumProcs THEN "wait" ELSE "create")
           /\ sem' = sem
        \/ /\ pc[Main] = "wait" /\ created' = created /\ Goto(Main, "ended")
           /\ sem' = SemWait(sem, Main)
    BY <1>4, MainMoves DEF sem
  <2>2. \A q \in Workers : pc'[q] = pc[q]
    BY <1>1, <2>1, Moved, Names DEF MainSteps
  <2>3. Done' = Done
    BY <2>2 DEF Done
  <2>4. CASE pc[Main] = "create"
    <3>1. /\ pc'[Main] = IF created + 1 = NumProcs THEN "wait" ELSE "create"
          /\ created' = created + 1 /\ sem' = sem
      BY <1>1, <2>1, <2>4, Moved, Names DEF MainSteps
    <3> QED BY <1>2, <2>3, <2>4, <3>1 DEF Awaited, sem, MainSteps
  <2>5. CASE pc[Main] = "wait"
    <3>1. pc'[Main] = "ended" /\ created' = created /\ sem' = SemWait(sem, Main)
      BY <1>1, <2>1, <2>5, Moved, Names DEF MainSteps
    <3>2. sem.waiting = <<>> /\ created = NumProcs /\ sem.count = 1 - NumProcs + Cardinality(Done)
      BY <1>2, <2>5
    <3>3. CASE sem.count =< 0
      <4>1. sem' = [sem EXCEPT !.waiting = <<Main>>]
        BY <3>1, <3>2, <3>3 DEF SemWait, SemBlocks
      <4>2. sem' = [count |-> sem.count, waiting |-> <<Main>>]
        BY <1>2, <4>1
      <4> QED BY <1>2, <2>3, <3>1, <3>2, <3>3, <4>2 DEF Awaited, sem, MainSteps
    <3>4. CASE sem.count > 0
      <4>1. sem.count = 1 /\ Cardinality(Done) = NumProcs
        BY <1>1, <1>3, <3>2, <3>4
      <4>2. sem' = [sem EXCEPT !.count = 0]
        BY <1>2, <3>1, <4>1 DEF SemWait, SemBlocks
      <4>3. sem' = [count |-> 0, waiting |-> <<>>]
        BY <1>2, <3>2, <4>2
      <4> QED BY <1>2, <2>3, <3>1, <3>2, <4>1, <4>3 DEF Awaited, sem, MainSteps
    <3> QED BY <1>2, <3>2, <3>3, <3>4
  <2> QED BY <2>1, <2>4, <2>5
<1>5. ASSUME NEW p \in Workers, Turn(p) PROVE Awaited'
  <2>1. /\ UNCHANGED created /\ \E w \in WorkerSteps : Goto(p, w)
    BY <1>5, TurnMoves
  <2>2. pc'[Main] = pc[Main] /\ \A q \in Workers \ {p} : pc'[q] = pc[q]
    BY <1>1, <2>1, Moved, Names
  <2>3. CASE Ends(p)
    <3>1. At(p, "complete") /\ Goto(p, "ended") /\ sems' = [sems EXCEPT !["completed"] = SemSignal(sem)]
      BY <2>3 DEF Ends, SignalCompletion, Signal, sem
    <3>2. pc[p] = "complete" /\ pc'[p] = "ended"
      BY <1>1, <3>1, AtMeans, Moved, Names DEF WorkerSteps
    <3>3. Done' = Done \cup {p} /\ p \notin Done
      BY <2>2, <3>2 DEF Done
    <3>4. Cardinality(Done') = Cardinality(Done) + 1 /\ Done' \in SUBSET Workers
      BY <1>3, <3>3
    <3>5. Cardinality(Done') \in 0 .. NumProcs
      BY <3>4, WorkersCounted
    <3>6. Cardinality(Done) < NumProcs /\ ~(pc[Main] = "ended" /\ sem.waiting = <<>>)
      BY <1>1, <1>2, <1>3, <3>4, <3>5
    <3>7. sem' = SemSignal(sem)
      BY <1>1, <3>1 DEF Typed, SemNames, sem
    <3>8. sem.count = 1 - NumProcs + Cardinality(Done)
      BY <1>2, <3>6
    <3>9. CASE sem.waiting = <<Main>> /\ sem.count = 0
      <4>1. sem' = [sem EXCEPT !.waiting = Tail(sem.waiting)] /\ Tail(<<Main>>) = <<>>
        BY <1>2, <3>7, <3>9 DEF SemSignal, SemWakes
      <4>2. sem' = [count |-> 0, waiting |-> <<>>]
        BY <1>2, <3>9, <4>1
      <4>3. Cardinality(Done') = NumProcs
        BY <1>1, <1>3, <3>4, <3>8, <3>9
      <4> QED BY <1>2, <2>1, <2>2, <3>9, <4>2, <4>3 DEF Awaited, sem
    <3>10. CASE sem.waiting = <<>> \/ sem.count # 0
      <4>1. ~SemWakes(sem)
        <5>1. sem.waiting = <<>> \/ sem.count < 0
          BY <1>2, <3>10
        <5> QED BY <1>2, <5>1 DEF SemWakes
      <4>2. sem' = [sem EXCEPT !.count = sem.count + 1]
        BY <3>7, <4>1 DEF SemSignal
      <4>3. sem' = [count |-> sem.count + 1, waiting |-> sem.waiting]
        BY <1>2, <4>2
      <4>4. sem.count + 1 = 1 - NumProcs + Cardinality(Done') /\ sem.count + 1 \in Int
        BY <1>1, <1>2, <1>3, <3>4, <3>8
      <4>5. sem.waiting = <<Main>> => sem.count + 1 =< 0
        BY <1>2, <3>10
      <4> QED BY <1>2, <2>1, <2>2, <3>6, <4>3, <4>4, <4>5 DEF Awaited, sem
    <3> QED BY <1>2, <3>9, <3>10
  <2>4. CASE ~Ends(p)
    <3>1. sem' = sem
      <4>1. \/ sems' = sems
            \/ \E s \in SlotSems : \E t : sems' = [sems EXCEPT ![s] = t]
        BY <1>5, <2>4 DEF Turn, TakesSlot, AsksForLock, LoadsIndex, GivesUp, UsesIndex,
                          FreesLock, GivesSlot, Wait, Signal, Takes, Gives, SlotSems
      <4> QED BY <1>1, <4>1 DEF sem, SlotSems, Typed, SemNames
    <3>2. PICK w \in WorkerSteps \ {"ended"} : Goto(p, w)
      BY <1>5, <2>4 DEF Turn, TakesSlot, AsksForLock, LoadsIndex, GivesUp, UsesIndex, FreesLock,
                        GivesSlot, Again, WorkerSteps, InTurn, BeforeUse, AfterUse
    <3>3. PICK v \in WorkerSteps \ {"ended"} : At(p, v)
      BY <1>5, <2>4 DEF Turn, TakesSlot, AsksForLock, LoadsIndex, GivesUp, UsesIndex, FreesLock,
                        GivesSlot, WorkerSteps, InTurn, BeforeUse, AfterUse
    <3>4. pc'[p] = w /\ pc[p] = v
      BY <1>1, <3>2, <3>3, Moved, Names DEF At
    <3>5. Done' = Done
      BY <2>2, <3>4 DEF Done
    <3> QED BY <1>2, <2>1, <2>2, <3>1, <3>5 DEF Awaited, sem
  <2> QED BY <2>3, <2>4
<1> QED BY <1>4, <1>5

-----------------------------------------------------------------------------
\* The slots of q3.

LEMMA Pairs ==
  /\ Producers \subseteq Workers /\ Consumers \subseteq Workers
  /\ \A p \in Workers : p \in Producers <=> p \notin Consumers
  /\ \A p \in Workers : {Takes(p), Gives(p)} = SlotSems /\ Takes(p) # Gives(p)
  /\ "completed" \notin SlotSems
BY Names DEF Producers, Consumers, Takes, Gives, SlotSems

\* A process that has a slot of a kind: there is one.
LEMMA SlotThere ==
  ASSUME NEW s \in SlotSems, SlotsOf(s), Indexed, NEW p \in Workers, HasSlot(p, s)
  PROVE  Slots(s) > 0
<1>1. Holders(s) \in SUBSET Workers /\ p \in Holders(s)
  BY DEF Holders
<1>2. Cardinality(Holders(s)) > 0 /\ Cardinality(Holders(s)) \in Nat
  <2>1. /\ Cardinality(Holders(s)) \in 0 .. NumProcs
        /\ \A q \in Holders(s) : Cardinality(Holders(s)) > 0
    BY <1>1, WorkersCounted
  <2> QED BY <1>1, <2>1, NumProcsAssumption
<1>3. Slots(s) \in Int /\ sems[s].count \in Nat /\ sems[s].count + Cardinality(Holders(s)) = Slots(s)
  BY SizesAssumption DEF SlotsOf, Slots, Indexed
<1> QED BY <1>2, <1>3

\* A step of p that leaves a semaphore, and what p has of it, alone.
LEMMA SlotsKept ==
  ASSUME NEW s \in SlotSems, SlotsOf(s), NEW p \in Procs,
         \A q \in Workers \ {p} : pc'[q] = pc[q],
         sems'[s] = sems[s], Slots(s)' = Slots(s), p \notin Awaiting(s),
         p \in Workers => (HasSlot(p, s)' <=> HasSlot(p, s))
  PROVE  SlotsOf(s)'
<1>1. Awaiting(s)' = Awaiting(s)
  BY DEF Awaiting
<1>2. \A q \in Workers : Takes(q)' = Takes(q) /\ Gives(q)' = Gives(q)
  BY DEF Takes, Gives, Producers, Workers
<1>3. \A q \in Workers : HasSlot(q, s)' <=> HasSlot(q, s)
  BY <1>1, <1>2 DEF HasSlot
<1>4. Holders(s)' = Holders(s)
  BY <1>3 DEF Holders
<1>5. Awaiting(s) \subseteq Workers
  BY DEF SlotsOf, Awaiting, ToSet
<1>6. \A q \in Awaiting(s)' : Takes(q)' = s /\ pc'[q] = "acquire"
  BY <1>1, <1>2, <1>5 DEF SlotsOf
<1> QED BY <1>4, <1>6 DEF SlotsOf

LEMMA TakesSlotInv ==
  ASSUME BuffersInv, UNCHANGED program, NEW p \in Workers, TakesSlot(p), NEW s \in SlotSems
  PROVE  SlotsOf(s)'
<1>1. /\ Typed /\ Excluded /\ SlotsOf(s) /\ s \in SemNames /\ s \in DOMAIN sems
      /\ Takes(p) \in DOMAIN sems /\ Takes(p) \in SlotSems
  BY Pairs DEF BuffersInv, TakesSlot, SemNames, Typed
<1>2. /\ At(p, "wait") /\ Goto(p, "acquire") /\ UNCHANGED buf
      /\ sems' = [sems EXCEPT ![Takes(p)] = SemWait(sems[Takes(p)], p)]
  BY DEF TakesSlot, Wait, bufVars
<1>3. pc[p] = "wait" /\ p \notin Awaiting(s)
  BY <1>1, <1>2, AtMeans DEF Awaiting
<1>4. pc'[p] = "acquire" /\ \A q \in Workers \ {p} : pc'[q] = pc[q]
  BY <1>1, <1>2, Moved, Names DEF WorkerSteps, InTurn, BeforeUse
<1>5. Slots(s)' = Slots(s) /\ Slots(s) \in Int
  BY <1>2, SizesAssumption DEF Slots, BuffersInv, Indexed
<1>6. \A q \in Workers : Takes(q)' = Takes(q) /\ Gives(q)' = Gives(q)
  BY DEF Takes, Gives, Producers, Workers
<1>7. ~HasSlot(p, s)
  BY <1>3 DEF HasSlot, BeforeUse, AfterUse
<1>8. CASE s # Takes(p)
  <2>1. sems'[s] = sems[s]
    BY <1>1, <1>2, <1>8
  <2>2. ~HasSlot(p, s)'
    BY <1>4, <1>6, <1>8 DEF HasSlot, AfterUse
  <2> QED BY <1>1, <1>3, <1>4, <1>5, <1>7, <2>1, <2>2, Names, SlotsKept
<1>9. CASE s = Takes(p)
  <2> DEFINE old == sems[s]
             new == sems'[s]
  <2>1. new = SemWait(old, p)
    BY <1>1, <1>2, <1>9
  <2>2. /\ old \in [count : Nat, waiting : Seq(Workers)] /\ IsInjective(old.waiting)
        /\ p \in Workers \ ToSet(old.waiting)
    BY <1>1, <1>3 DEF SlotsOf, Awaiting
  <2> HIDE DEF old, new
  <2>3. /\ new \in [count : Nat, waiting : Seq(Workers)] /\ IsInjective(new.waiting)
        /\ \/ new.count = old.count /\ ToSet(new.waiting) = ToSet(old.waiting) \cup {p}
           \/ new.count = old.count - 1 /\ new.waiting = old.waiting
    BY <2>1, <2>2, SemWaited
  <2>4. Awaiting(s) = ToSet(old.waiting) /\ Awaiting(s)' = ToSet(new.waiting)
    BY DEF Awaiting, old, new
  <2>5. \A q \in Awaiting(s)' : Takes(q)' = s /\ pc'[q] = "acquire"
    <3>1. Awaiting(s) \subseteq Workers /\ \A q \in Awaiting(s) : Takes(q) = s /\ pc[q] = "acquire"
      BY <1>1 DEF SlotsOf, Awaiting, ToSet
    <3> QED BY <1>4, <1>6, <1>9, <2>3, <2>4, <3>1
  <2>6. Holders(s) \in SUBSET Workers /\ p \notin Holders(s)
    BY <1>7 DEF Holders
  <2>7. Cardinality(Holders(s) \cup {p}) = Cardinality(Holders(s)) + 1 /\ Cardinality(Holders(s)) \in Nat
    BY <2>6, WorkersCounted
  <2>8. old.count + Cardinality(Holders(s)) = Slots(s) /\ old.count \in Nat
    BY <1>1 DEF SlotsOf, old
  <2>9. \A q \in Workers \ {p} : q \in Awaiting(s)' <=> q \in Awaiting(s)
    BY <2>3, <2>4
  <2>10. \A q \in Workers \ {p} : HasSlot(q, s)' <=> HasSlot(q, s)
    BY <1>4, <1>6, <2>9 DEF HasSlot
  <2>11. CASE new.count = old.count /\ ToSet(new.waiting) = ToSet(old.waiting) \cup {p}
    <3>1. ~HasSlot(p, s)'
      BY <1>4, <2>4, <2>11 DEF HasSlot, AfterUse
    <3>2. Holders(s)' = Holders(s)
      BY <1>7, <2>10, <3>1 DEF Holders
    <3> QED BY <1>5, <2>3, <2>5, <2>8, <2>11, <3>2 DEF SlotsOf, new
  <2>12. CASE new.count = old.count - 1 /\ new.waiting = old.waiting
    <3>1. HasSlot(p, s)'
      BY <1>3, <1>4, <1>6, <1>9, <2>4, <2>12 DEF HasSlot, BeforeUse
    <3>2. Holders(s)' = Holders(s) \cup {p}
      BY <2>10, <3>1 DEF Holders
    <3>3. new.count + Cardinality(Holders(s)') = Slots(s)
      BY <2>7, <2>8, <2>12, <3>2
    <3> QED BY <1>5, <2>3, <2>5, <3>3 DEF SlotsOf, new
  <2> QED BY <2>3, <2>11, <2>12
<1> QED BY <1>8, <1>9

LEMMA GivesSlotInv ==
  ASSUME BuffersInv, UNCHANGED program, NEW p \in Workers, GivesSlot(p), NEW s \in SlotSems
  PROVE  SlotsOf(s)'
<1>1. /\ Typed /\ Excluded /\ SlotsOf(s) /\ s \in SemNames /\ s \in DOMAIN sems
      /\ Gives(p) \in DOMAIN sems /\ Gives(p) \in SlotSems
  BY Pairs DEF BuffersInv, GivesSlot, SemNames, Typed
<1>2. PICK w \in {"wait", "complete"} :
        /\ At(p, "signal") /\ Goto(p, w) /\ UNCHANGED buf
        /\ sems' = [sems EXCEPT ![Gives(p)] = SemSignal(sems[Gives(p)])]
  BY DEF GivesSlot, Signal, Again, bufVars
<1>3. pc[p] = "signal" /\ p \notin Awaiting(s)
  BY <1>1, <1>2, AtMeans DEF Awaiting
<1>4. pc'[p] = w /\ \A q \in Workers \ {p} : pc'[q] = pc[q]
  BY <1>1, <1>2, Moved, Names DEF WorkerSteps, InTurn, BeforeUse
<1>5. Slots(s)' = Slots(s) /\ Slots(s) \in Int
  BY <1>2, SizesAssumption DEF Slots, BuffersInv, Indexed
<1>6. \A q \in Workers : Takes(q)' = Takes(q) /\ Gives(q)' = Gives(q)
  BY DEF Takes, Gives, Producers, Workers
<1>7. ~HasSlot(p, s)' /\ (HasSlot(p, s) <=> s = Gives(p))
  BY <1>3, <1>4, <1>6 DEF HasSlot, BeforeUse, AfterUse
<1>8. CASE s # Gives(p)
  <2>1. sems'[s] = sems[s]
    BY <1>1, <1>2, <1>8
  <2> QED BY <1>1, <1>3, <1>4, <1>5, <1>7, <1>8, <2>1, Names, SlotsKept
<1>9. CASE s = Gives(p)
  <2> DEFINE old == sems[s]
             new == sems'[s]
  <2>1. new = SemSignal(old)
    BY <1>1, <1>2, <1>9
  <2>2. old \in [count : Nat, waiting : Seq(Workers)] /\ IsInjective(old.waiting)
    BY <1>1 DEF SlotsOf
  <2> HIDE DEF old, new
  <2>3. /\ new \in [count : Nat, waiting : Seq(Workers)] /\ IsInjective(new.waiting)
        /\ \/ new.count = old.count + 1 /\ new.waiting = old.waiting
           \/ \E h \in ToSet(old.waiting) :
                new.count = old.count /\ ToSet(new.waiting) = ToSet(old.waiting) \ {h}
    BY <2>1, <2>2, SemGiven, SMTT(30)
  <2>4. Awaiting(s) = ToSet(old.waiting) /\ Awaiting(s)' = ToSet(new.waiting)
    BY DEF Awaiting, old, new
  <2>5. Awaiting(s) \subseteq Workers /\ \A q \in Awaiting(s) : Takes(q) = s /\ pc[q] = "acquire"
    BY <1>1 DEF SlotsOf, Awaiting, ToSet
  <2>6. \A q \in Awaiting(s)' : Takes(q)' = s /\ pc'[q] = "acquire"
    BY <1>3, <1>4, <1>6, <2>3, <2>4, <2>5
  <2>7. Holders(s) \in SUBSET Workers /\ p \in Holders(s)
    BY <1>7, <1>9 DEF Holders
  <2>8. /\ Cardinality(Holders(s) \ {p}) = Cardinality(Holders(s)) - 1
        /\ Cardinality(Holders(s)) \in Nat
    BY <2>7, WorkersCounted
  <2>9. old.count + Cardinality(Holders(s)) = Slots(s) /\ old.count \in Nat
    BY <1>1 DEF SlotsOf, old
  <2>10. CASE new.count = old.count + 1 /\ new.waiting = old.waiting
    <3>1. \A q \in Workers \ {p} : HasSlot(q, s)' <=> HasSlot(q, s)
      BY <1>4, <1>6, <2>4, <2>10 DEF HasSlot
    <3>2. Holders(s)' = Holders(s) \ {p}
      BY <1>7, <3>1 DEF Holders
    <3>3. new.count + Cardinality(Holders(s)') = Slots(s)
      BY <1>5, <2>8, <2>9, <2>10, <3>2
    <3> QED BY <1>5, <2>3, <2>6, <3>3 DEF SlotsOf, new
  <2>11. CASE \E h \in ToSet(old.waiting) :
                new.count = old.count /\ ToSet(new.waiting) = ToSet(old.waiting) \ {h}
    <3>1. PICK h \in ToSet(old.waiting) :
                new.count = old.count /\ ToSet(new.waiting) = ToSet(old.waiting) \ {h}
      BY <2>11
    <3>2. h \in Workers \ {p} /\ Takes(h) = s /\ pc[h] = "acquire" /\ ~HasSlot(h, s)
      BY <1>3, <2>4, <2>5, <3>1 DEF HasSlot, AfterUse
    <3>3. HasSlot(h, s)'
      BY <1>4, <1>6, <2>4, <3>1, <3>2 DEF HasSlot, BeforeUse
    <3>4. \A q \in Workers \ {p, h} : HasSlot(q, s)' <=> HasSlot(q, s)
      BY <1>4, <1>6, <2>4, <3>1 DEF HasSlot
    <3>5. Holders(s)' = (Holders(s) \ {p}) \cup {h} /\ h \notin Holders(s) \ {p}
      BY <1>7, <3>2, <3>3, <3>4 DEF Holders
    <3>6. Holders(s) \ {p} \in SUBSET Workers /\ h \in Workers \ (Holders(s) \ {p})
      BY <2>7, <3>2, <3>5
    <3>7. Cardinality(Holders(s)') = Cardinality(Holders(s) \ {p}) + 1
      BY <3>5, <3>6, WorkersCounted
    <3>8. new.count + Cardinality(Holders(s)') = Slots(s)
      BY <1>5, <2>8, <2>9, <3>1, <3>7
    <3> QED BY <1>5, <2>3, <2>6, <3>8 DEF SlotsOf, new
  <2> QED BY <2>3, <2>10, <2>11
<1> QED BY <1>8, <1>9

LEMMA UsesIndexInv ==
  ASSUME BuffersInv, UNCHANGED program, program = "q3", NEW p \in Workers, UsesIndex(p),
         NEW s \in SlotSems
  PROVE  SlotsOf(s)'
<1>1. Typed /\ Excluded /\ SlotsOf(s) /\ s \in SemNames /\ Indexed
  BY DEF BuffersInv, SemNames
<1>2. Goto(p, "release") /\ UNCHANGED sems
  BY DEF UsesIndex
<1>3. PICK v \in {"insert", "remove"} : At(p, v)
  BY DEF UsesIndex
<1>4. pc[p] = v /\ p \notin Awaiting(s)
  BY <1>1, <1>3, AtMeans DEF Awaiting
<1>5. pc'[p] = "release" /\ \A q \in Workers \ {p} : pc'[q] = pc[q]
  BY <1>1, <1>2, Moved, Names DEF WorkerSteps, AfterUse
<1>6. \A q \in Workers : Takes(q)' = Takes(q) /\ Gives(q)' = Gives(q)
  BY DEF Takes, Gives, Producers, Workers
<1>7. /\ HasSlot(p, s) <=> s = Takes(p)
      /\ HasSlot(p, s)' <=> s = Gives(p)
  BY <1>4, <1>5, <1>6 DEF HasSlot, BeforeUse, AfterUse
<1>8. s = Takes(p) <=> s # Gives(p)
  BY Pairs
<1>9. Slots(s) \in Int /\ Slots(s)' = IF s = Gives(p) THEN Slots(s) + 1 ELSE Slots(s) - 1
  <2>1. buf.head \in Nat /\ buf.tail \in Nat
    BY <1>1 DEF Indexed
  <2>2. CASE v = "insert"
    <3>1. p \in Producers /\ at[p] = buf.head /\ InsertItem(p)
      BY <1>1, <1>4, <2>2 DEF Indexed, UsesIndex, At
    <3>2. buf'.head = buf.head + 1 /\ buf'.tail = buf.tail
      <4> DEFINE x == [buf EXCEPT !.char_buf[at[p]] = Item(p, curr_idx[p])].char_buf
      <4>1. buf' = [buf EXCEPT !.char_buf = x, !.head = at[p] + 1]
        BY <3>1 DEF InsertItem
      <4> QED BY <1>1, <3>1, <4>1 DEF Indexed
    <3> QED BY <2>1, <3>1, <3>2, SizesAssumption DEF Slots, Gives, SlotSems
  <2>3. CASE v = "remove"
    <3>1. p \notin Producers /\ at[p] = buf.tail /\ RemoveItem(p)
      BY <1>1, <1>4, <2>3, Pairs DEF Indexed, UsesIndex, At
    <3>2. buf'.head = buf.head /\ buf'.tail = buf.tail + 1
      BY <1>1, <3>1 DEF Indexed, RemoveItem
    <3> QED BY <2>1, <3>1, <3>2, SizesAssumption DEF Slots, Gives, SlotSems
  <2> QED BY <2>2, <2>3
<1>10. Awaiting(s)' = Awaiting(s) /\ Awaiting(s) \subseteq Workers
  BY <1>1, <1>2 DEF Awaiting, SlotsOf, ToSet
<1>11. \A q \in Awaiting(s)' : Takes(q)' = s /\ pc'[q] = "acquire"
  BY <1>1, <1>4, <1>5, <1>6, <1>10 DEF SlotsOf
<1>12. \A q \in Workers \ {p} : HasSlot(q, s)' <=> HasSlot(q, s)
  BY <1>5, <1>6, <1>10 DEF HasSlot
<1>13. Holders(s) \in SUBSET Workers
  BY DEF Holders
<1>14. sems[s].count + Cardinality(Holders(s)) = Slots(s) /\ sems[s].count \in Nat
  BY <1>1 DEF SlotsOf
<1>15. sems[s].count + Cardinality(Holders(s)') = Slots(s)'
  <2>1. CASE s = Gives(p)
    <3>1. Holders(s)' = Holders(s) \cup {p} /\ p \in Workers \ Holders(s)
      BY <1>7, <1>8, <1>12, <2>1 DEF Holders
    <3>2. Cardinality(Holders(s)') = Cardinality(Holders(s)) + 1 /\ Cardinality(Holders(s)) \in Nat
      BY <1>13, <3>1, WorkersCounted
    <3> QED BY <1>9, <1>14, <2>1, <3>2
  <2>2. CASE s # Gives(p)
    <3>1. Holders(s)' = Holders(s) \ {p} /\ p \in Holders(s)
      BY <1>7, <1>8, <1>12, <2>2 DEF Holders
    <3>2. Cardinality(Holders(s)') = Cardinality(Holders(s)) - 1 /\ Cardinality(Holders(s)) \in Nat
      BY <1>13, <3>1, WorkersCounted
    <3> QED BY <1>9, <1>14, <2>2, <3>2
  <2> QED BY <2>1, <2>2
<1> QED BY <1>1, <1>2, <1>11, <1>15 DEF SlotsOf

LEMMA SlotsInv ==
  ASSUME BuffersInv, UNCHANGED program, MainTurn \/ \E p \in Workers : Turn(p),
         program = "q3", NEW s \in SlotSems
  PROVE  SlotsOf(s)'
<1>1. Typed /\ Excluded /\ SlotsOf(s) /\ s \in SemNames /\ s \in DOMAIN sems /\ s # "completed"
  BY Pairs DEF BuffersInv, SemNames, Typed
<1>2. UNCHANGED buf => Slots(s)' = Slots(s)
  BY DEF Slots
<1>3. \A q \in Workers : Takes(q)' = Takes(q) /\ Gives(q)' = Gives(q)
  BY DEF Takes, Gives, Producers, Workers
<1>4. CASE MainTurn
  <2>1. /\ UNCHANGED buf /\ sems'[s] = sems[s] /\ \E w \in MainSteps : Goto(Main, w)
    BY <1>1, <1>4, MainMoves DEF MainSteps, bufVars
  <2>2. \A q \in Workers : pc'[q] = pc[q]
    BY <1>1, <2>1, Moved, Names
  <2>3. Main \notin Awaiting(s)
    BY <1>1, Names DEF SlotsOf, Awaiting, ToSet
  <2> QED BY <1>1, <1>2, <2>1, <2>2, <2>3, Names, SlotsKept
<1>5. ASSUME NEW p \in Workers, Turn(p) PROVE SlotsOf(s)'
  <2>1. CASE TakesSlot(p)
    BY <2>1, TakesSlotInv
  <2>2. CASE GivesSlot(p)
    BY <2>2, GivesSlotInv
  <2>3. CASE UsesIndex(p)
    BY <2>3, UsesIndexInv
  <2>4. CASE Ends(p) \/ AsksForLock(p) \/ LoadsIndex(p) \/ FreesLock(p)
    <3>1. UNCHANGED buf /\ sems'[s] = sems[s]
      BY <1>1, <2>4 DEF Ends, SignalCompletion, Signal, AsksForLock, LoadsIndex, LoadHead, LoadTail,
                        FreesLock, bufVars
    <3>2. PICK v, w \in WorkerSteps :
            /\ At(p, v) /\ Goto(p, w)
            /\ \/ v \in BeforeUse /\ w \in BeforeUse
               \/ v \in AfterUse /\ w \in AfterUse
               \/ {v, w} \cap (BeforeUse \cup AfterUse) = {}
      BY <2>4 DEF Ends, SignalCompletion, AsksForLock, LoadsIndex, FreesLock, WorkerSteps,
                  InTurn, BeforeUse, AfterUse
    <3>3. pc[p] = v /\ p \notin Awaiting(s)
      BY <1>1, <3>2, AtMeans DEF Awaiting
    <3>4. pc'[p] = w /\ \A q \in Workers \ {p} : pc'[q] = pc[q]
      BY <1>1, <3>2, Moved, Names
    <3>5. Awaiting(s)' = Awaiting(s)
      BY <3>1 DEF Awaiting
    <3>6. HasSlot(p, s)' <=> HasSlot(p, s)
      BY <1>3, <3>2, <3>3, <3>4, <3>5 DEF HasSlot, BeforeUse, AfterUse
    <3> QED BY <1>1, <1>2, <3>1, <3>3, <3>4, <3>6, Names, SlotsKept
  <2> QED BY <1>5, <2>1, <2>2, <2>3, <2>4 DEF Turn, GivesUp
<1> QED BY <1>4, <1>5

-----------------------------------------------------------------------------
\* The indices.

\* A step that does not touch the buffer, or load an index.
LEMMA IndicesKept ==
  ASSUME Typed, Indexed, UNCHANGED <<program, bufVars>>, NEW p \in Workers,
         NEW w \in WorkerSteps \ {"insert", "remove"}, Goto(p, w),
         w \in InTurn => curr_idx[p] < ITEM_SIZE
  PROVE  Indexed'
<1>1. pc'[p] = w /\ \A q \in Workers \ {p} : pc'[q] = pc[q]
  BY Moved, Names
<1>2. UNCHANGED <<buf, curr_idx, at>>
  BY DEF bufVars
<1>3. Put' = Put
  BY <1>2 DEF Put, Producers, Workers
<1>4. /\ \A q \in Workers : pc'[q] \in InTurn => curr_idx'[q] < ITEM_SIZE
      /\ \A q \in Workers : pc'[q] = "insert" => q \in Producers /\ at'[q] = buf'.head
      /\ \A q \in Workers : pc'[q] = "remove" => q \in Consumers /\ at'[q] = buf'.tail
      /\ program' # "q3" => \A q \in Workers : pc'[q] = "remove" => buf'.tail < buf'.head
  BY <1>1, <1>2 DEF Indexed
<1> QED BY <1>2, <1>3, <1>4 DEF Indexed, Indices, Total, Producers, Consumers, Workers

LEMMA LoadsIndexInv ==
  ASSUME BuffersInv, UNCHANGED program, NEW p \in Workers, LoadsIndex(p)
  PROVE  Indexed'
<1>1. Typed /\ Excluded /\ Indexed
  BY DEF BuffersInv
<1>2. UNCHANGED <<buf, curr_idx>>
  BY DEF LoadsIndex, LoadHead, LoadTail
<1>3. PICK v \in {"test", "load"} : At(p, v)
  BY DEF LoadsIndex
<1>4. pc[p] = v /\ curr_idx[p] < ITEM_SIZE
  BY <1>1, <1>3 DEF At, Indexed, InTurn, BeforeUse
<1>5. \/ p \in Producers /\ at' = [at EXCEPT ![p] = buf.head] /\ Goto(p, "insert")
      \/ /\ p \in Consumers /\ at' = [at EXCEPT ![p] = buf.tail] /\ Goto(p, "remove")
         /\ program # "q3" => buf.tail # buf.head
  BY Pairs DEF LoadsIndex, LoadHead, LoadTail, Empty
<1>6. buf.head \in Nat /\ buf.tail \in 0 .. buf.head /\ at \in [Workers -> Nat]
  BY <1>1 DEF Indexed
<1>7. PICK w \in {"insert", "remove"} : Goto(p, w)
  BY <1>5
<1>8. pc'[p] = w /\ \A q \in Workers \ {p} : pc'[q] = pc[q]
  BY <1>1, <1>7, Moved, Names DEF WorkerSteps, InTurn, BeforeUse
<1>9. \/ p \in Producers /\ at' = [at EXCEPT ![p] = buf.head] /\ pc'[p] = "insert"
      \/ /\ p \in Consumers /\ at' = [at EXCEPT ![p] = buf.tail] /\ pc'[p] = "remove"
         /\ program # "q3" => buf.tail < buf.head
  BY <1>1, <1>5, <1>6, Moved, Names DEF WorkerSteps, InTurn, BeforeUse
<1>10. Put' = Put
  BY <1>2 DEF Put, Producers, Workers
<1>11. /\ \A q \in Workers : pc'[q] \in InTurn => curr_idx'[q] < ITEM_SIZE
       /\ \A q \in Workers : pc'[q] = "insert" => q \in Producers /\ at'[q] = buf'.head
       /\ \A q \in Workers : pc'[q] = "remove" => q \in Consumers /\ at'[q] = buf'.tail
       /\ program' # "q3" => \A q \in Workers : pc'[q] = "remove" => buf'.tail < buf'.head
       /\ at' \in [Workers -> Nat]
  BY <1>1, <1>2, <1>4, <1>6, <1>8, <1>9 DEF Indexed
<1> QED BY <1>1, <1>2, <1>10, <1>11 DEF Indexed, Indices, Total, Producers, Consumers, Workers

\* What the process that has the lock does to the buffer, and that there is a
\* place for what it puts in, and something to take out.
LEMMA BufferUsed ==
  ASSUME BuffersInv, NEW p \in Workers, UsesIndex(p)
  PROVE  /\ pc[p] \in {"insert", "remove"} /\ lock.pid = p /\ curr_idx[p] < ITEM_SIZE
         /\ curr_idx' = [curr_idx EXCEPT ![p] = @ + 1] /\ UNCHANGED at
         /\ \/ /\ pc[p] = "insert" /\ p \in Producers /\ buf.head < Total
               /\ buf' = [head |-> buf.head + 1, tail |-> buf.tail,
                          char_buf |-> [buf.char_buf EXCEPT ![buf.head] = Item(p, curr_idx[p])]]
               /\ UNCHANGED removed
            \/ /\ pc[p] = "remove" /\ p \in Consumers
               /\ buf.tail < buf.head
               /\ buf' = [head |-> buf.head, tail |-> buf.tail + 1, char_buf |-> buf.char_buf]
               /\ removed' = Append(removed, buf.char_buf[buf.tail])
<1>1. Typed /\ Excluded /\ Indexed
  BY DEF BuffersInv
<1>2. PICK v \in {"insert", "remove"} : At(p, v)
  BY DEF UsesIndex
<1>3. pc[p] = v /\ lock.pid = p
  BY <1>1, <1>2, AtMeans DEF InSection
<1>4. curr_idx[p] < ITEM_SIZE /\ curr_idx \in [Workers -> 0 .. ITEM_SIZE]
  BY <1>1, <1>3 DEF Indexed, InTurn, BeforeUse
<1>5. buf = [head |-> buf.head, tail |-> buf.tail, char_buf |-> buf.char_buf]
  <2>1. buf = [head |-> buf.head, tail |-> buf.tail,
               char_buf |-> [k \in Indices |-> buf.char_buf[k]]]
    BY <1>1 DEF Indexed
  <2> DEFINE x == [k \in Indices |-> buf.char_buf[k]]
  <2> HIDE DEF x
  <2>2. buf.char_buf = x
    BY <2>1 DEF x
  <2> QED BY <2>1, <2>2 DEF x
<1>6. curr_idx' = [curr_idx EXCEPT ![p] = @ + 1] /\ UNCHANGED at
  BY DEF UsesIndex, InsertItem, RemoveItem
<1>7. CASE v = "insert"
  <2>1. p \in Producers /\ at[p] = buf.head /\ InsertItem(p)
    BY <1>1, <1>3, <1>7 DEF Indexed, UsesIndex, At
  <2>2. buf.head < Total
    BY <1>1, <1>4, <2>1, ItemsCounted DEF Indexed
  <2> DEFINE x == [buf.char_buf EXCEPT ![buf.head] = Item(p, curr_idx[p])]
  <2>3. buf' = [buf EXCEPT !.char_buf = x, !.head = buf.head + 1] /\ UNCHANGED removed
    BY <2>1 DEF InsertItem
  <2> HIDE DEF x
  <2>4. buf' = [head |-> buf.head + 1, tail |-> buf.tail, char_buf |-> x]
    BY <1>5, <2>3
  <2> QED BY <1>3, <1>4, <1>6, <1>7, <2>1, <2>2, <2>3, <2>4 DEF x
<1>8. CASE v = "remove"
  <2>1. p \in Consumers /\ at[p] = buf.tail /\ RemoveItem(p)
    BY <1>1, <1>3, <1>8, Pairs DEF Indexed, UsesIndex, At
  <2>2. program # "q3" => buf.tail < buf.head
    BY <1>1, <1>3, <1>8 DEF Indexed
  <2>3. program = "q3" => buf.tail < buf.head
    <3> SUFFICES ASSUME program = "q3" PROVE buf.tail < buf.head
      OBVIOUS
    <3>1. SlotsOf("fullslots") /\ "fullslots" \in SlotSems
      BY DEF BuffersInv, SlotSems
    <3>2. Takes(p) = "fullslots" /\ p \notin Awaiting("fullslots")
      BY <1>3, <1>8, <2>1, <3>1, Pairs DEF Takes, SlotsOf
    <3>3. HasSlot(p, "fullslots")
      BY <1>3, <1>8, <3>2 DEF HasSlot, BeforeUse
    <3>4. Slots("fullslots") > 0
      BY <1>1, <3>1, <3>3, SlotThere
    <3> QED BY <1>1, <3>4 DEF Slots, Indexed
  <2>4. /\ buf' = [buf EXCEPT !.tail = buf.tail + 1]
        /\ removed' = Append(removed, buf.char_buf[buf.tail])
    BY <2>1 DEF RemoveItem
  <2>5. buf' = [head |-> buf.head, tail |-> buf.tail + 1, char_buf |-> buf.char_buf]
    BY <1>5, <2>4
  <2> QED BY <1>3, <1>4, <1>6, <1>8, <2>1, <2>2, <2>3, <2>4, <2>5
<1> QED BY <1>7, <1>8

LEMMA UsedIndexInv ==
  ASSUME BuffersInv, UNCHANGED program, NEW p \in Workers, UsesIndex(p)
  PROVE  Indexed'
<1>1. Typed /\ Excluded /\ Indexed
  BY DEF BuffersInv
<1>2. /\ pc[p] \in {"insert", "remove"} /\ lock.pid = p /\ curr_idx[p] < ITEM_SIZE
      /\ curr_idx' = [curr_idx EXCEPT ![p] = @ + 1] /\ UNCHANGED at
  BY BufferUsed
<1>3. pc'[p] = "release" /\ \A q \in Workers \ {p} : pc'[q] = pc[q]
  BY <1>1, Moved, Names DEF UsesIndex, WorkerSteps, AfterUse
<1>4. \A q \in Workers : pc'[q] \notin {"insert", "remove"}
  BY <1>1, <1>2, <1>3 DEF Excluded
<1>5. curr_idx \in [Workers -> 0 .. ITEM_SIZE] /\ ITEM_SIZE \in Nat
  BY <1>1, SizesAssumption DEF Indexed
<1>6. /\ curr_idx' \in [Workers -> 0 .. ITEM_SIZE]
      /\ curr_idx'[p] = curr_idx[p] + 1 /\ \A q \in Workers \ {p} : curr_idx'[q] = curr_idx[q]
  BY <1>2, <1>5
<1>7. \A q \in Workers : pc'[q] \in InTurn => curr_idx'[q] < ITEM_SIZE
  BY <1>1, <1>3, <1>6 DEF Indexed, InTurn, BeforeUse
<1>8. Producers' = Producers /\ Consumers' = Consumers /\ Indices' = Indices
  BY DEF Producers, Consumers, Workers, Indices, Total
<1>9. /\ buf' = [head |-> buf'.head, tail |-> buf'.tail,
                 char_buf |-> [k \in Indices |-> buf'.char_buf[k]]]
      /\ buf'.head \in Nat /\ buf'.tail \in 0 .. buf'.head
      /\ buf'.head = Cardinality(Put')
  <2>1. /\ buf.head \in Nat /\ buf.tail \in 0 .. buf.head /\ buf.head = Cardinality(Put)
        /\ buf.char_buf = [k \in Indices |-> buf.char_buf[k]]
    <3> DEFINE x == [k \in Indices |-> buf.char_buf[k]]
    <3>1. buf = [head |-> buf.head, tail |-> buf.tail, char_buf |-> x]
      BY <1>1 DEF Indexed
    <3> HIDE DEF x
    <3>2. buf.char_buf = x
      BY <3>1
    <3> QED BY <1>1, <3>2 DEF Indexed, x
  <2>2. CASE pc[p] = "insert"
    <3>1. /\ p \in Producers
          /\ buf' = [head |-> buf.head + 1, tail |-> buf.tail,
                     char_buf |-> [buf.char_buf EXCEPT ![buf.head] = Item(p, curr_idx[p])]]
      BY <2>2, BufferUsed
    <3> DEFINE x == [buf.char_buf EXCEPT ![buf.head] = Item(p, curr_idx[p])]
    <3>2. x = [k \in Indices |-> x[k]]
      BY <2>1
    <3>3. buf' = [head |-> buf.head + 1, tail |-> buf.tail, char_buf |-> x]
      BY <3>1
    <3> HIDE DEF x
    <3>4. buf'.head = buf.head + 1 /\ buf'.tail = buf.tail /\ buf'.char_buf = x
      BY <3>3
    <3>5. Put' = Put \cup {<<p, curr_idx[p]>>}
      <4>1. curr_idx[p] \in 0 .. ITEM_SIZE - 1
        BY <1>2, <1>5
      <4>2. ASSUME NEW q \in Producers, NEW k \in 0 .. ITEM_SIZE - 1
            PROVE  k < curr_idx'[q] <=> k < curr_idx[q] \/ (q = p /\ k = curr_idx[p])
        BY <1>5, <1>6, Pairs
      <4> QED BY <1>8, <3>1, <4>1, <4>2 DEF Put
    <3>6. Cardinality(Put') = Cardinality(Put) + 1
      BY <1>2, <1>5, <3>1, <3>5, ItemsCounted
    <3> QED BY <2>1, <3>2, <3>3, <3>4, <3>6
  <2>3. CASE pc[p] = "remove"
    <3>1. /\ p \in Consumers /\ buf.tail < buf.head
          /\ buf' = [head |-> buf.head, tail |-> buf.tail + 1, char_buf |-> buf.char_buf]
      BY <2>3, BufferUsed
    <3>2. \A q \in Producers : curr_idx'[q] = curr_idx[q]
      BY <1>6, <3>1, Pairs
    <3>3. Put' = Put
      BY <1>8, <3>2 DEF Put
    <3>4. buf'.head = buf.head /\ buf'.tail = buf.tail + 1 /\ buf'.char_buf = buf.char_buf
      BY <3>1
    <3> QED BY <2>1, <3>1, <3>3, <3>4
  <2> QED BY <1>2, <2>2, <2>3
<1>10. at' \in [Workers -> Nat]
  BY <1>1, <1>2 DEF Indexed
<1> QED BY <1>4, <1>6, <1>7, <1>8, <1>9, <1>10 DEF Indexed

LEMMA IndexedInv ==
  ASSUME BuffersInv, UNCHANGED program, MainTurn \/ \E p \in Workers : Turn(p)
  PROVE  Indexed'
<1>1. Typed /\ Excluded /\ Indexed
  BY DEF BuffersInv
<1>2. CASE MainTurn
  <2>1. UNCHANGED <<program, buf, curr_idx, at>> /\ \E w \in MainSteps : Goto(Main, w)
    BY <1>2, MainMoves DEF MainSteps, bufVars
  <2>2. \A q \in Workers : pc'[q] = pc[q]
    BY <1>1, <2>1, Moved, Names
  <2>3. Put' = Put
    BY <2>1 DEF Put, Producers, Workers
  <2> QED BY <1>1, <2>1, <2>2, <2>3 DEF Indexed, Indices, Total, Producers, Consumers, Workers
<1>3. ASSUME NEW p \in Workers, Turn(p) PROVE Indexed'
  <2>1. CASE LoadsIndex(p)
    BY <2>1, LoadsIndexInv
  <2>2. CASE UsesIndex(p)
    BY <2>2, UsedIndexInv
  <2>3. CASE ~LoadsIndex(p) /\ ~UsesIndex(p)
    <3>1. PICK v, w \in WorkerSteps :
            /\ At(p, v) /\ Goto(p, w) /\ w \notin {"insert", "remove"}
            /\ w \in InTurn => v \in InTurn \/ curr_idx[p] < ITEM_SIZE
      BY <1>3, <2>3 DEF Turn, Ends, SignalCompletion, TakesSlot, AsksForLock, GivesUp, FreesLock,
                        GivesSlot, Again, WorkerSteps, InTurn, BeforeUse, AfterUse
    <3>2. UNCHANGED bufVars
      BY <1>3, <2>3 DEF Turn, Ends, TakesSlot, AsksForLock, GivesUp, FreesLock, GivesSlot
    <3>3. w \in InTurn => curr_idx[p] < ITEM_SIZE
      BY <1>1, <3>1 DEF At, Indexed
    <3> QED BY <1>1, <3>1, <3>2, <3>3, IndicesKept
  <2> QED BY <2>1, <2>2, <2>3
<1> QED BY <1>2, <1>3

LEMMA OnlyEndInv ==
  ASSUME BuffersInv, UNCHANGED program, MainTurn \/ \E p \in Workers : Turn(p)
  PROVE  OnlyEnd'
<1> SUFFICES ASSUME program = "example", NEW q \in Workers PROVE pc'[q] \in {"complete", "ended"}
  BY DEF OnlyEnd
<1>1. Typed /\ \A p \in Workers : pc[p] \in {"complete", "ended"}
  BY DEF BuffersInv, OnlyEnd
<1>2. CASE MainTurn
  <2>1. \E w \in MainSteps : Goto(Main, w)
    BY <1>2, MainMoves DEF MainSteps
  <2> QED BY <1>1, <2>1, Moved, Names
<1>3. ASSUME NEW p \in Workers, Turn(p) PROVE pc'[q] \in {"complete", "ended"}
  <2>1. Goto(p, "ended")
    BY <1>1, <1>3 DEF Turn, Ends, SignalCompletion, TakesSlot, AsksForLock, LoadsIndex, GivesUp,
                      UsesIndex, FreesLock, GivesSlot, At
  <2> QED BY <1>1, <2>1, Moved, Names DEF WorkerSteps
<1> QED BY <1>2, <1>3

LEMMA NextInv == BuffersInv /\ [MCNext]_<<vars, program>> => BuffersInv'
<1> SUFFICES ASSUME BuffersInv, [MCNext]_<<vars, program>> PROVE BuffersInv'
  OBVIOUS
<1>1. CASE MCNext
  <2>1. UNCHANGED program /\ (MainTurn \/ \E p \in Workers : Turn(p))
    BY <1>1, StepsAre
  <2>2. Typed' /\ Excluded' /\ Awaited' /\ Indexed' /\ OnlyEnd'
    BY <2>1, TypedInv, ExcludedInv, AwaitedInv, IndexedInv, OnlyEndInv
  <2>3. program' = "q3" => \A s \in SlotSems : SlotsOf(s)'
    BY <2>1, SlotsInv
  <2> QED BY <2>2, <2>3 DEF BuffersInv, SlotSems
<1>2. CASE UNCHANGED <<vars, program>>
  <2>1. UNCHANGED <<lock, sems, conds, created, pc, buf, curr_idx, at, program>>
    BY <1>2 DEF vars, appVars, bufVars
  <2>2. Typed' /\ Excluded' /\ Awaited' /\ Indexed' /\ OnlyEnd'
    <3>1. Typed' /\ Excluded' /\ OnlyEnd'
      BY <2>1 DEF BuffersInv, Typed, SemNames, Excluded, OnlyEnd
    <3>2. Awaited'
      BY <2>1 DEF BuffersInv, Awaited, Done
    <3>3. Put' = Put
      BY <2>1 DEF Put, Producers, Workers
    <3>4. Indexed'
      BY <2>1, <3>3 DEF BuffersInv, Indexed, Indices, Total, Producers, Consumers, Workers
    <3> QED BY <3>1, <3>2, <3>4
  <2>3. ASSUME program' = "q3", NEW s \in SlotSems PROVE SlotsOf(s)'
    <3>1. SlotsOf(s)
      BY <2>1, <2>3 DEF BuffersInv
    <3>2. \A q \in Workers : HasSlot(q, s)' <=> HasSlot(q, s)
      BY <2>1 DEF HasSlot, Takes, Gives, Awaiting, Producers, Workers
    <3>3. Holders(s)' = Holders(s)
      BY <3>2 DEF Holders
    <3>4. Awaiting(s)' = Awaiting(s) /\ Slots(s)' = Slots(s)
      BY <2>1 DEF Awaiting, Slots
    <3>5. \A q : Takes(q)' = Takes(q)
      BY DEF Takes, Producers, Workers
    <3> QED BY <2>1, <3>1, <3>3, <3>4, <3>5 DEF SlotsOf
  <2> QED BY <2>2, <2>3 DEF BuffersInv, SlotSems
<1> QED BY <1>1, <1>2

-----------------------------------------------------------------------------
\* The first states.

LEMMA Started ==
  ASSUME MCInit
  PROVE  /\ program \in {"q2", "q3", "example"} /\ InitBuffer
         /\ lock = [pid |-> NoOwner, waiting |-> <<>>] /\ DOMAIN conds = {} /\ created = 0
         /\ \E start \in {"acquire", "wait", "complete"} :
              pc = [p \in Procs |-> IF p = Main THEN "create" ELSE start]
         /\ sems = [s \in SemNames |-> IF s = "completed" THEN NewSem(-(NumProcs - 1))
                                       ELSE NewSem(IF s = "fullslots" THEN 0 ELSE BUFFER_SIZE)]
         /\ program = "q3" => pc = [p \in Procs |-> IF p = Main THEN "create" ELSE "wait"]
         /\ program = "example" => pc = [p \in Procs |-> IF p = Main THEN "create" ELSE "complete"]
<1>1. DOMAIN <<>> = {}
  OBVIOUS
<1>2. CASE program = "q2" /\ Q2!Init
  <2>1. InitBuffer /\ Q2!InitApp(<<>>, {}, "acquire")
    BY <1>2 DEF Q2!Init, Q2!InitBuffer, InitBuffer, Q2!Garbage, Garbage, Q2!Indices, Indices,
                Q2!Total, Total, Q2!Producers, Producers, Q2!Workers, Workers, Q2!Cardinality, Cardinality
  <2>2. sems = [s \in {"completed"} |-> NewSem(-(NumProcs - 1))]
    BY <1>1, <2>1 DEF Q2!InitApp, Q2!Completed, Q2!NewSem, NewSem
  <2> QED BY <1>2, <2>1, <2>2 DEF Q2!InitApp, Q2!NoOwner, NoOwner, Q2!Procs, Procs, Q2!Workers,
                                  Workers, Q2!Main, Main, SemNames
<1>3. CASE program = "q3" /\ Q3!Init
  <2>1. /\ InitBuffer
        /\ Q3!InitApp([fullslots |-> NewSem(0), emptyslots |-> NewSem(BUFFER_SIZE)], {}, "wait")
    BY <1>3 DEF Q3!Init, Q3!InitBuffer, InitBuffer, Q3!Garbage, Garbage, Q3!Indices, Indices,
                Q3!Total, Total, Q3!Producers, Producers, Q3!Workers, Workers, Q3!Cardinality, Cardinality,
                Q3!NewSem, NewSem
  <2>2. sems = [s \in {"completed"} \cup SlotSems |->
                  IF s = "completed" THEN NewSem(-(NumProcs - 1))
                  ELSE NewSem(IF s = "fullslots" THEN 0 ELSE BUFFER_SIZE)]
    BY <2>1 DEF Q3!InitApp, Q3!Completed, Q3!NewSem, NewSem, SlotSems
  <2> QED BY <1>3, <2>1, <2>2 DEF Q3!InitApp, Q3!NoOwner, NoOwner, Q3!Procs, Procs, Q3!Workers,
                                  Workers, Q3!Main, Main, SemNames
<1>4. CASE program = "example" /\ Example!Init /\ InitBuffer
  <2>1. sems = [s \in {"completed"} |-> NewSem(-(NumProcs - 1))]
    BY <1>1, <1>4 DEF Example!Init, Example!InitApp, Example!Completed, Example!NewSem, NewSem
  <2> QED BY <1>4, <2>1 DEF Example!Init, Example!InitApp, Example!NoOwner, NoOwner, Example!Procs,
                            Procs, Example!Workers, Workers, Example!Main, Main, SemNames
<1> QED BY <1>2, <1>3, <1>4 DEF MCInit

LEMMA InitInv == MCInit => BuffersInv
<1> SUFFICES ASSUME MCInit PROVE BuffersInv
  OBVIOUS
<1>1. PICK start \in {"acquire", "wait", "complete"} :
        pc = [p \in Procs |-> IF p = Main THEN "create" ELSE start]
  BY Started
<1>2. /\ pc[Main] = "create" /\ \A p \in Workers : pc[p] = start
      /\ program = "q3" => start = "wait"
      /\ program = "example" => start = "complete"
  <2>1. /\ program = "q3" => \A p \in Workers : pc[p] = "wait"
        /\ program = "example" => \A p \in Workers : pc[p] = "complete"
    BY Started, Names
  <2>2. 1 \in Workers
    BY NumProcsAssumption DEF Workers
  <2> QED BY <1>1, <2>1, <2>2, Names
<1>3. /\ lock = [pid |-> NoOwner, waiting |-> <<>>] /\ DOMAIN conds = {} /\ created = 0
      /\ program \in {"q2", "q3", "example"}
      /\ sems = [s \in SemNames |-> IF s = "completed" THEN NewSem(-(NumProcs - 1))
                                    ELSE NewSem(IF s = "fullslots" THEN 0 ELSE BUFFER_SIZE)]
  BY Started
<1>4. /\ buf = [head |-> 0, tail |-> 0, char_buf |-> [k \in Indices |-> Garbage]]
      /\ curr_idx = [p \in Workers |-> 0] /\ at = [p \in Workers |-> 0]
  BY Started DEF InitBuffer
<1>5. Typed
  <2>1. pc \in [Procs -> WorkerSteps \cup MainSteps]
    BY <1>1 DEF WorkerSteps, InTurn, BeforeUse, MainSteps
  <2> QED BY <1>3, <2>1, NumProcsAssumption DEF Typed
<1>6. Excluded
  <2>1. ToSet(<<>>) = {} /\ IsInjective(<<>>) /\ <<>> \in Seq(Workers)
    BY DEF ToSet, IsInjective
  <2>2. LockSound(lock, Workers) /\ Inside(lock) = {}
    BY <1>3, <2>1, Names DEF LockSound, Inside
  <2> QED BY <1>2, <2>2 DEF Excluded, InSection
<1>7. Awaited
  <2>1. sems["completed"] = [count |-> 1 - NumProcs, waiting |-> <<>>]
    BY <1>3, NumProcsAssumption DEF NewSem, SemNames
  <2>2. Done = {}
    BY <1>2 DEF Done
  <2>3. Cardinality({}) = 0 /\ <<>> # <<Main>>
    BY FS_EmptySet
  <2> QED BY <1>2, <2>1, <2>2, <2>3, NumProcsAssumption DEF Awaited, MainSteps
<1>8. Indexed
  <2>1. Put = {}
    <3>1. Producers \subseteq Workers
      BY Pairs
    <3> QED BY <1>4, <3>1 DEF Put
  <2>2. Cardinality({}) = 0
    BY FS_EmptySet
  <2>3. buf.head = 0 /\ buf.tail = 0 /\ buf.char_buf = [k \in Indices |-> Garbage]
    BY <1>4
  <2> QED BY <1>2, <1>4, <2>1, <2>2, <2>3, SizesAssumption DEF Indexed
<1>9. ASSUME program = "q3", NEW s \in SlotSems PROVE SlotsOf(s)
  <2>1. sems[s] = [count |-> IF s = "fullslots" THEN 0 ELSE BUFFER_SIZE, waiting |-> <<>>]
    BY <1>3, <1>9, Pairs DEF NewSem, SemNames
  <2>2. Awaiting(s) = {} /\ IsInjective(<<>>) /\ <<>> \in Seq(Workers)
    BY <2>1 DEF Awaiting, ToSet, IsInjective
  <2>3. Holders(s) = {}
    BY <1>2, <1>9 DEF Holders, HasSlot, BeforeUse, AfterUse
  <2>4. Cardinality({}) = 0 /\ buf.head = 0 /\ buf.tail = 0
    BY <1>4, FS_EmptySet
  <2> QED BY <2>1, <2>2, <2>3, <2>4, SizesAssumption DEF SlotsOf, Slots
<1>10. OnlyEnd
  BY <1>2 DEF OnlyEnd
<1> QED BY <1>5, <1>6, <1>7, <1>8, <1>9, <1>10 DEF BuffersInv

-----------------------------------------------------------------------------
\* In every state of q2, q3 and the example, the semaphores, the lock and the
\* indices of the buffer agree with where the processes are: a process that uses an
\* index has the lock, and char_buf has a place for what it writes.
THEOREM BuffersSound == MCSpec => []BuffersInv
BY InitInv, NextInv, PTL DEF MCSpec

\* q3's producers and consumers lose no slot: the counts of the two semaphores and
\* the processes that have a slot in hand are always the size of the buffer.
THEOREM SlotsStay == MCSpec => []SlotsAccounted
<1>1. BuffersInv => SlotsAccounted
  <2> SUFFICES ASSUME BuffersInv, program = "q3" PROVE Q3!SlotsMatch
    BY DEF SlotsAccounted
  <2> DEFINE E == Holders("emptyslots")
             F == Holders("fullslots")
  <2>1. SlotsOf("emptyslots") /\ SlotsOf("fullslots") /\ Typed /\ Awaited /\ Indexed
    BY DEF BuffersInv, SlotSems
  <2>2. DOMAIN sems = {"completed", "emptyslots", "fullslots"}
    BY <2>1 DEF Typed, SemNames, SlotSems
  <2>3. \A p \in Workers : p \notin ToSet(sems["completed"].waiting)
    BY <2>1, Names DEF Awaited, ToSet
  <2>4. /\ \A p \in Awaiting("emptyslots") : Takes(p) = "emptyslots" /\ pc[p] = "acquire"
        /\ \A p \in Awaiting("fullslots") : Takes(p) = "fullslots" /\ pc[p] = "acquire"
    BY <2>1 DEF SlotsOf
  <2>5. \A p \in Workers : \/ Takes(p) = "emptyslots" /\ Gives(p) = "fullslots"
                           \/ Takes(p) = "fullslots" /\ Gives(p) = "emptyslots"
    BY DEF Takes, Gives
  <2>6. \A p \in Workers :
          (HasSlot(p, "emptyslots") \/ HasSlot(p, "fullslots"))
            <=> /\ pc[p] \in {"acquire", "load", "insert", "remove", "release", "signal"}
                /\ p \notin Awaiting("emptyslots") /\ p \notin Awaiting("fullslots")
    BY <2>4, <2>5 DEF HasSlot, BeforeUse, AfterUse
  <2>7. Q3!InFlight = E \cup F
    BY <2>2, <2>3, <2>6 DEF Q3!InFlight, Holders, Awaiting, Q3!ToSet, ToSet, Q3!Workers, Workers
  <2>8. E \cap F = {} /\ E \in SUBSET Workers /\ F \in SUBSET Workers
    BY <2>5 DEF Holders, HasSlot, BeforeUse, AfterUse
  <2>9. /\ IsFiniteSet(E) /\ Cardinality(E) \in Nat /\ IsFiniteSet(F) /\ Cardinality(F) \in Nat
    BY <2>8, WorkersCounted, NumProcsAssumption
  <2>10. Cardinality(E \cup F) = Cardinality(E) + Cardinality(F)
    <3>1. Cardinality(E \cup F) = Cardinality(E) + Cardinality(F) - Cardinality(E \cap F)
      BY <2>9, FS_Union
    <3>2. Cardinality(E \cap F) = 0
      BY <2>8, FS_EmptySet
    <3> QED BY <2>9, <3>1, <3>2
  <2>11. Cardinality(Q3!InFlight) = Cardinality(E) + Cardinality(F)
    BY <2>7, <2>10
  <2>12. Q3!Cardinality(Q3!InFlight) = Cardinality(Q3!InFlight)
    BY DEF Q3!Cardinality, Cardinality
  <2>13. /\ sems["emptyslots"].count + Cardinality(E) = BUFFER_SIZE - (buf.head - buf.tail)
         /\ sems["fullslots"].count + Cardinality(F) = buf.head - buf.tail
         /\ sems["emptyslots"].count \in Nat /\ sems["fullslots"].count \in Nat
    BY <2>1 DEF SlotsOf, Slots
  <2>14. buf.head - buf.tail \in Int
    BY <2>1 DEF Indexed
  <2> HIDE DEF E, F
  <2> QED BY <2>9, <2>11, <2>12, <2>13, <2>14, SizesAssumption DEF Q3!SlotsMatch
<1> QED BY <1>1, BuffersSound, PTL

\* In all three programs makeprocs returns from its sem_wait after every process it
\* has created has signalled "completed", and none of them sleeps then.
THEOREM MainIsLast == MCSpec => []MainEndsLast
<1>1. BuffersInv => MainEndsLast
  <2> SUFFICES ASSUME BuffersInv, Ended(Main), NEW p \in Workers PROVE Ended(p)
    BY DEF MainEndsLast
  <2>1. Typed /\ Excluded /\ Awaited
    BY DEF BuffersInv
  <2>2. /\ pc[Main] = "ended" /\ \A s \in DOMAIN sems : ~Contains(sems[s].waiting, Main)
    BY DEF Ended, At, Asleep
  <2>3. "completed" \in DOMAIN sems
    BY <2>1 DEF Typed, SemNames
  <2>4. Contains(<<Main>>, Main)
    BY DEF Contains
  <2>5. /\ sems["completed"].waiting = <<>> /\ Cardinality(Done) = NumProcs
        /\ created = NumProcs
    BY <2>1, <2>2, <2>3, <2>4 DEF Awaited
  <2>6. Done \in SUBSET Workers /\ IsFiniteSet(Workers) /\ Cardinality(Workers) = NumProcs
    BY FS_Interval, NumProcsAssumption DEF Done, Workers
  <2>7. pc[p] = "ended" /\ p =< created
    <3>1. Done = Workers
      BY <2>5, <2>6, FS_Subset
    <3> QED BY <2>5, <3>1 DEF Done, Workers
  <2>8. ~Contains(lock.waiting, p)
    <3>1. p \notin ToSet(lock.waiting)
      BY <2>1, <2>7 DEF Excluded, Inside, InSection
    <3> QED BY <3>1 DEF Contains, ToSet
  <2>9. ASSUME NEW s \in DOMAIN sems PROVE ~Contains(sems[s].waiting, p)
    <3>1. CASE s = "completed"
      BY <2>5, <3>1 DEF Contains
    <3>2. CASE s # "completed"
      <4>1. SlotsOf(s)
        BY <2>1, <2>9, <3>2 DEF BuffersInv, Typed, SemNames
      <4>2. p \notin ToSet(sems[s].waiting)
        BY <2>7, <4>1 DEF SlotsOf, Awaiting
      <4> QED BY <4>2 DEF Contains, ToSet
    <3> QED BY <3>1, <3>2
  <2> QED BY <2>1, <2>7, <2>8, <2>9 DEF Ended, At, Asleep, Typed
<1> QED BY <1>1, BuffersSound, PTL

-----------------------------------------------------------------------------
\* The shared memory as a queue.

\* The cells of c from t up to h.
Slice(c, t, h) == [j \in 1 .. h - t |-> c[t + j - 1]]

\* What is in the buffer after one more item was put in, and one taken out.
LEMMA OneMore ==
  ASSUME NEW c, NEW N \in Nat, DOMAIN c = 0 .. N, NEW t \in Nat, NEW h \in 0 .. N, t =< h, NEW x
  PROVE  Slice([c EXCEPT ![h] = x], t, h + 1) = Append(Slice(c, t, h), x)
<1> DEFINE S == {c[k] : k \in 0 .. N} \cup {x}
           q == [j \in 1 .. h - t |-> c[t + j - 1]]
           d == [c EXCEPT ![h] = x]
           r == [j \in 1 .. h + 1 - t |-> d[t + j - 1]]
<1>1. \A j \in 1 .. h - t : t + j - 1 \in 0 .. N /\ t + j - 1 # h
  OBVIOUS
<1>2. h - t \in Nat
  OBVIOUS
<1>3. q \in Seq(S)
  <2>1. q \in [1 .. h - t -> S]
    BY <1>1
  <2> QED BY <1>2, <2>1
<1>4. Len(q) = h - t
  BY <1>2
<1>5. /\ Append(q, x) \in Seq(S) /\ Len(Append(q, x)) = h - t + 1
      /\ \A j \in 1 .. h - t : Append(q, x)[j] = q[j]
      /\ Append(q, x)[h - t + 1] = x
  <2>1. x \in S
    OBVIOUS
  <2> HIDE DEF q, S
  <2> QED BY <1>3, <1>4, <2>1, AppendProperties
<1>6. d[h] = x /\ \A k \in 0 .. N : k # h => d[k] = c[k]
  OBVIOUS
<1>7. \A j \in 1 .. h - t + 1 : r[j] = Append(q, x)[j]
  <2> SUFFICES ASSUME NEW j \in 1 .. h - t + 1 PROVE r[j] = Append(q, x)[j]
    OBVIOUS
  <2> HIDE DEF d, q
  <2>1. CASE j = h - t + 1
    <3>1. t + j - 1 = h
      BY <2>1
    <3>2. r[j] = d[t + j - 1]
      OBVIOUS
    <3> QED BY <1>5, <1>6, <2>1, <3>1, <3>2
  <2>2. CASE j # h - t + 1
    <3>1. j \in 1 .. h - t
      BY <2>2
    <3>2. q[j] = c[t + j - 1]
      BY <3>1 DEF q
    <3>3. r[j] = d[t + j - 1] /\ d[t + j - 1] = c[t + j - 1]
      BY <1>1, <1>6, <3>1
    <3> QED BY <1>5, <3>1, <3>2, <3>3
  <2> QED BY <2>1, <2>2
<1>8. Append(q, x) = [j \in 1 .. h - t + 1 |-> Append(q, x)[j]]
  <2> HIDE DEF q, S
  <2>1. Append(q, x) \in [1 .. h - t + 1 -> S]
    BY <1>5, LenProperties
  <2> QED BY <2>1
<1>9. h + 1 - t = h - t + 1
  OBVIOUS
<1>10. r = [j \in 1 .. h - t + 1 |-> Append(q, x)[j]]
  BY <1>7, <1>9
<1> HIDE DEF r, q
<1>11. r = Append(q, x)
  BY <1>8, <1>10
<1> QED BY <1>11 DEF r, q, Slice

LEMMA OneLess ==
  ASSUME NEW c, NEW N \in Nat, DOMAIN c = 0 .. N, NEW t \in Nat, NEW h \in Nat, t < h, h =< N + 1
  PROVE  /\ Slice(c, t, h) # <<>> /\ Head(Slice(c, t, h)) = c[t]
         /\ Slice(c, t + 1, h) = Tail(Slice(c, t, h))
<1> DEFINE S == {c[k] : k \in 0 .. N}
           q == [j \in 1 .. h - t |-> c[t + j - 1]]
           r == [j \in 1 .. h - (t + 1) |-> c[t + 1 + j - 1]]
<1>1. h - t \in Nat \ {0} /\ \A j \in 1 .. h - t : t + j - 1 \in 0 .. N
  OBVIOUS
<1>2. q \in Seq(S) /\ Len(q) = h - t
  <2>1. q \in [1 .. h - t -> S]
    BY <1>1
  <2> QED BY <1>1, <2>1, SMTT(30)
<1>3. q[1] = c[t]
  BY <1>1
<1>4. \A j \in 1 .. h - t - 1 : q[j + 1] = c[t + 1 + j - 1]
  <2> SUFFICES ASSUME NEW j \in 1 .. h - t - 1 PROVE q[j + 1] = c[t + 1 + j - 1]
    OBVIOUS
  <2>1. j + 1 \in 1 .. h - t /\ t + (j + 1) - 1 = t + 1 + j - 1
    OBVIOUS
  <2> QED BY <2>1
<1>5. h - (t + 1) = h - t - 1
  OBVIOUS
<1>6. r = [j \in 1 .. h - t - 1 |-> q[j + 1]]
  BY <1>4, <1>5
<1> HIDE DEF q, r, S
<1>7. /\ q # <<>> /\ Head(q) = q[1] /\ Tail(q) \in Seq(S) /\ Len(Tail(q)) = h - t - 1
      /\ \A j \in 1 .. h - t - 1 : Tail(q)[j] = q[j + 1]
  BY <1>1, <1>2, HeadTailProperties
<1>8. Tail(q) = [j \in 1 .. h - t - 1 |-> Tail(q)[j]]
  <2>1. Tail(q) \in [1 .. h - t - 1 -> S]
    BY <1>7, LenProperties
  <2> QED BY <2>1
<1>9. r = Tail(q)
  BY <1>6, <1>7, <1>8
<1> QED BY <1>3, <1>7, <1>9 DEF q, r, Slice

\* The test for a full buffer, while the indices are small.
LEMMA Wraps ==
  ASSUME NEW B \in Nat \ {0}, NEW t \in 0 .. B - 1
  PROVE  (t + B) % B = t
OBVIOUS

LEMMA RoomKept ==
  ASSUME FewItems, BuffersInv, OneSlotEmpty, [MCNext]_<<vars, program>>
  PROVE  FewItems' /\ OneSlotEmpty'
<1>0. FewItems'
  <2>1. UNCHANGED program
    BY StepsAre
  <2> QED BY <2>1 DEF FewItems, Total, Producers, Workers
<1> SUFFICES ASSUME program' = "q2"
             PROVE  /\ buf'.head - buf'.tail < BUFFER_SIZE
                    /\ \A q \in Workers : pc'[q] = "insert" => buf'.head - buf'.tail < BUFFER_SIZE - 1
  BY <1>0 DEF OneSlotEmpty
<1>1. /\ Typed /\ Excluded /\ Indexed /\ BUFFER_SIZE \in Nat \ {0}
      /\ buf.head \in Nat /\ buf.tail \in 0 .. buf.head
  BY SizesAssumption DEF BuffersInv, Indexed
<1>2. CASE UNCHANGED <<vars, program>>
  BY <1>2 DEF OneSlotEmpty, vars, appVars, bufVars
<1>3. CASE MCNext
  <2>1. /\ program = "q2" /\ (MainTurn \/ \E p \in Workers : Turn(p))
    BY <1>3, StepsAre
  <2>2. /\ buf.head - buf.tail < BUFFER_SIZE
        /\ \A q \in Workers : pc[q] = "insert" => buf.head - buf.tail < BUFFER_SIZE - 1
    BY <2>1 DEF OneSlotEmpty
  <2>3. CASE MainTurn
    <3>1. UNCHANGED buf /\ \E w \in MainSteps : Goto(Main, w)
      BY <2>3, MainMoves DEF MainSteps, bufVars
    <3>2. \A q \in Workers : pc'[q] = pc[q]
      BY <1>1, <3>1, Moved, Names
    <3> QED BY <2>2, <3>1, <3>2
  <2>4. ASSUME NEW p \in Workers, Turn(p)
        PROVE  /\ buf'.head - buf'.tail < BUFFER_SIZE
               /\ \A q \in Workers : pc'[q] = "insert" => buf'.head - buf'.tail < BUFFER_SIZE - 1
    <3>1. CASE UsesIndex(p)
      <4>1. /\ pc[p] \in {"insert", "remove"} /\ lock.pid = p
            /\ \/ pc[p] = "insert" /\ buf'.head = buf.head + 1 /\ buf'.tail = buf.tail
               \/ pc[p] = "remove" /\ buf'.head = buf.head /\ buf'.tail = buf.tail + 1
        BY <3>1, BufferUsed
      <4>2. pc'[p] = "release" /\ \A q \in Workers \ {p} : pc'[q] = pc[q]
        BY <1>1, <3>1, Moved, Names DEF UsesIndex, WorkerSteps, AfterUse
      <4>3. \A q \in Workers : pc'[q] # "insert"
        BY <1>1, <4>1, <4>2 DEF Excluded
      <4>4. buf'.head - buf'.tail < BUFFER_SIZE
        BY <1>1, <2>2, <4>1
      <4> QED BY <4>3, <4>4
    <3>2. CASE LoadsIndex(p) /\ p \in Producers
      <4>1. UNCHANGED buf /\ Goto(p, "insert") /\ At(p, "test") /\ ~Full
        BY <2>1, <3>2, Pairs DEF LoadsIndex, LoadHead
      <4>2. curr_idx[p] < ITEM_SIZE /\ curr_idx \in [Workers -> 0 .. ITEM_SIZE]
        BY <1>1, <4>1 DEF At, Indexed, InTurn
      <4>3. buf.head < Total /\ Total \in Nat
        BY <1>1, <3>2, <4>2, ItemsCounted DEF Indexed
      <4>4. buf.head - buf.tail # BUFFER_SIZE - 1
        <5> SUFFICES ASSUME buf.head - buf.tail = BUFFER_SIZE - 1 PROVE Full
          BY <4>1
        <5>1. buf.head + 1 = buf.tail + BUFFER_SIZE /\ buf.tail \in 0 .. BUFFER_SIZE - 1
          BY <1>1, <2>1, <4>3 DEF FewItems
        <5>2. (buf.tail + BUFFER_SIZE) % BUFFER_SIZE = buf.tail
          BY <1>1, <5>1, Wraps
        <5> QED BY <5>1, <5>2 DEF Full
      <4>5. buf.head - buf.tail < BUFFER_SIZE - 1
        BY <1>1, <2>2, <4>4
      <4> QED BY <1>1, <4>1, <4>5
    <3>3. CASE ~UsesIndex(p) /\ ~(LoadsIndex(p) /\ p \in Producers)
      <4>1. UNCHANGED buf
        BY <2>4, <3>3 DEF Turn, Ends, TakesSlot, AsksForLock, LoadsIndex, LoadTail, GivesUp,
                          FreesLock, GivesSlot, bufVars
      <4>2. PICK w \in WorkerSteps \ {"insert"} : Goto(p, w)
        BY <2>4, <3>3 DEF Turn, Ends, SignalCompletion, TakesSlot, AsksForLock, LoadsIndex, GivesUp,
                          FreesLock, GivesSlot, Again, WorkerSteps, InTurn, BeforeUse, AfterUse
      <4>3. pc'[p] = w /\ \A q \in Workers \ {p} : pc'[q] = pc[q]
        BY <1>1, <4>2, Moved, Names
      <4> QED BY <2>2, <4>1, <4>3
    <3> QED BY <3>1, <3>2, <3>3
  <2> QED BY <2>1, <2>3, <2>4
<1> QED BY <1>2, <1>3

\* A step of a program is a step of the queue, or changes nothing of it.
LEMMA BufferStep ==
  ASSUME BuffersInv, OneSlotEmpty, MCNext
  PROVE  [Buffer!Next]_<<IF program = "q2" THEN BUFFER_SIZE - 1 ELSE BUFFER_SIZE,
                         ItemsInBuffer, [p \in Producers |-> curr_idx[p]], removed>>
<1> DEFINE capacity == IF program = "q2" THEN BUFFER_SIZE - 1 ELSE BUFFER_SIZE
           inserted == [p \in Producers |-> curr_idx[p]]
<1>1. UNCHANGED program /\ (MainTurn \/ \E p \in Workers : Turn(p))
  BY StepsAre
<1>2. /\ Typed /\ Excluded /\ Indexed
      /\ buf.head \in Nat /\ buf.tail \in 0 .. buf.head
      /\ curr_idx \in [Workers -> 0 .. ITEM_SIZE]
  BY DEF BuffersInv, Indexed
<1>3. Producers' = Producers /\ UNCHANGED capacity
  BY <1>1 DEF Producers, Workers
<1>4. DOMAIN buf.char_buf = 0 .. Total /\ Total \in Nat /\ buf.head =< Total
  <2>1. DOMAIN buf.char_buf = Indices
    <3> DEFINE x == [k \in Indices |-> buf.char_buf[k]]
    <3>1. buf = [head |-> buf.head, tail |-> buf.tail, char_buf |-> x]
      BY <1>2 DEF Indexed
    <3> HIDE DEF x
    <3>2. buf.char_buf = x
      BY <3>1
    <3> QED BY <3>2 DEF x
  <2>2. buf.head =< Total /\ Total \in Nat
    BY <1>2, ItemsCounted DEF Indexed
  <2> QED BY <2>1, <2>2 DEF Indices
<1>5. CASE UNCHANGED <<buf, curr_idx, removed>>
  <2>1. UNCHANGED ItemsInBuffer /\ UNCHANGED inserted
    BY <1>3, <1>5 DEF ItemsInBuffer
  <2> QED BY <1>3, <1>5, <2>1
<1>6. ASSUME NEW p \in Workers, UsesIndex(p) PROVE Buffer!Next
  <2> DEFINE t == buf.tail
             h == buf.head
             c == buf.char_buf
             x == Item(p, curr_idx[p])
  <2>1. CASE pc[p] = "insert"
    <3>1. /\ p \in Producers /\ curr_idx' = [curr_idx EXCEPT ![p] = @ + 1] /\ h < Total
          /\ buf' = [head |-> h + 1, tail |-> t, char_buf |-> [c EXCEPT ![h] = x]]
          /\ UNCHANGED removed
      BY <2>1, <1>6, BufferUsed
    <3>2. h - t < capacity
      <4>1. CASE program = "q2"
        BY <2>1, <4>1 DEF OneSlotEmpty
      <4>2. CASE program = "q3"
        <5>1. SlotsOf("emptyslots") /\ "emptyslots" \in SlotSems
          BY <4>2 DEF BuffersInv, SlotSems
        <5>2. Takes(p) = "emptyslots" /\ p \notin Awaiting("emptyslots")
          BY <2>1, <3>1, <5>1 DEF Takes, SlotsOf
        <5>3. HasSlot(p, "emptyslots")
          BY <2>1, <5>2 DEF HasSlot, BeforeUse
        <5>4. Slots("emptyslots") > 0
          BY <1>2, <5>1, <5>3, SlotThere
        <5> QED BY <1>2, <4>2, <5>4, SizesAssumption DEF Slots
      <4>3. program # "example"
        BY <2>1 DEF BuffersInv, OnlyEnd
      <4> QED BY <1>2, <4>1, <4>2, <4>3 DEF Typed
    <3>3. Len(ItemsInBuffer) = h - t
      <4>1. h - t \in Nat
        BY <1>2
      <4> QED BY <4>1 DEF ItemsInBuffer
    <3>4. ItemsInBuffer' = Append(ItemsInBuffer, x)
      <4> DEFINE d == [c EXCEPT ![h] = x]
      <4>1. buf' = [head |-> h + 1, tail |-> t, char_buf |-> d]
        BY <3>1
      <4>2. /\ t \in Nat /\ h \in 0 .. Total /\ t =< h
            /\ DOMAIN c = 0 .. Total /\ Total \in Nat
        BY <1>2, <3>1, <1>4
      <4>3. ItemsInBuffer = Slice(c, t, h)
        BY DEF ItemsInBuffer, Slice
      <4> HIDE DEF d
      <4>4. buf'.head = h + 1 /\ buf'.tail = t /\ buf'.char_buf = d
        BY <4>1
      <4>5. ItemsInBuffer' = Slice(d, t, h + 1)
        BY <4>2, <4>4 DEF ItemsInBuffer, Slice
      <4> HIDE DEF t, h, c, x
      <4>6. Slice(d, t, h + 1) = Append(Slice(c, t, h), x)
        BY <4>2, OneMore, ZenonT(30) DEF d
      <4> QED BY <4>3, <4>5, <4>6
    <3>5. inserted' = [inserted EXCEPT ![p] = @ + 1] /\ x = <<p, inserted[p]>>
      <4>1. Producers \subseteq Workers
        BY Pairs
      <4> QED BY <1>2, <1>3, <3>1, <4>1 DEF Item
    <3>6. Buffer!Insert(p)
      BY <3>1, <3>2, <3>3, <3>4, <3>5 DEF Buffer!Insert
    <3> QED BY <1>3, <3>1, <3>6 DEF Buffer!Next
  <2>2. CASE pc[p] = "remove"
    <3>1. /\ p \in Consumers /\ curr_idx' = [curr_idx EXCEPT ![p] = @ + 1] /\ t < h
          /\ buf' = [head |-> h, tail |-> t + 1, char_buf |-> c]
          /\ removed' = Append(removed, c[t])
      BY <2>2, <1>6, BufferUsed
    <3>2. buf'.head = h /\ buf'.tail = t + 1 /\ buf'.char_buf = c
      BY <3>1
    <3>3. /\ ItemsInBuffer # <<>> /\ Head(ItemsInBuffer) = c[t]
          /\ ItemsInBuffer' = Tail(ItemsInBuffer)
      <4>1. t \in Nat /\ h \in Nat /\ h =< Total + 1
        BY <1>2, <1>4
      <4>2. ItemsInBuffer' = Slice(c, t + 1, h)
        BY <3>2, <4>1 DEF ItemsInBuffer, Slice
      <4>3. ItemsInBuffer = Slice(c, t, h)
        BY DEF ItemsInBuffer, Slice
      <4>4. DOMAIN c = 0 .. Total /\ t < h /\ Total \in Nat
        BY <1>4, <3>1
      <4> HIDE DEF t, h, c
      <4>5. /\ Slice(c, t, h) # <<>> /\ Head(Slice(c, t, h)) = c[t]
            /\ Slice(c, t + 1, h) = Tail(Slice(c, t, h))
        BY <4>1, <4>4, OneLess, ZenonT(30)
      <4> QED BY <4>2, <4>3, <4>5
    <3>4. inserted' = inserted
      <4>1. \A q \in Producers : curr_idx'[q] = curr_idx[q]
        BY <1>2, <3>1, Pairs
      <4> QED BY <1>3, <4>1
    <3>5. Buffer!Remove
      BY <3>1, <3>3, <3>4 DEF Buffer!Remove
    <3> QED BY <1>3, <3>5 DEF Buffer!Next
  <2> QED BY <1>6, <2>1, <2>2, BufferUsed
<1>7. CASE MainTurn
  BY <1>5, <1>7, MainMoves DEF bufVars
<1>8. ASSUME NEW p \in Workers, Turn(p), ~UsesIndex(p) PROVE UNCHANGED <<buf, curr_idx, removed>>
  BY <1>8 DEF Turn, Ends, TakesSlot, AsksForLock, LoadsIndex, LoadHead, LoadTail, GivesUp,
              FreesLock, GivesSlot, bufVars
<1> QED BY <1>1, <1>5, <1>6, <1>7, <1>8

\* q2, q3 and the example implement the bounded buffer: however their processes are
\* preempted between loading head or tail and using it, each step inserts a whole
\* item at the end, removes the first, or does nothing.  Only q2 needs a bound on
\* the number of items: 12 pairs with 10 items each do fit its 64 places.
THEOREM BufferImplemented == MCSpec /\ FewItems => ImplementsBuffer
<1>1. MCInit => OneSlotEmpty /\ Buffer!Init
  <2> SUFFICES ASSUME MCInit PROVE OneSlotEmpty /\ Buffer!Init
    OBVIOUS
  <2>1. /\ InitBuffer /\ \E start \in {"acquire", "wait", "complete"} :
             pc = [p \in Procs |-> IF p = Main THEN "create" ELSE start]
    BY Started
  <2>2. buf.head = 0 /\ buf.tail = 0 /\ curr_idx = [p \in Workers |-> 0] /\ removed = <<>>
    BY <2>1 DEF InitBuffer
  <2>3. \A p \in Workers : pc[p] # "insert"
    BY <2>1, Names
  <2>4. OneSlotEmpty
    BY <2>2, <2>3, SizesAssumption DEF OneSlotEmpty
  <2>5. ItemsInBuffer = <<>>
    BY <2>2 DEF ItemsInBuffer
  <2>6. [p \in Producers |-> curr_idx[p]] = [p \in Producers |-> 0]
    BY <2>2, Pairs
  <2> QED BY <2>2, <2>4, <2>5, <2>6 DEF Buffer!Init
<1>2. FewItems /\ BuffersInv /\ OneSlotEmpty /\ [MCNext]_<<vars, program>>
        => FewItems' /\ OneSlotEmpty'
  BY RoomKept
<1>3. BuffersInv /\ OneSlotEmpty /\ [MCNext]_<<vars, program>>
        => [Buffer!Next]_<<IF program = "q2" THEN BUFFER_SIZE - 1 ELSE BUFFER_SIZE,
                           ItemsInBuffer, [p \in Producers |-> curr_idx[p]], removed>>
  <2>1. ASSUME UNCHANGED <<vars, program>>
        PROVE  UNCHANGED <<IF program = "q2" THEN BUFFER_SIZE - 1 ELSE BUFFER_SIZE,
                           ItemsInBuffer, [p \in Producers |-> curr_idx[p]], removed>>
    BY <2>1 DEF vars, bufVars, ItemsInBuffer, Producers, Workers
  <2> QED BY <2>1, BufferStep
<1> QED BY <1>1, <1>2, <1>3, BuffersSound, PTL DEF MCSpec, ImplementsBuffer, Buffer!Spec
=============================================================================
