---------------------------- MODULE Q3Semaphores ----------------------------
(***************************************************************************)
(* src/apps/q3: producers and consumers that count slots with semaphores.  *)
(***************************************************************************)
EXTENDS CircularBuffer

Init ==
  /\ InitBuffer
  /\ InitApp([fullslots |-> NewSem(0), emptyslots |-> NewSem(BUFFER_SIZE)], {}, "wait")

\* Mutant: a producer does not wait for an empty slot.
WaitForEmptySlotBarges(p) ==
  /\ At(p, "wait")
  /\ Goto(p, "acquire")
  /\ UNCHANGED <<lock, sems, conds, created, bufVars>>

WaitForEmptySlot(p) ==
  /\ At(p, "wait")
  /\ Wait(p, "emptyslots")
  /\ Goto(p, "acquire")
  /\ UNCHANGED <<lock, conds, created, bufVars>>

WaitForFullSlot(p) ==
  /\ At(p, "wait")
  /\ Wait(p, "fullslots")
  /\ Goto(p, "acquire")
  /\ UNCHANGED <<lock, conds, created, bufVars>>

AcquireBuffer(p) ==
  /\ At(p, "acquire")
  /\ Acquire(p)
  /\ Goto(p, "load")
  /\ UNCHANGED <<sems, conds, created, bufVars>>

LoadIndex(p) ==
  /\ At(p, "load")
  /\ \/ p \in Producers /\ LoadHead(p) /\ Goto(p, "insert")
     \/ p \in Consumers /\ LoadTail(p) /\ Goto(p, "remove")
  /\ UNCHANGED <<lock, sems, conds, created>>

UseIndex(p) ==
  /\ \/ At(p, "insert") /\ InsertItem(p)
     \/ At(p, "remove") /\ RemoveItem(p)
  /\ Goto(p, "release")
  /\ UNCHANGED <<lock, sems, conds, created>>

ReleaseBuffer(p) ==
  /\ At(p, "release")
  /\ Release(p)
  /\ Goto(p, "signal")
  /\ UNCHANGED <<sems, conds, created, bufVars>>

SignalSlot(p) ==
  /\ At(p, "signal")
  /\ Signal(IF p \in Producers THEN "fullslots" ELSE "emptyslots")
  /\ Again(p, "wait")
  /\ UNCHANGED <<lock, conds, created, bufVars>>

Worker(p) ==
  \/ p \in Producers /\ WaitForEmptySlot(p)
  \/ p \in Consumers /\ WaitForFullSlot(p)
  \/ AcquireBuffer(p) \/ LoadIndex(p) \/ UseIndex(p) \/ ReleaseBuffer(p) \/ SignalSlot(p)
  \/ SignalCompletion(p, "complete") /\ UNCHANGED bufVars

First == MainStep /\ UNCHANGED bufVars

Next == First \/ \E p \in Workers : Worker(p)

\* Nobody polls: it is enough that some process runs.
Spec == Init /\ [][Next]_vars /\ WF_vars(Next)

-----------------------------------------------------------------------------
\* The processes that hold a slot taken from one semaphore and not yet given to
\* the other, and the two counts, make up the buffer: no slot is lost, however
\* the processes that sleep on the semaphores are woken.
InFlight ==
  {p \in Workers :
     /\ pc[p] \in {"acquire", "load", "insert", "remove", "release", "signal"}
     /\ \A s \in DOMAIN sems : p \notin ToSet(sems[s].waiting)}
SlotsMatch ==
  sems["emptyslots"].count + sems["fullslots"].count + Cardinality(InFlight) = BUFFER_SIZE
=============================================================================
