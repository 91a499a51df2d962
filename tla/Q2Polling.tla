----------------------------- MODULE Q2Polling -----------------------------
(***************************************************************************)
(* src/apps/q2: producers and consumers that poll the buffer under the     *)
(* lock until there is room, or an item.                                   *)
(***************************************************************************)
EXTENDS CircularBuffer

Init == InitBuffer /\ InitApp(<<>>, {}, "acquire")

AcquireBuffer(p) ==
  /\ At(p, "acquire")
  /\ Acquire(p)
  /\ Goto(p, "test")
  /\ UNCHANGED <<sems, conds, created, bufVars>>

\* Mutant: the buffer may be filled to its last slot.
TestIgnoresFull(p) ==
  /\ At(p, "test")
  /\ \/ p \in Producers /\ LoadHead(p) /\ Goto(p, "insert")
     \/ p \in Consumers /\ ~Empty /\ LoadTail(p) /\ Goto(p, "remove")
     \/ p \in Consumers /\ Empty /\ Goto(p, "release") /\ UNCHANGED bufVars
  /\ UNCHANGED <<lock, sems, conds, created>>

\* A process that finds no room, or no item, releases the lock at once.
Test(p) ==
  /\ At(p, "test")
  /\ \/ p \in Producers /\ ~Full /\ LoadHead(p) /\ Goto(p, "insert")
     \/ p \in Consumers /\ ~Empty /\ LoadTail(p) /\ Goto(p, "remove")
     \/ /\ IF p \in Producers THEN Full ELSE Empty
        /\ Goto(p, "release")
        /\ UNCHANGED bufVars
  /\ UNCHANGED <<lock, sems, conds, created>>

UseIndex(p) ==
  /\ \/ At(p, "insert") /\ InsertItem(p)
     \/ At(p, "remove") /\ RemoveItem(p)
  /\ Goto(p, "release")
  /\ UNCHANGED <<lock, sems, conds, created>>

ReleaseBuffer(p) ==
  /\ At(p, "release")
  /\ Release(p)
  /\ Again(p, "acquire")
  /\ UNCHANGED <<sems, conds, created, bufVars>>

Worker(p) ==
  \/ AcquireBuffer(p) \/ Test(p) \/ UseIndex(p) \/ ReleaseBuffer(p)
  \/ SignalCompletion(p, "complete") /\ UNCHANGED bufVars

First == MainStep /\ UNCHANGED bufVars
=============================================================================
