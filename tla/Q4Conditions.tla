---------------------------- MODULE Q4Conditions ----------------------------
(***************************************************************************)
(* src/apps/q4: producers and consumers that wait on condition variables   *)
(* for room and for items.                                                 *)
(***************************************************************************)
EXTENDS CircularBuffer

Init == InitBuffer /\ InitApp(<<>>, {"fullslots", "emptyslots"}, "acquire")

AcquireBuffer(p) ==
  /\ At(p, "acquire")
  /\ Acquire(p)
  /\ Goto(p, "test")
  /\ UNCHANGED <<sems, conds, created, bufVars>>

\* The test is an if, not a while: it is not repeated after the wait.
Test(p) ==
  /\ At(p, "test")
  /\ IF p \in Producers THEN ~Full ELSE ~Empty
  /\ Goto(p, "load")
  /\ UNCHANGED <<lock, sems, conds, created, bufVars>>

WaitForSlot(p) ==
  /\ At(p, "test")
  /\ IF p \in Producers THEN Full /\ CondWait(p, "emptyslots")
                        ELSE Empty /\ CondWait(p, "fullslots")
  /\ Goto(p, "woken")
  /\ UNCHANGED <<sems, created, bufVars>>

WokenUp(p) ==
  /\ At(p, "woken")
  /\ CondResume(p)
  /\ Goto(p, "load")
  /\ UNCHANGED <<sems, conds, created, bufVars>>

LoadIndex(p) ==
  /\ At(p, "load")
  /\ \/ p \in Producers /\ LoadHead(p) /\ Goto(p, "insert")
     \/ p \in Consumers /\ LoadTail(p) /\ Goto(p, "remove")
  /\ UNCHANGED <<lock, sems, conds, created>>

UseIndex(p) ==
  /\ \/ At(p, "insert") /\ InsertItem(p) /\ Goto(p, "release")
     \/ At(p, "remove") /\ RemoveItem(p) /\ Goto(p, "signal")
  /\ UNCHANGED <<lock, sems, conds, created>>

\* Only the consumers signal; nobody ever signals fullslots.
SignalEmptySlot(p) ==
  /\ At(p, "signal")
  /\ CondSignal("emptyslots")
  /\ Goto(p, "release")
  /\ UNCHANGED <<lock, sems, created, bufVars>>

ReleaseBuffer(p) ==
  /\ At(p, "release")
  /\ Release(p)
  /\ Again(p, "acquire")
  /\ UNCHANGED <<sems, conds, created, bufVars>>

Worker(p) ==
  \/ AcquireBuffer(p) \/ Test(p) \/ WaitForSlot(p) \/ WokenUp(p) \/ LoadIndex(p)
  \/ UseIndex(p) \/ SignalEmptySlot(p) \/ ReleaseBuffer(p)
  \/ SignalCompletion(p, "complete") /\ UNCHANGED bufVars

First == MainStep /\ UNCHANGED bufVars

Next == First \/ \E p \in Workers : Worker(p)

Spec ==
  Init /\ [][Next]_vars /\ WF_vars(First) /\ \A p \in Workers : WF_vars(Worker(p))

-----------------------------------------------------------------------------
\* A consumer that waits for items gets one, as it does in results/q4_res
\* ("Consumer 29 waits for items", then "Consumer 29 removed: 8").
WaitingConsumerServed ==
  \A p \in Consumers : pc[p] = "woken" ~> pc[p] = "remove"
=============================================================================
