----------------------------- MODULE AppProcess -----------------------------
(***************************************************************************)
(* What the lab's programs have in common (src/apps/q2 to q5).  A first    *)
(* process creates NumProcs others, which share a page and one lock, and   *)
(* waits on the semaphore "completed" until each of them has signalled.    *)
(*                                                                         *)
(* Any process that is not asleep may take the next step: the kernel       *)
(* preempts them anywhere, and EveryReadyProcessRuns (MCInterrupts) is the *)
(* fairness they have.  A kernel call is one step.  It leaves the program  *)
(* counter behind the call; a process that stands in a waiting queue       *)
(* cannot go on from there until it is woken.                              *)
(***************************************************************************)
EXTENDS Primitives

CONSTANT NumProcs

ASSUME NumProcsAssumption == NumProcs \in Nat \ {0}

VARIABLES lock,      \* the lock that protects the shared page
          sems,      \* the semaphores, by name
          conds,     \* the waiting queues of the condition variables, by name
          created,   \* how many processes the first one has created
          pc         \* what each process does next

appVars == <<lock, sems, conds, created, pc>>

Main    == 0
Workers == 1 .. NumProcs
Procs   == {Main} \cup Workers

NewSem(count) == [count |-> count, waiting |-> <<>>]

\* Mutant: the first process counts one process too few.
CompletedTooFew == NewSem(-(NumProcs - 2))

\* The semaphore is one short of positive when all but one have signalled.
Completed == NewSem(-(NumProcs - 1))

InitApp(otherSems, condNames, start) ==
  /\ lock    = [pid |-> NoOwner, waiting |-> <<>>]
  /\ sems    = [s \in {"completed"} \cup DOMAIN otherSems |->
                  IF s = "completed" THEN Completed ELSE otherSems[s]]
  /\ conds   = [c \in condNames |-> <<>>]
  /\ created = 0
  /\ pc      = [p \in Procs |-> IF p = Main THEN "create" ELSE start]

-----------------------------------------------------------------------------
Asleep(p) ==
  \/ Contains(lock.waiting, p)
  \/ \E s \in DOMAIN sems : Contains(sems[s].waiting, p)
  \/ \E c \in DOMAIN conds : Contains(conds[c], p)

At(p, where) == pc[p] = where /\ p <= created /\ ~Asleep(p)
Goto(p, to)  == pc' = [pc EXCEPT ![p] = to]

Ended(p) == At(p, "ended")

\* lock_acquire and lock_release
Acquire(p)  == lock' = LockAcquire(lock, p)
Release(p)  == lock' = LockRelease(lock)

\* sem_wait and sem_signal
Wait(p, s)   == sems' = [sems EXCEPT ![s] = SemWait(@, p)]
Signal(s)    == sems' = [sems EXCEPT ![s] = SemSignal(@)]

\* cond_wait releases the lock and sleeps; once woken, the process asks for the
\* lock again before the call returns (CondResume).  cond_signal wakes the first.
CondWait(p, c) ==
  /\ conds' = [conds EXCEPT ![c] = Append(@, p)]
  /\ Release(p)
CondResume(p)  == Acquire(p)
CondSignal(c)  == conds' = [conds EXCEPT ![c] = Rest(@)]

-----------------------------------------------------------------------------
\* The first process.
CreateNext ==
  /\ At(Main, "create") /\ created < NumProcs
  /\ created' = created + 1
  /\ Goto(Main, IF created + 1 = NumProcs THEN "wait" ELSE "create")
  /\ UNCHANGED <<lock, sems, conds>>

FinalWait ==
  /\ At(Main, "wait")
  /\ Wait(Main, "completed")
  /\ Goto(Main, "ended")
  /\ UNCHANGED <<lock, conds, created>>

MainStep == CreateNext \/ FinalWait

\* The last step of every other process, taken at "where".
SignalCompletion(p, where) ==
  /\ At(p, where)
  /\ Signal("completed")
  /\ Goto(p, "ended")
  /\ UNCHANGED <<lock, conds, created>>

-----------------------------------------------------------------------------
\* The first process is the last to end: "wait until all spawned processes have
\* finished" (makeprocs.c).
MainEndsLast == Ended(Main) => \A p \in Workers : Ended(p)

\* All processes end, and the final sem_wait returns.
AllEnd == <>[](\A p \in Procs : Ended(p))
=============================================================================
