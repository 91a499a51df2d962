-------------------------------- MODULE Synch --------------------------------
(***************************************************************************)
(* The kernel as its processes use it: semaphores, locks and condition     *)
(* variables (src/os/synch.c) on top of the process table, reached through *)
(* the traps of src/os/traps.c.                                            *)
(*                                                                         *)
(* A process is either in user mode, where it may be preempted and may     *)
(* make any call with any handle, or asleep inside a kernel call.  A call  *)
(* runs with interrupts off, so one step is a whole handler, up to the     *)
(* point where it sleeps; what it does once it is woken and scheduled      *)
(* again is another step, which the process takes before anything else.    *)
(* A call that fails its checks changes nothing and is a stuttering step.  *)
(***************************************************************************)
EXTENDS ProcessTable, Primitives

CONSTANTS MAX_SEMS, MAX_LOCKS, MAX_CONDS,   \* sizes of the pools
          QUEUE_MAX_LINKS,                  \* size of the pool of links
          SemCounts,                        \* initial values given to sem_create
          MaxCount                          \* bound of the model: the code counts on

ASSUME PoolsAssumption == {MAX_SEMS, MAX_LOCKS, MAX_CONDS} \subseteq Nat \ {0}
ASSUME LinksAssumption == QUEUE_MAX_LINKS \in Nat /\ QUEUE_MAX_LINKS >= 2 * PROCESS_MAX_PROCS
ASSUME CountsAssumption == MaxCount \in Int /\ SemCounts \subseteq Int

VARIABLES table,      \* the process table
          sems,       \* the semaphores, by handle
          locks,      \* the locks
          conds,      \* the condition variables
          call,       \* the kernel call each process sleeps in
          freeLinks   \* links left in the pool of queue.c

vars == <<table, sems, locks, conds, call, freeLinks>>

Sems  == 0 .. (MAX_SEMS - 1)
Locks == 0 .. (MAX_LOCKS - 1)
Conds == 0 .. (MAX_CONDS - 1)

NoCall == [op |-> "none", on |-> -1]
Calls  == {NoCall} \cup [op : {"SemWait"}, on : Sems] \cup [op : {"LockAcquire"}, on : Locks]
                   \cup [op : {"CondWait", "CondReacquire"}, on : Conds]

\* The pools are static, hence zero: a lock never created has pid 0.  Each
\* process table entry has a link of its own from the start.
Init ==
  /\ table = ProcessFork(ProcessModuleInit, TRUE)
  /\ sems  = [s \in Sems  |-> [inuse |-> FALSE, count |-> 0, waiting |-> <<>>]]
  /\ locks = [l \in Locks |-> [inuse |-> FALSE, pid |-> 0, waiting |-> <<>>]]
  /\ conds = [c \in Conds |-> [inuse |-> FALSE, lock |-> 0, waiting |-> <<>>]]
  /\ call  = [p \in Pids |-> NoCall]
  /\ freeLinks = QUEUE_MAX_LINKS - PROCESS_MAX_PROCS

-----------------------------------------------------------------------------
me == table.currentPCB

InUserMode == Running(table) /\ call[me] = NoCall
WokenIn(op) == Running(table) /\ call[me].op = op

\* Mutant: the links of the waiting queue are not given back.
WakeKeepsLinks(ps) ==
  /\ table' = AfterCall(table, ps, FALSE)
  /\ UNCHANGED <<call, freeLinks>>

\* The handler wakes the processes of ps and returns to its caller.
Wake(ps) ==
  /\ table' = AfterCall(table, ps, FALSE)
  /\ freeLinks' = freeLinks + Len(ps)
  /\ UNCHANGED call

\* Mutant: the caller is suspended but the sleep trap is not taken.
WakeAndSleepNoTrap(ps, c) ==
  IF freeLinks = 0
  THEN table' = Exitsim(table, "noLinks") /\ UNCHANGED <<call, freeLinks>>
  ELSE /\ table' = ProcessSuspend(AfterCall(table, ps, FALSE), me)
       /\ call' = [call EXCEPT ![me] = c]
       /\ freeLinks' = freeLinks - 1 + Len(ps)

\* The handler wakes the processes of ps and sleeps in the call c; the link that
\* puts the caller on a waiting queue was taken first.
WakeAndSleep(ps, c) ==
  IF freeLinks = 0
  THEN table' = Exitsim(table, "noLinks") /\ UNCHANGED <<call, freeLinks>>
  ELSE /\ table' = AfterCall(table, ps, TRUE)
       /\ call' = [call EXCEPT ![me] = c]
       /\ freeLinks' = freeLinks - 1 + Len(ps)

\* The first entry of a pool that is not in use.
FirstFree(pool) ==
  CHOOSE h \in DOMAIN pool : /\ ~pool[h].inuse
                             /\ \A g \in DOMAIN pool : g < h => pool[g].inuse
HasFree(pool) == \E h \in DOMAIN pool : ~pool[h].inuse

-----------------------------------------------------------------------------
SemCreate(count) ==
  /\ InUserMode /\ HasFree(sems)
  /\ sems' = [sems EXCEPT ![FirstFree(sems)] =
                [inuse |-> TRUE, count |-> count, waiting |-> <<>>]]
  /\ UNCHANGED <<table, locks, conds, call, freeLinks>>

SemHandleWait(s) ==
  /\ InUserMode /\ sems[s].inuse
  /\ sems' = [sems EXCEPT ![s] = SemWait(@, me)]
  /\ UNCHANGED <<locks, conds>>
  /\ \/ SemBlocks(sems[s]) /\ WakeAndSleep(<<>>, [op |-> "SemWait", on |-> s])
     \/ ~SemBlocks(sems[s]) /\ UNCHANGED <<table, call, freeLinks>>

\* No signal is modelled that takes a count past MaxCount.
SemHandleSignal(s) ==
  /\ InUserMode /\ sems[s].inuse /\ sems[s].count < MaxCount
  /\ sems' = [sems EXCEPT ![s] = SemSignal(@)]
  /\ UNCHANGED <<locks, conds>>
  /\ Wake(IF SemWakes(sems[s]) THEN <<Head(sems[s].waiting)>> ELSE <<>>)

-----------------------------------------------------------------------------
LockCreate ==
  /\ InUserMode /\ HasFree(locks)
  /\ locks' = [locks EXCEPT ![FirstFree(locks)] =
                 [inuse |-> TRUE, pid |-> NoOwner, waiting |-> <<>>]]
  /\ UNCHANGED <<table, sems, conds, call, freeLinks>>

\* LockAcquire by currentPCB, sleeping in the call c if the lock is held.
AcquireOrSleep(l, c) ==
  /\ locks' = [locks EXCEPT ![l] = LockAcquire(@, me)]
  /\ \/ LockBlocks(locks[l], me) /\ WakeAndSleep(<<>>, c)
     \/ /\ ~LockBlocks(locks[l], me)
        /\ call' = [call EXCEPT ![me] = NoCall]
        /\ UNCHANGED <<table, freeLinks>>

LockHandleAcquire(l) ==
  /\ InUserMode /\ locks[l].inuse
  /\ AcquireOrSleep(l, [op |-> "LockAcquire", on |-> l])
  /\ UNCHANGED <<sems, conds>>

LockHandleRelease(l) ==
  /\ InUserMode /\ locks[l].inuse /\ locks[l].pid = me
  /\ locks' = [locks EXCEPT ![l] = LockRelease(@)]
  /\ Wake(Front1(locks[l].waiting))
  /\ UNCHANGED <<sems, conds>>

-----------------------------------------------------------------------------
\* Only the range of the lock is checked, not that it was ever created.
CondCreate(l) ==
  /\ InUserMode /\ HasFree(conds)
  /\ conds' = [conds EXCEPT ![FirstFree(conds)] =
                 [inuse |-> TRUE, lock |-> l, waiting |-> <<>>]]
  /\ UNCHANGED <<table, sems, locks, call, freeLinks>>

\* A caller without the lock stops the whole system.
CondHandleWaitNotOwner(c) ==
  /\ InUserMode /\ conds[c].inuse /\ locks[conds[c].lock].pid # me
  /\ table' = Exitsim(table, "notOwner")
  /\ UNCHANGED <<sems, locks, conds, call, freeLinks>>

\* The caller joins the queue of the condition, releases the lock (a lock that
\* was never created cannot be released) and sleeps.
CondHandleWait(c) ==
  LET l     == conds[c].lock
      frees == locks[l].inuse
  IN  /\ InUserMode /\ conds[c].inuse /\ locks[l].pid = me
      /\ conds' = [conds EXCEPT ![c].waiting = Append(@, me)]
      /\ locks' = IF frees THEN [locks EXCEPT ![l] = LockRelease(@)] ELSE locks
      /\ WakeAndSleep(IF frees THEN Front1(locks[l].waiting) ELSE <<>>,
                      [op |-> "CondWait", on |-> c])
      /\ UNCHANGED sems

\* Mutant: cond_wait returns without the lock.
CondWaitResumesWithoutLock ==
  /\ WokenIn("CondWait")
  /\ call' = [call EXCEPT ![me] = NoCall]
  /\ UNCHANGED <<table, sems, locks, conds, freeLinks>>

\* Woken by a signal, the caller asks for the lock again before it returns.
CondWaitResumes ==
  LET c == call[me].on
      l == conds[c].lock
  IN  /\ WokenIn("CondWait")
      /\ UNCHANGED <<sems, conds>>
      /\ \/ locks[l].inuse /\ AcquireOrSleep(l, [op |-> "CondReacquire", on |-> c])
         \/ /\ ~locks[l].inuse
            /\ call' = [call EXCEPT ![me] = NoCall]
            /\ UNCHANGED <<table, locks, freeLinks>>

CondHandleSignal(c) ==
  /\ InUserMode /\ conds[c].inuse /\ locks[conds[c].lock].pid = me
  /\ conds' = [conds EXCEPT ![c].waiting = Rest(@)]
  /\ Wake(Front1(conds[c].waiting))
  /\ UNCHANGED <<sems, locks>>

\* Mutant: the processes that are woken stay in the waiting queue.
CondHandleBroadcastKeepsQueue(c) ==
  /\ InUserMode /\ conds[c].inuse /\ locks[conds[c].lock].pid = me
  /\ Wake(conds[c].waiting)
  /\ UNCHANGED <<sems, locks, conds>>

CondHandleBroadcast(c) ==
  /\ InUserMode /\ conds[c].inuse /\ locks[conds[c].lock].pid = me
  /\ conds' = [conds EXCEPT ![c].waiting = <<>>]
  /\ Wake(conds[c].waiting)
  /\ UNCHANGED <<sems, locks>>

-----------------------------------------------------------------------------
\* A process woken inside sem_wait, lock_acquire, or the second half of
\* cond_wait has been given what it waited for and returns to user mode.
WokenReturns ==
  /\ \E op \in {"SemWait", "LockAcquire", "CondReacquire"} : WokenIn(op)
  /\ call' = [call EXCEPT ![me] = NoCall]
  /\ UNCHANGED <<table, sems, locks, conds, freeLinks>>

Timer ==
  /\ InUserMode
  /\ table' = TimerInterrupt(table)
  /\ UNCHANGED <<sems, locks, conds, call, freeLinks>>

Exit ==
  /\ InUserMode
  /\ table' = ProcessExit(table)
  /\ UNCHANGED <<sems, locks, conds, call, freeLinks>>

Fork(loads) ==
  /\ InUserMode
  /\ table' = ProcessFork(table, loads)
  /\ UNCHANGED <<sems, locks, conds, call, freeLinks>>

\* Mutant: the range check of cond_create lets MAX_LOCKS through.
CreateOffByOne ==
  \/ \E count \in SemCounts : SemCreate(count)
  \/ LockCreate
  \/ \E l \in 0 .. MAX_LOCKS : CondCreate(l)

Create ==
  \/ \E count \in SemCounts : SemCreate(count)
  \/ LockCreate
  \/ \E l \in Locks : CondCreate(l)

Next ==
  \/ Create
  \/ \E s \in Sems : SemHandleWait(s) \/ SemHandleSignal(s)
  \/ \E l \in Locks : LockHandleAcquire(l) \/ LockHandleRelease(l)
  \/ \E c \in Conds : \/ CondHandleWaitNotOwner(c) \/ CondHandleWait(c)
                      \/ CondHandleSignal(c) \/ CondHandleBroadcast(c)
  \/ CondWaitResumes \/ WokenReturns
  \/ Timer \/ Exit \/ \E loads \in BOOLEAN : Fork(loads)

Spec == Init /\ [][Next]_vars

-----------------------------------------------------------------------------
SemRecords  == [inuse : BOOLEAN, count : Int, waiting : Seq(Pids)]
LockRecords == [inuse : BOOLEAN, pid : Pids \cup {INVALID_PROC}, waiting : Seq(Pids)]
CondRecords == [inuse : BOOLEAN, lock : Locks, waiting : Seq(Pids)]

\* A process sleeps in a call on a handle of its pool, queues hold processes, a lock
\* belongs to a process or to nobody, and no more links are taken than there are.
TypeOK ==
  /\ table \in Tables
  /\ sems  \in [Sems -> SemRecords]
  /\ locks \in [Locks -> LockRecords]
  /\ conds \in [Conds -> CondRecords]
  /\ call  \in [Pids -> Calls]
  /\ freeLinks \in Nat

Asleep(p) == table.flags[p] = "WAITING"

\* The queue a process asleep in the call c stands in.
WaitsIn(c) ==
  CASE c.op = "SemWait"       -> sems[c.on].waiting
    [] c.op = "LockAcquire"   -> locks[c.on].waiting
    [] c.op = "CondReacquire" -> locks[conds[c.on].lock].waiting
    [] c.op = "CondWait"      -> conds[c.on].waiting
    [] OTHER                  -> <<>>

\* A process sleeps exactly while it stands in the queue of its own call, once,
\* and in no other queue.  A process asleep in no queue is never woken; one
\* queued twice, or awake, fails the assertion of ProcessWakeup (process.c:290).
SleepersQueued ==
  /\ \A p \in Pids : Asleep(p) => p \in ToSet(WaitsIn(call[p]))
  /\ \A s \in Sems : /\ IsInjective(sems[s].waiting)
                     /\ \A p \in ToSet(sems[s].waiting) :
                          Asleep(p) /\ call[p] = [op |-> "SemWait", on |-> s]
  /\ \A l \in Locks : /\ IsInjective(locks[l].waiting)
                      /\ \A p \in ToSet(locks[l].waiting) :
                           /\ Asleep(p)
                           /\ \/ call[p] = [op |-> "LockAcquire", on |-> l]
                              \/ call[p].op = "CondReacquire" /\ conds[call[p].on].lock = l
  /\ \A c \in Conds : /\ IsInjective(conds[c].waiting)
                      /\ \A p \in ToSet(conds[c].waiting) :
                           Asleep(p) /\ call[p] = [op |-> "CondWait", on |-> c]

\* No handler fails an ASSERT of process.c or finds the pool of links empty.
NoFatalError == table.exit \notin {"assert", "noLinks"}

\* Each sleeper holds one link beside the one of its table entry, and gives it
\* back when it is woken: links do not leak however often processes wait.
LinksAccounted ==
  freeLinks + PROCESS_MAX_PROCS + Cardinality(table.waitQueue) = QUEUE_MAX_LINKS

\* Processes wait for a lock only while it carries the pid of another process:
\* a lock that is free has no waiter, and no process waits for itself.
WaitedLockIsHeld ==
  \A l \in Locks : locks[l].waiting # <<>> =>
    locks[l].pid \in Pids /\ locks[l].pid \notin ToSet(locks[l].waiting)

\* Processes wait on a semaphore only while it has nothing to give: no wakeup
\* is lost, whatever value it was created with.
WaitedSemIsEmpty ==
  \A s \in Sems : sems[s].waiting # <<>> => sems[s].count <= 0

Returns(p, ops) == call[p].op \in ops /\ call'[p] = NoCall

\* cond_wait and a lock_acquire that slept return with the lock held, although
\* other processes ran, and locked and unlocked it, in the meantime.
ReturnsWithLock ==
  [][\A p \in Pids :
       /\ Returns(p, {"LockAcquire"}) => locks'[call[p].on].pid = p
       /\ Returns(p, {"CondWait", "CondReacquire"}) =>
            locks'[conds[call[p].on].lock].pid = p]_vars

\* A lock leaves its owner only while the owner runs, and then goes to the process
\* that has waited longest, nobody coming in between: a lock has no other way
\* to change hands, and no newcomer overtakes a waiter.
LockHandover ==
  [][\A l \in Locks :
       locks[l].inuse /\ locks[l].pid \in Pids /\ locks'[l].pid # locks[l].pid =>
         /\ locks[l].pid = me
         /\ locks'[l].pid = IF locks[l].waiting = <<>> THEN -1
                            ELSE Head(locks[l].waiting)]_vars

\* Every handler changes the process table as a step of the scheduler does; in
\* particular it only wakes processes that sleep.
Sched == INSTANCE Scheduler
ImplementsScheduler == Sched!Init /\ [][Sched!Next]_table
=============================================================================
