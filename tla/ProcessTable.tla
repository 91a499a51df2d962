---------------------------- MODULE ProcessTable ----------------------------
(***************************************************************************)
(* The process table of the kernel (src/os/process.c): the PCBs, the four  *)
(* queues they move between, and the routines that move them.              *)
(*                                                                         *)
(* Every routine of process.c that changes the table is an operator from a *)
(* table to a table, so that a trap handler is the composition of the      *)
(* routines it calls.  Interrupts are off while they run (process.c:177),  *)
(* so nothing comes between the routines of one handler.                   *)
(*                                                                         *)
(* An operator introduced by "Mutant:" is the routine that follows it with *)
(* a bug put in; nothing refers to it but the project file.                *)
(***************************************************************************)
EXTENDS Integers, SequencesExt

CONSTANTS PROCESS_MAX_PROCS,    \* size of the array pcbs
          MEMORY_FREE_PAGES     \* pages free when the kernel has booted

ASSUME ProcsAssumption == PROCESS_MAX_PROCS \in Nat \ {0}
ASSUME PagesAssumption == MEMORY_FREE_PAGES \in Nat /\ MEMORY_FREE_PAGES >= 2

Pids         == 0 .. (PROCESS_MAX_PROCS - 1)
INVALID_PROC == -1

\* PROCESS_STATUS_FREE, _RUNNABLE, _WAITING and _ZOMBIE; STARTING is never used.
Statuses == {"FREE", "RUNNABLE", "WAITING", "ZOMBIE"}

\* Why the simulation stopped: a call of exitsim() never returns.  "none" while
\* it runs; "idle" and "asleep" are the two exits of ProcessSchedule.
ExitReasons == {"none", "idle", "asleep", "noProcs", "noPages", "noLinks", "assert", "notOwner"}

\* currentPCB is kept as a pid.  The order of waitQueue is used by one printf
\* only, so that queue is a set; nfreepages is memory.c's count of free pages.
Tables == [flags       : [Pids -> Statuses],
           runQueue    : Seq(Pids),
           waitQueue   : SUBSET Pids,
           freepcbs    : Seq(Pids),
           zombieQueue : Seq(Pids),
           currentPCB  : Pids \cup {INVALID_PROC},
           nfreepages  : Nat,
           exit        : ExitReasons]

Running(t)      == t.exit = "none"
Exitsim(t, why) == [t EXCEPT !.exit = why]

-----------------------------------------------------------------------------
\* Mutant: the loop runs to PROCESS_MAX_PROCS inclusive, and inserts at the end.
ProcessModuleInitOffByOne ==
  [flags       |-> [p \in Pids |-> "FREE"],
   runQueue    |-> <<>>,
   waitQueue   |-> {},
   freepcbs    |-> [i \in 1 .. PROCESS_MAX_PROCS + 1 |-> i - 1],
   zombieQueue |-> <<>>,
   currentPCB  |-> INVALID_PROC,
   nfreepages  |-> MEMORY_FREE_PAGES,
   exit        |-> "none"]

\* Links are inserted at the front, so the highest pid is handed out first.
ProcessModuleInit ==
  [flags       |-> [p \in Pids |-> "FREE"],
   runQueue    |-> <<>>,
   waitQueue   |-> {},
   freepcbs    |-> [i \in 1 .. PROCESS_MAX_PROCS |-> PROCESS_MAX_PROCS - i],
   zombieQueue |-> <<>>,
   currentPCB  |-> INVALID_PROC,
   nfreepages  |-> MEMORY_FREE_PAGES,
   exit        |-> "none"]

\* A process owns two pages: its only user page and its system stack.
PagesPerProcess == 2

\* Mutant: the page of the system stack is not freed.
ProcessFreeResourcesKeepStack(t, ps) ==
  [t EXCEPT !.flags      = [p \in Pids |-> IF p \in ToSet(ps) THEN "FREE" ELSE @[p]],
            !.freepcbs   = @ \o ps,
            !.nfreepages = @ + Len(ps)]

\* The PCBs in the sequence ps are given back, with their two pages each.
ProcessFreeResources(t, ps) ==
  [t EXCEPT !.flags      = [p \in Pids |-> IF p \in ToSet(ps) THEN "FREE" ELSE @[p]],
            !.freepcbs   = @ \o ps,
            !.nfreepages = @ + PagesPerProcess * Len(ps)]

\* The first half of a fork takes the first free PCB and two pages.
TakeFirst(t) ==
  [t EXCEPT !.freepcbs                = Tail(@),
            !.flags[Head(t.freepcbs)] = "RUNNABLE",
            !.nfreepages              = @ - PagesPerProcess]

\* Mutant: the new process becomes the current one.
ProcessForkTakesOver(t, loads) ==
  LET p     == Head(t.freepcbs)
      taken == TakeFirst(t)
  IN  IF t.freepcbs = <<>> THEN Exitsim(t, "noProcs")
      ELSE IF t.nfreepages < PagesPerProcess THEN Exitsim(t, "noPages")
      ELSE IF ~loads THEN ProcessFreeResources(taken, <<p>>)
      ELSE [taken EXCEPT !.runQueue = Append(@, p), !.currentPCB = p]

\* loads is whether the executable could be read; if not, everything taken is
\* given back.
ProcessFork(t, loads) ==
  LET p     == Head(t.freepcbs)
      taken == TakeFirst(t)
  IN  IF t.freepcbs = <<>> THEN Exitsim(t, "noProcs")
      ELSE IF t.nfreepages < PagesPerProcess THEN Exitsim(t, "noPages")
      ELSE IF ~loads THEN ProcessFreeResources(taken, <<p>>)
      ELSE [taken EXCEPT !.runQueue   = Append(@, p),
                         !.currentPCB = IF @ = INVALID_PROC THEN p ELSE @]

\* Mutant: the arguments of AQueueMoveAfter are swapped.
RotateSwapped(q) ==
  IF Len(q) = 1 THEN q ELSE <<Head(q), Last(q)>> \o Front(Tail(q))

\* AQueueMoveAfter(&runQueue, AQueueLast(&runQueue), AQueueFirst(&runQueue)).
Rotate(q) == Append(Tail(q), Head(q))

\* Mutant: the zombies are not freed.
ProcessScheduleKeepsZombies(t, suspendFlag) ==
  IF t.runQueue = <<>>
  THEN Exitsim(t, IF t.waitQueue = {} THEN "idle" ELSE "asleep")
  ELSE LET queue == IF suspendFlag THEN t.runQueue ELSE Rotate(t.runQueue)
       IN  [t EXCEPT !.runQueue = queue, !.currentPCB = Head(queue)]

\* Move the front of the run queue to its end, unless the caller just suspended
\* a process; run the new front; free the zombies.
ProcessSchedule(t, suspendFlag) ==
  IF t.runQueue = <<>>
  THEN Exitsim(t, IF t.waitQueue = {} THEN "idle" ELSE "asleep")
  ELSE LET queue == IF suspendFlag THEN t.runQueue ELSE Rotate(t.runQueue)
       IN  ProcessFreeResources([t EXCEPT !.runQueue    = queue,
                                          !.currentPCB  = Head(queue),
                                          !.zombieQueue = <<>>],
                                t.zombieQueue)

\* Mutant: the process is not taken off the run queue.
ProcessSuspendKeepsPlace(t, p) ==
  IF t.flags[p] # "RUNNABLE" THEN Exitsim(t, "assert")
  ELSE [t EXCEPT !.flags[p] = "WAITING", !.waitQueue = @ \cup {p}]

ProcessSuspend(t, p) ==
  IF t.flags[p] # "RUNNABLE" THEN Exitsim(t, "assert")
  ELSE [t EXCEPT !.flags[p]  = "WAITING",
                 !.runQueue  = RemoveFirst(@, p),
                 !.waitQueue = @ \cup {p}]

\* Mutant: a process that wakes is put in front of the run queue.
ProcessWakeupInFront(t, ps) ==
  IF \E p \in ToSet(ps) : t.flags[p] # "WAITING" THEN Exitsim(t, "assert")
  ELSE [t EXCEPT !.flags     = [p \in Pids |-> IF p \in ToSet(ps) THEN "RUNNABLE" ELSE @[p]],
                 !.waitQueue = @ \ ToSet(ps),
                 !.runQueue  = ps \o @]

\* ProcessWakeup of every process of the sequence ps, in that order.
ProcessWakeup(t, ps) ==
  IF \E p \in ToSet(ps) : t.flags[p] # "WAITING" THEN Exitsim(t, "assert")
  ELSE [t EXCEPT !.flags     = [p \in Pids |-> IF p \in ToSet(ps) THEN "RUNNABLE" ELSE @[p]],
                 !.waitQueue = @ \ ToSet(ps),
                 !.runQueue  = @ \o ps]

ProcessDestroy(t, p) ==
  [t EXCEPT !.flags[p]    = "ZOMBIE",
            !.runQueue    = RemoveFirst(@, p),
            !.zombieQueue = <<p>> \o @]

-----------------------------------------------------------------------------
\* The compositions the trap handler makes of them.

\* The timer interrupt, and the context-switch trap.
TimerInterrupt(t) == ProcessSchedule(t, FALSE)

\* The exit trap.
ProcessExit(t) == ProcessSchedule(ProcessDestroy(t, t.currentPCB), FALSE)

\* Mutant: the next process is moved to the end as well.
ProcessSleepRotates(t) ==
  LET suspended == ProcessSuspend(t, t.currentPCB)
  IN  IF Running(suspended) THEN ProcessSchedule(suspended, FALSE) ELSE suspended

\* The sleep trap, taken inside a kernel call that has to block.
ProcessSleep(t) ==
  LET suspended == ProcessSuspend(t, t.currentPCB)
  IN  IF Running(suspended) THEN ProcessSchedule(suspended, TRUE) ELSE suspended

\* A kernel call that wakes the processes of ps and then, if blocks, sleeps.
AfterCall(t, ps, blocks) ==
  LET woken == ProcessWakeup(t, ps)
  IN  IF blocks /\ Running(woken) THEN ProcessSleep(woken) ELSE woken

-----------------------------------------------------------------------------
\* What a table must look like between two handlers.
WithStatus(t, s) == {p \in Pids : t.flags[p] = s}

\* A PCB is on the one queue its flags name, and on it once.
QueuesMatch(t) ==
  /\ ToSet(t.runQueue) = WithStatus(t, "RUNNABLE")
  /\ t.waitQueue = WithStatus(t, "WAITING")
  /\ ToSet(t.freepcbs) = WithStatus(t, "FREE")
  /\ ToSet(t.zombieQueue) = WithStatus(t, "ZOMBIE")
  /\ \A q \in {t.runQueue, t.freepcbs, t.zombieQueue} : IsInjective(q)

InFront(t) == t.runQueue # <<>> /\ t.currentPCB = Head(t.runQueue)

\* A process has its pages exactly while its PCB is not free.
PagesMatch(t) ==
  t.nfreepages + PagesPerProcess * Cardinality(Pids \ WithStatus(t, "FREE"))
    = MEMORY_FREE_PAGES
=============================================================================
