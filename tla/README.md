# A verification project for the DLXOS lab kernel

The repository is a small teaching operating system for the simulated DLX
processor (`src/os`), the library of shared pages it links (`src/lib`), and user
programs (`src/apps/q2` to `q5`, and `example`) that use its processes, shared
pages, semaphores, locks and condition variables. The modules here model the kernel
and the programs in TLA+; TLC checks small instances, and TLAPS proves the safety of the
scheduler, of trap entry and return, of the synchronization calls, of the pools of pages
and links, of the loader and of the programs q2, q3, q5 and the example for every number
of processes, pages, links and items, and all program files and arguments.

## 1. The system

| Part | State | Operations | Talks to |
|---|---|---|---|
| Process table and scheduler (`os/process.c`) | `pcbs`, `runQueue`, `waitQueue`, `freepcbs`, `zombieQueue`, `currentPCB` | `ProcessFork`, `ProcessSchedule`, `ProcessSuspend`, `ProcessWakeup`, `ProcessDestroy`, `ProcessFreeResources` | called by the trap handler and by `synch.c`; takes links from `queue.c` and pages from `memory.c` |
| Trap and interrupt entry (`os/dlxos.s`) | saved frames on each process's system stack, `currentSavedFrame`, `sysStackPtr`, the interrupt level | `_intrhandler`, `_intrreturn` | calls the trap handler; resumes whatever process is current then |
| Trap dispatch (`os/traps.c`) | none of its own | one `case` per trap or interrupt | calls all the others |
| Synchronization (`os/synch.c`) | pools `sems`, `locks`, `conds`, each entry with a queue of waiting processes | create, wait, signal, acquire, release, broadcast | sleeps and wakes through `process.c` |
| Queues (`os/queue.c`) | `linkpool`, `freeLinks`, the pointers in links and queues | allocate, insert, move, remove | used by `process.c` and `synch.c` |
| Pages (`os/memory.c`) | `freepages`, `nfreepages`, `mapnum` | allocate, free, translate, copy | used by fork, exit and shared pages |
| Shared pages (`lib/share_memory.o`) | `spages`: a page and a bit per process in each slot | create, map, release | changes page tables; released by exit |
| Files (`os/filesys.c`) | `openfiles` | open, close; transfers that change nothing | used by the loader, by boot and by file traps |
| Loader and arguments (`os/process.c`, `os/traps.c`, `os/misc.c`) | a file position, an address, the buffer of arguments | `ProcessGetCodeInfo`, `ProcessGetFromFile`, `get_argument`, `ditoa`, `dstrtol` | the middle of `ProcessFork` |
| Programs q2, q3, q4 | a shared buffer, `head`, `tail` | produce, consume | lock; polling, semaphores or conditions |
| Program q5 | six shared counters | two producers, four reactions | lock, four conditions |

What makes it hard:

* **Interleaving.** User processes are preempted at any instruction; kernel calls
  run with interrupts off, but a call that sleeps is two atomic pieces with
  anything in between, and file traps turn interrupts on while they work.
* **Order.** Fairness is nothing but the order of `runQueue`, which timers, sleeps,
  exits, forks and wakeups rearrange; the order of waiters decides who gets a lock;
  frames on a system stack must be dropped in the order they were put there.
* **Partial failure.** A fork that cannot load gives back what it took through the
  code for exits. Loading can fail at four points with a file open. Running out of
  PCBs, pages or links stops the whole simulation.
* **Long sequences.** Links, pages, slots and descriptors are taken and given back
  for the life of the system.
* **Boundaries.** Negative semaphores, an empty or full buffer, a full page table,
  neighbouring links, descriptor 0, windows of a program file, arguments at a limit.

There are no crashes to recover from and no messages to lose: nothing is persisted
and there is one machine.

What makes each part correct is stated by the properties of section 3; `PROJECT.json`
lists each hazard at its line with the properties that would catch it.

## 2. Modules

| Module | Models | How |
|---|---|---|
| `ProcessTable` | `os/process.c` | a table is a record; each routine is an operator from table to table, so a handler is the composition of the routines it calls |
| `Scheduler` | the handlers of `os/traps.c` over one table | `Timer`, `Exit`, `Fork`, and `KernelCall`, which stands for any synchronization call: it wakes some sleepers in some order and may then sleep |
| `Interrupts`, `MCInterrupts` | `os/dlxos.s`, and every case of `dointerrupt` | the table of `Scheduler` with the frames and registers around it; a handler is cut in two where others can come in between |
| `Primitives` | one operation on one semaphore, lock or queue of waiters | operators from record to record |
| `Synch`, `MCSynch` | `os/synch.c` over the real process table | one action per call, up to the point where it sleeps, and one for what a woken process does before it returns |
| `Queues` | what `os/queue.h` promises | queues are sequences of links |
| `LinkedQueues` | `os/queue.c` | the pointers in memory, assigned in the order of the code |
| `SharedPages` | `os/memory.c`, `lib/share_memory.o`, the pages of fork and exit | free map, slots and page tables in one record |
| `Files` | `os/filesys.c` | the table of open files; operators from table to table |
| `Arguments` | `ditoa`, `dstrtol`, `process_create`, `get_argument`, the copying into a process | numbers become digits, packed with their NULs in a buffer with its length, and come back; a negative number loses its digits, as in the code |
| `Loader`, `MCLoader` | the file part of `ProcessFork` and of `main` | one load, one step per call of `ProcessGetFromFile` |
| `AppProcess` | what the programs share | program counters, the completion semaphore, kernel calls as single steps |
| `CircularBuffer` | the buffer of q2, q3, q4 | `cb->head++` and `cb->tail++` are a load and a store |
| `Q2Polling`, `Q3Semaphores`, `Q4Conditions`, `Q5Atmosphere`, `SpawnExample` | the programs | one action per call or access to shared memory |
| `BoundedBuffer` | what a shared buffer promises | a queue of whole items with a capacity |
| `MCBuffers` | q2, q3 and the example | one of the three, chosen by the first state |
| `QueueLemmas`, `TableLemmas` | | lemmas: queues, locks, semaphores, least numbers, loops and recursive functions; the routines and handlers of the process table |
| `KernelProofs`, `SynchProofs`, `PoolProofs`, `LoaderProofs`, `BufferProofs`, `Q5Proofs` | | the theorems about `Scheduler` and `MCInterrupts`, `Synch`, `SharedPages` and `LinkedQueues`, `Loader`, `MCBuffers`, `Q5Atmosphere` |

How they fit together:

* `Scheduler` is the abstract specification of the kernel's control: `Synch` refines it
  (`ImplementsScheduler`, checked and proved), and so does `Interrupts`
  (`HandlersImplementScheduler`, proved).
* `Loader` is what the parameter `loads` of `ProcessFork` stands for, taken apart.
* `LinkedQueues` refines `Queues` (`ImplementsQueues`, checked and proved), and its
  sequences are what the other modules use for `runQueue` and the rest.
* The programs are composed of `Primitives` and `AppProcess`; q2 and q3 refine
  `BoundedBuffer` (`ImplementsBuffer`, checked and proved).

Conventions. One step of the kernel modules is a whole handler, from entry to
`intrreturn()`, or its part up to where it can be interrupted. A call that fails its
checks changes nothing and is a stuttering step. `exit` in the table says why
`exitsim()` was called; nothing happens after it. An operator introduced by
"Mutant:" is the one that follows it with a plausible bug; only `PROJECT.json` refers
to it, to show that a property notices.

Choices worth knowing:

* `ProcessFork` re-enables interrupts between taking the PCB and queueing it, but it
  is called from a trap handler with interrupts off already, so a fork is one step.
* The flags for process type (`SYSTEM`, `USER`) are left out; nothing reads them.
* `ProcessTable` counts a process's two private pages. What it maps beyond them, and
  which pages they are, is in `SharedPages`.
* The order of `waitQueue` is used by one `printf` only; it is a set. The queues of
  `synch.c` keep their order.
* A lock that was never created has `pid` 0, because static memory is zero:
  `cond_create` accepts it, and process 0 "owns" it. `Synch` has this.
* In `Interrupts` the register r1 stands for all registers, and places on a system
  stack are counted in frames. `wants` is a history variable: the result a process
  must find.
* In the programs `Asleep` is "stands in a waiting queue". `EveryReadyProcessRuns`
  is why any process that is not asleep may run next.
* In `Loader` a line of a program is its address, if it has one, and its length; every
  byte has a name of its own, so that a byte in the wrong place is noticed. `lost` is
  a history variable: descriptors the code will not close.

## 3. Runs

| Run | Instance | Shows |
|---|---|---|
| `interrupts` | 3 PCBs, 6 pages, at most 4 forks after the first | the process table stays consistent; nobody but the running process, or the one behind an exiting one, loses its place; wakeups and forks do not preempt; frames nest; results reach the process that asked; programs run with interrupts on; every runnable process runs |
| `synch` | 3 processes, 1 semaphore, 2 locks, 2 conditions, 6 links | sleepers are in one queue, once; no `ASSERT` fails; links do not leak; locks are handed over in order; `cond_wait` returns with its lock; every call is a step of `Scheduler` |
| `linked_queues` | 4 links, 2 queues | both directions of the lists agree; links know their queue; refinement of `Queues` |
| `shared_pages` | 3 processes, 7 pages, 2 slots, page tables of 2 | a page is free if and only if nobody uses it; reference bits are the mappings; private pages are private |
| `loader` | 4 descriptors, files of every kind, 0 to 3 arguments | no outcome of a load keeps a descriptor but the known ones; a program starts with its bytes in place; a load writes the lines of its file, the arguments, and nothing else; numbers passed as arguments arrive |
| `buffers` | q2 and q3 with 2 pairs, 2 items each, 3 slots; the example with 4 children | refinement of `BoundedBuffer`; q3 loses no slot; all end, the first process last |
| `q5` | 2 N, 10 O, 100 degrees | atoms conserved; no negative counter; no signal missed; nobody left asleep; the yield krypton estimated |
| `scheduler_exit_place` | 3 PCBs | finding 1 |
| `q4_lost_consumer` | 1 pair | finding 2 |
| `ring_index` | 1 pair, 2 slots, 3 items | finding 3 |
| `shared_page_freed` | 3 processes, 8 pages, 3 slots | finding 4 |
| `descriptor_leak` | as `loader` | finding 5 |

Why the bounds are enough for the interesting cases:

* Three processes let one exit or sleep while another stands behind it and a third
  sleeps. Four forks after the first exceed the three PCBs, so that PCBs run out, are
  reused after exits and failed forks, and a reused PCB gets a new stack of frames. Six
  pages are what three processes need; running out of pages before PCBs is in
  `shared_pages` (7 pages, some of them shared). A process has two frames at most, by
  `FramesNested`, which has no bound in it.
* Three processes in `synch` are an owner, a waiter and a newcomer; two locks and
  two conditions allow both conditions on one lock, and conditions on a lock that was
  not created. The semaphore starts at -1 or 1. Six links are exactly
  `2 * PROCESS_MAX_PROCS`, the least that suffices: one in the table entry and one in
  a waiting queue per process. `MaxCount` is 1, a bound of the model: signals that would
  exceed it are left out, while the code counts on (`synch.c:149`). No property depends on
  it, since a semaphore with a count above zero has no waiters either way.
* Four links make lists with two inner links; moving and removing first, inner, last
  and adjacent links all occur.
* In `shared_pages` two slots and two table entries both fill up; a page that one
  process gave up is private to another later. `WORD_BITS` is 4 so that the search
  for a page crosses a word of the free map.
* In `loader` four descriptors are used up: slot 0 by the boot, others by files without
  a start line and by up to two `-f` files. The programs have lines with and without
  addresses, a run of lines longer than one read of 24 characters, a first line without
  an address, an address below the one before, a line that overwrites part of an earlier
  one, and bytes at and past the end of the page of 120. The limits are 3 strings and 10 characters, so argument lists
  lie below, at and above both; the numbers are 0, 35 and 120: one, two and three digits.
* In q2 three slots hold two items (one slot is always empty), in q3 three hold three;
  four items go through, so the buffer fills and empties. The array of the model has
  room for all items, as the page of 64KB has for those of 31 processes; that the
  index leaves `char_buf` is finding 3, not hidden.
* In q5 ten O atoms make five O2, for which reactions 3 and 4 compete; each has to
  wait and to test again.

Two runs restrict what processes do. `shared_pages` uses `FreshSpec`, in which no
page is shared that was shared before: without it finding 4 applies.
Both runs of `SharedPages` let a process map a handle only while somebody maps its page
(`MapLive`), as every program here does: the first process keeps its mapping until
the others have ended. The code accepts a stale handle; see the hazards.

`CHECK_DEADLOCK FALSE` is in every cfg: the kernel stops by `exitsim()`, the
programs end, a pool of links can be in a state in which no caller has a link to
insert, and a loader with no descriptor left changes nothing any more.

## 4. Fairness

`ProcessSchedule` re-arms the timer every time (`process.c:240`), so the timer is
certain to fire only if one process keeps the processor. `MCInterrupts` (and
`Scheduler`) therefore have weak fairness of the timer while `p` runs, for each `p`
(`KeptTooLong`, `Quantum`): much less than fairness of the timer. The timer cannot fire
in a kernel call that has slept and runs again, with interrupts off; such a call is a
few instructions, so it has weak fairness of its own (`CallGoesOn`). Nothing
makes a process exit, fork or sleep. Under this `EveryReadyProcessRuns` holds with
finitely many forks. That bound is needed: each exit moves the next process to the end
(finding 1), so a process that is always second when the running one exits could be
passed over as long as new processes arrive.

q3 and the example need only that some process runs (`SemaphoresStep`,
`ExampleStep`): no process polls. q2 polls, and needs weak fairness of each process,
which is what `EveryReadyProcessRuns` gives to the at most 31 processes it creates. q5
does not poll either; that all its processes end is checked there as two invariants,
`NoMissedSignal` and `NoneLeftAsleep`, which together with its bounded loops say as
much at a third of the cost. q4 states the fairness of q2, so that its counterexample
is not a system that just stops.

## 5. Proofs

| Theorem | States |
|---|---|
| `TypeCorrect` | `Spec => []TypeOK` (of `Scheduler`) |
| `QueuesAgreeWithFlags` | `Spec => []QueuesMatchFlags` |
| `RunningInFront` | `Spec => []CurrentInFront` |
| `NoZombies` | `Spec => []ZombiesReaped` |
| `PagesStayAccounted` | `Spec => []PagesAccounted` |
| `OnlyTimerPreempts` | `Spec => WakeupsDoNotPreempt` |
| `OrderIsKept` | `Spec => OvertakenByExitOnly` |
| `HandlersImplementScheduler` | `InterruptSpec => Init /\ [][Next]_table` |
| `FramesAreNested` | `InterruptSpec => []FramesNested` |
| `ResultsAreDelivered` | `InterruptSpec => []ResultDelivered` |
| `ProgramsAreInterruptible` | `InterruptSpec => []UserInterruptible` |
| `TypesHold` | `Spec => []TypeOK` (of `Synch`) |
| `SleepersStandInLine` | `Spec => []SleepersQueued` |
| `NothingFatal` | `Spec => []NoFatalError` |
| `LinksStayAccounted` | `Spec => []LinksAccounted` |
| `WaitedLockHeld`, `WaitedSemEmpty` | `Spec => []WaitedLockIsHeld`, `Spec => []WaitedSemIsEmpty` |
| `LocksHandedOver`, `ReturnsLocked` | `Spec => LockHandover`, `Spec => ReturnsWithLock` |
| `KernelImplementsScheduler` | `Spec => ImplementsScheduler` |
| `SlotsStay`, `MainIsLast` | `MCSpec => []SlotsAccounted`, `MCSpec => []MainEndsLast` (of `MCBuffers`) |
| `BufferImplemented` | `MCSpec /\ FewItems => ImplementsBuffer` |
| `AtomsStay`, `MoleculesSuffice`, `SignalsArrive` | `Spec => []AtomsConserved`, `Spec => []EnoughMolecules`, `Spec => []NoMissedSignal` (of `Q5Atmosphere`) |
| `LoopsBalance` | `Spec => [](Q5Inv /\ EndInv)` |
| `NobodyLeftAsleep`, `YieldIsReached` | `Spec => []NoneLeftAsleep`, `Spec => []YieldAsEstimated` |
| `AlwaysPaged` | `FreshSpec => []Paged(s)` (of `SharedPages`) |
| `PagesAreTyped`, `PagesAreConserved` | `FreshSpec => []TypeOK`, `FreshSpec => []PagesConserved` |
| `RefsAreTheMappings`, `OwnPagesStayOwn` | `FreshSpec => []RefsAreMappings`, `FreshSpec => []OwnPagesAreOwn` |
| `ListsStaySound` | `LinksSpec => []Sound(mem)` (of `LinkedQueues`) |
| `EndsAlwaysMeet`, `QueuePointersAreRight` | `LinksSpec => []EndsMeet`, `LinksSpec => []LinksKnowTheirQueue` |
| `ListsImplementQueues` | `LinksSpec => ImplementsQueues` |
| `DescriptorsStayAccounted` | `Spec => []DescriptorsAccounted` (of `Loader`) |
| `ProgramsArriveInMemory` | `Spec => []ProgramLoaded` |
| `WritesStayAccounted` | `Spec => []WritesAccounted` |
| `ArgumentsAlwaysArrive` | `Spec => []ArgumentsArrive` |

They hold for all values of the constants that satisfy these assumptions:

* kernel: `PROCESS_MAX_PROCS > 0` and `MEMORY_FREE_PAGES >= 2` (`ProcsAssumption`,
  `PagesAssumption`; without a first process `main` stops at once);
* `Synch`: pools that are not empty (`PoolsAssumption`), two links per process
  (`LinksAssumption`; `queue.h:17` has 400 for 32 processes), semaphores created with
  integers (`CountsAssumption`);
* programs: at least one process besides `makeprocs` (`NumProcsAssumption`), producers and
  consumers in pairs (`PairsAssumption`), a buffer and items that are not empty
  (`SizesAssumption`); in q5 its six processes (`SixProcesses`) and natural numbers of
  atoms (`ArgsAssumption`);
* `SharedPages`: at least one process, slot, page table entry and bit in a word
  (`SizesAssumption`), two pages for the first process (`PagesAssumption`);
* `LinkedQueues`: any number of links (`PoolAssumption`); `freeLinks` is not one of the
  other queues, and NULL is none (`FreeLinksAssumption`, `NoQueueAssumption`);
* `Loader`: `FS_MAX_OPEN_FILES > 0` (`FilesAssumption`); a buffer for the arguments with
  room for the longest, on a page with room for the buffer (`ArgumentSizes`); files with a
  name, whose lines have at least a byte and are no longer than one read
  (`ProgramsAssumption`, `ReadAssumption`); argument numbers below 10^9, since above that
  the power of ten in `ditoa` overflows (`misc.c:165`, `NumbersAssumption`).

**The table** (`TableLemmas`, `KernelProofs`). None of the first four is inductive
alone. That `ProcessDestroy` and `ProcessSuspend` take the right process off the run queue
needs the running process to be in front; that it is in front after `ProcessSchedule` needs
the queues to match the flags, else a freed or sleeping process could be there; freeing
the zombies keeps the flags right only if there are none from before. So the invariant
is `TableIsSound`, all four together with "no assertion has failed" and "currentPCB is
a process" (`TableSound`). The proof has two levels. `Consistent` holds between two
routines of a handler, `Sound` between two handlers. There is one lemma per routine
(`FreeSound`, `EnqueueSound`, `ScheduleSound`, `SuspendConsistent`, `DestroyConsistent`,
`WakeupSound`), one per composition (`ForkSound`, `SleepSound`, `CallSound`,
`ExitSound`), and `NextSound` has one step per action. The lemmas are about the operators
and not about a specification, so the proofs about `Synch` use the same ones.
`QueueLemmas` has the facts about sequences without duplicates.

**Steps of the table** (`KernelProofs`). On top of `TableIsSound`: each routine
keeps pages and `Holders`, the processes that are not free, in balance, because at most
one zombie is ever freed at once; and what each handler makes of the run queue (itself,
its rotation, its tail, more at the end) decides who is overtaken: rotation overtakes
the head and nobody else (`OrderAfterRotate`), the tail and additions at the end nobody
(`OrderKeptByTail`, `OrderKeptByJoin`). An exit rotates the tail, which is finding 1.

**Frames** (`KernelProofs`). The invariant `MachineIsNested` says what can be
resumed: a process that does not run is `Parked`, in front of its program with the
result of its last call in r1, or in a handler above it; the one that runs is in its
program or in a handler. `Parking` is about `_intrhandler`, `Resuming` about
`_intrreturn`; a handler parks its process, changes statuses (`TimerFlags`, `ExitFlags`,
`SleepFlags`, `CallFlags`, `ForkFlags`), answers (`Answering`) or not (`Yielding`), and
resumes a parked one. It needs `TableIsSound`: the process that is resumed is not free
and not asleep because it is in front of a run queue that matches the flags.

**Synchronization** (`SynchProofs`). None of the invariants of `Synch` is inductive
alone. That a wakeup finds a sleeper needs `SleepersQueued`; that a sleeper's queue is
the one of its own call needs the handle it sleeps on to be in use, and its lock to be
the one it will ask for; that a released lock goes to somebody needs `WaitedLockIsHeld`.
The invariant is `SynchInv`:

* `TableHolds`: the table is `Sound`, the links are accounted for and have not run out;
* `WaitsHold`: each process has a goal (`Goals`: a semaphore, a lock, a condition or
  nothing), each queue has exactly the sleepers with its goal, once (`Queued`), who was
  woken to get a lock has it (`Granted`), and the records agree with their queues;
* `CallsKnown`: inside `cond_wait` the condition exists, and a lock that does not exist
  cannot have been taken away.

`Waits` and `TableHolds` are about values, not about the variables, so that a handler
that does two things, as `cond_wait` does when it queues itself and hands the lock over,
is the composition of two lemmas (`CondJoins`, `LockHandedOver`). `NextInv` has one lemma
per action. For `KernelImplementsScheduler`, each handler is a call of `Scheduler` that
wakes the processes it names and then perhaps sleeps (`CallIsScheduled`), which
holds because `SynchInv` says that those it wakes are asleep and distinct.

**Buffers** (`BufferProofs`). q2, q3 and the example are one module, so there is one
invariant, `BuffersInv`. `StepsAre` first says what the steps of each program are in
common terms (`Turn`). `Excluded` says who has the lock (`LockSound`, with `LockAsked` and
`LockLeft` in `QueueLemmas`); `Awaited` that the completion semaphore is always
`1 - NumProcs` plus the number of processes that have signalled, from which
`MainEndsLast`; `SlotsOf`, for each semaphore of q3, that its count and its `Holders`
(those that took a slot from it and have not used the buffer, and those that used the
buffer and have not signalled it yet) are the slots of that kind. A process that
is about to use the buffer is a holder, so its slot exists: that is why q3 needs no
test. `Indexed` says that what a process has loaded is still the index
when it uses it, and that `head` is the number of items put in, so that there is room
for it. In the refinement, inserting is `OneMore` and removing `OneLess` about the cells
between `tail` and `head`.

q2 has no semaphores: that it never inserts into a full buffer is `OneSlotEmpty`, and
rests on its test `(head + 1) % BUFFER_SIZE == tail`. Because the indices are not
reduced, the test works only while `tail < BUFFER_SIZE`; later there must be fewer items to
come than there are places. This is `FewItems`, `Total < 2 * BUFFER_SIZE`, and the bound is
exact: with `Total = 2 * BUFFER_SIZE` TLC finds a full buffer overfilled (2 places, 2 pairs,
2 items each). With 64 places and 10 items, up to 12 pairs are safe.

**Reactions** (`Q5Proofs`). `EnoughMolecules` is not inductive alone because reactions 1
and 2 do not test again after `cond_wait`. `Q5Inv` adds the exclusion by the lock
(`Excluded`), that each condition has its own reaction only (`OwnConditions`), and
`Prepared`: what a process has loaded is still there when it stores, and the atoms a
reaction of the first two was signalled for are still there, since nobody else takes
them. Reactions 3 and 4 compete for O2 and test again. `NoMissedSignal` is inductive with
this: each step that makes a reaction ready signals its condition (`SignalsAre`), one
signal suffices as one process waits.

That all end (`NoneLeftAsleep`) with the yield krypton estimated (`YieldAsEstimated`) needs
`EndInv` besides: the counters are what the turns so far have made of them (`Balanced`),
a process in its loop has turns left and one that ended has none (`Looping`), and the
first process waits for exactly those that have not signalled (`Awaited`). When no process
can go on, the lock is free, so those that have not ended are reactions on a condition
(`Stuck`), which by `NoMissedSignal` is false. The producers have ended; by `Balanced`
reactions 1 and 2 then find two atoms for each turn they have left, and reactions 3 and 4,
whichever of them took how many turns, find their molecules, because the estimate fits:
`no2 <= n2` and `2 * no2 + 3 * o3 <= o2` (`EstimateFits`, `NotStuck`). The estimate is a loop;
`LoopEnds` and `LoopInduction` (`QueueLemmas`) say that a loop whose states get smaller
computes a function, and that what each turn keeps holds for it.

**Pages** (`PoolProofs`). `PagesConserved` is not inductive alone: that an exit frees its
pages and no others needs the bits of a slot to be the mappings, and that the last
process to release a shared page is the one that frees it needs the page to have one
slot. `Paged` has these, with `Separate`: the first page and the system stack of a
process are in no other page table. A search (`MemoryAllocPage`, a free slot) finds the
least number of a set that is not empty. `ProcessFreeResources` releases the entries of a
page table one by one, a fold; since the entries differ, what it leaves can be
said at once, and the fold is shown equal to that explicit result.

**Links** (`PoolProofs`). The invariant `Sound` says that the lists which the pointers give
when they are followed from `first` are lists in both directions (`Chain`), have no
link in common (`Chains`), and agree with the queue pointers (`Known`). An operation on
pointers is followed one assignment at a time (`NextSet`, `PrevSet`, `QueueSet`,
`EndsSet`), and the lists change at one place: `InsertAt`, `RemoveAt`. `Forward` and `Backward`
are recursive functions; that they read the list which is there is shown by the least
place at which they would not. `AQueueModuleInit` is a loop of insertions, shown equal to the
memory `FilledTo(n)` after n of them. That each step of the pointers is one step of the
sequences is `ListsImplementQueues`.

**Descriptors** (`LoaderProofs`). `DescriptorsAccounted` is not inductive alone: that the
end of a load frees its own slot and no lost one needs the descriptor to be valid and
not lost, and boot must meet no load in progress (`LoadSound`). `FsOpen` takes a free
slot (`OpenTakesFree`) because the least number of a set that is not empty is in it
(`LeastNumber`); `CodeInfo` says what each kind of file leaves open.

**Loading** (`LoaderProofs`). What a process finds when it starts is decided while it is
loaded, so the three properties of the loader rest on an invariant of the load in progress,
`Reading`: each byte of the lines read so far is at its address, unless a later one of them
has the same address (`Holds`), and the next line belongs where `addr` points. A read takes
at least one line (`TakesLines`), so a load ends only behind the last one; the bytes of
one read are one piece from the address of its first line on (`BytesTogether`); a copy
writes that piece as far as the second page (`CopyWrites`). The arguments are pushed
above the program and leave it as it is (`IsPushed`). For `WritesAccounted` the same lemmas
say the converse: every byte of such a piece belongs to one of its lines (`BytesTogether`,
`HoldsMore`), and every word and character pushed lies between the stack pointer and the
end of the page (`IsPushed`), however many arguments there are.

That they arrive is a chain of conversions, each with its lemma: the strings stand in the
buffer one behind the other, each with its NUL (`BufferHolds`); what `get_argument` finds
are their places (`OffsetsArePlaces`), which needs them not to be empty; a string at such
a place of the memory is read up to its NUL (`StringFound`); the digits of a number read as
that number (`ReadsWhatIsWritten`). The conversions are recursive functions and folds of
the library. `Recursion` and `RecursionInduction` (`QueueLemmas`) say that a function exists
whose value at `x` is computed from the value at a smaller `next[x]`, and that what
holds where the recursion stops, and at `x` if it holds at `next[x]`, holds everywhere;
both take sets and functions in place of the operators of the library's theorems, and
rest on the least counterexample. `Digits`, `dstrtol`, `Offsets`, `FlattenSeq` and
`Address` are instances.

Only model-checked: liveness (`EveryReadyProcessRuns`, `AllEnd`), since fairness and ENABLED
are outside the prover. The refinement of `Scheduler` by `Interrupts` is without `Scheduler`'s
fairness; with it, `EveryReadyProcessRuns` is checked directly. Every other property of a
passing run is stated by a theorem.

## 6. Findings

1. **An exit costs the next process its turn** (`scheduler_exit_place`). The comment at
   `process.c:218` says the front of the run queue is the running process. After
   `ProcessDestroy` it is the next one, and it goes to the end without having run.
2. **q4 loses consumers** (`q4_lost_consumer`). Nobody signals `c_fullslots`; a consumer
   that finds the buffer empty sleeps for ever. The recorded output shows
   "Consumer 29 waits for items" followed by items removed.
3. **The circular buffer is not circular** (`ring_index`). `head` and `tail` are never
   wrapped; from seven pairs on the programs write past `char_buf[64]`. In q2, from 13
   pairs on, the test for a full buffer fails too: it compares the head modulo the size
   with a tail that has passed it (section 5, Buffers).
4. **A shared page is freed while mapped** (`shared_page_freed`). A slot of `spages` keeps
   its page number when the page is freed. If the page is shared again, references are
   counted in the old slot, and the page is freed with a mapping left, against
   `share_memory.h:28-30`.
5. **A file without a start line stays open** (`descriptor_leak`). The comment at
   `process.c:599-600` says the descriptor must be closed; `process.c:627-630` returns -1
   and keeps it, so that no caller can. `-f` loses a slot too: it calls `close(fd)` for
   `FsClose(fd)` (`process.c:815`).

## 7. Not modelled

* Formatting in `printf`, string routines of `misc.c` other than the two conversions,
  `sysproc.c` (its processes are commented out), build files and recorded results.
* Boot code, the simulator's calls in `dlxos.s`, `osend.s` and `trap_random.s`: they
  return values and change no state of the kernel. That the processor saves the interrupt
  level and turns interrupts off on a trap is assumed. The stubs of `usertraps.s` are one
  trap instruction each.
* What an illegal access does: the handler stops the simulation (`FaultHandler`).
* Transfers of user data by file traps: the handlers answer a constant, and
  `FsRead`, `FsWrite`, `FsSeek` and `FsDelete` change no entry of the table.
* The page table entry behind the last one, which `page > pcb->npages` lets through
  (`memory.c:169`), holds whatever an earlier process left; `Arguments` says that bytes are
  written there and not whose they overwrite. The comment above `moveBetweenSpaces` says
  otherwise: "the copy stops at the first unmapped address" (`memory.c:188-191`). A program
  that does not fit in its page is needed for the difference; one of those in `loader` is
  too large. `WritesAccounted` says that nothing else leads there: each byte a load writes
  is in a line of its file or an argument on the process's own page.
* In the trap that creates a process, the byte written behind the buffer by a string that
  begins at its end, and names of 100 characters and more, which are cut off
  (`traps.c:95-140`): both are outside the documented limits, to which `ArgumentsArrive`
  refers. `close(fd)` at `process.c:815` is modelled by what it leaves in the table of
  open files, not by what it does to the simulator's descriptors.
* `AQueueMoveAfter` with a null `after` (`queue.c:240`): no caller passes one.

## 8. Plan

Next, in this order:

1. `LinkedQueues` under `ProcessTable` and `Synch`: waiting queues and PCB links as real
   links, so that `LinksAccounted` becomes a consequence of a refinement.
2. Processes that exit with a lock held, and stale handles of shared pages, as
   properties of what the kernel promises to well-behaved processes.
