---------------------------- MODULE KernelProofs ----------------------------
(***************************************************************************)
(* The safety of the scheduler and of the interrupts, for every number of  *)
(* processes and pages.                                                    *)
(*                                                                         *)
(* First Scheduler: the inductive invariant is that the table is Sound     *)
(* between two handlers, with one step of the proof for each action.       *)
(* Behind it come what a step does to the pages and to the order of the    *)
(* run queue, where a table is compared with the one before.               *)
(*                                                                         *)
(* Then Interrupts: traps and interrupts do to the table what Scheduler    *)
(* says, and every process that was interrupted can be resumed as it was.  *)
(* That invariant says what the frames of a process are: those of a        *)
(* process that does not run are Parked, and the one that runs is          *)
(* InProgram or InHandler.  A handler parks its process by intrhandler     *)
(* (Parking), does something to the table, and resumes a parked one        *)
(* (Resuming).                                                             *)
(***************************************************************************)
EXTENDS Interrupts, TableLemmas

\* What WakeOrders gives: sequences without duplicates of sleeping processes.
LEMMA WakeOrder ==
  ASSUME table \in Tables, NEW ps \in WakeOrders
  PROVE  ps \in Seq(Pids) /\ IsInjective(ps) /\ ToSet(ps) \subseteq table.waitQueue
<1>1. table.waitQueue \in SUBSET Pids /\ IsFiniteSet(Pids)
  BY ProcsAssumption, FS_Interval DEF Tables, Pids
<1>2. ps \in Seq(table.waitQueue) /\ IsInjective(ps)
  <2>1. IsFiniteSet(table.waitQueue)
    BY <1>1, FS_Subset
  <2> QED BY <2>1, OrdersOf DEF WakeOrders
<1>3. ToSet(ps) \subseteq table.waitQueue
  BY <1>2 DEF ToSet
<1> QED BY <1>1, <1>2, <1>3

\* The inductive invariant.
TableIsSound == Sound(table)

\* The first fork, at boot.
LEMMA InitSound == Init => TableIsSound
BY BootSound DEF Init, TableIsSound

\* Every step preserves soundness.
LEMMA NextSound == TableIsSound /\ [Next]_table => TableIsSound'
<1> USE DEF TableIsSound
<1> SUFFICES ASSUME Sound(table), [Next]_table PROVE Sound(table')
  OBVIOUS
<1>1. table \in Tables /\ table.currentPCB \in Pids
  BY DEF Sound, Consistent
<1>2. CASE Timer
  <2>1. Consistent(table) /\ table.exit = "none"
    BY <1>2 DEF Timer, Running, Sound
  <2>2. Sound(ProcessSchedule(table, FALSE))
    BY <1>1, <2>1, ScheduleSound
  <2> QED BY <1>2, <2>2 DEF Timer, TimerInterrupt
<1>3. CASE Exit
  BY <1>3, ExitSound DEF Exit
<1>4. ASSUME NEW loads \in BOOLEAN, Fork(loads) PROVE Sound(table')
  BY <1>4, ForkSound DEF Fork
<1>5. ASSUME NEW ps \in WakeOrders, NEW blocks \in BOOLEAN, KernelCall(ps, blocks)
      PROVE  Sound(table')
  <2>1. ps \in Seq(Pids) /\ IsInjective(ps) /\ ToSet(ps) \subseteq table.waitQueue
    BY <1>1, WakeOrder
  <2>2. Running(table) /\ table' = AfterCall(table, ps, blocks)
    BY <1>5 DEF KernelCall
  <2> QED BY <2>1, <2>2, CallSound
<1>6. CASE FatalCall
  <2>1. "notOwner" \in ExitReasons \ {"none", "assert"}
    BY DEF ExitReasons
  <2> QED BY <1>6, <2>1, ExitsimSound DEF FatalCall
<1>7. CASE UNCHANGED table
  BY <1>7
<1> QED BY <1>2, <1>3, <1>4, <1>5, <1>6, <1>7 DEF Next

\* The inductive invariant: between two handlers the table is sound, whatever
\* processes fork, exit, sleep and are woken, and in whatever order.
THEOREM TableSound == Spec => []TableIsSound
<1> QED BY InitSound, NextSound, PTL DEF Spec

\* Every field of the table keeps its type (process.c:35-64).
THEOREM TypeCorrect == Spec => []TypeOK
<1>1. TableIsSound => TypeOK
  BY DEF TableIsSound, Sound, Consistent, TypeOK
<1> QED BY <1>1, TableSound, PTL

\* A PCB is on the one queue its flags name, for every number of processes.
THEOREM QueuesAgreeWithFlags == Spec => []QueuesMatchFlags
<1>1. TableIsSound => QueuesMatchFlags
  BY DEF TableIsSound, Sound, Consistent, QueuesMatchFlags
<1> QED BY <1>1, TableSound, PTL

\* The running process is in front of the run queue, as process.c:218 assumes.
THEOREM RunningInFront == Spec => []CurrentInFront
<1>1. TableIsSound => CurrentInFront
  BY DEF TableIsSound, Sound, CurrentInFront
<1> QED BY <1>1, TableSound, PTL

\* No handler leaves a zombie behind.
THEOREM NoZombies == Spec => []ZombiesReaped
<1>1. TableIsSound => ZombiesReaped
  BY DEF TableIsSound, Sound, ZombiesReaped
<1> QED BY <1>1, TableSound, PTL

-----------------------------------------------------------------------------
\* The processes that have pages.
Holders(t) == Pids \ WithStatus(t, "FREE")

LEMMA HoldersFinite ==
  ASSUME NEW t
  PROVE  IsFiniteSet(Holders(t)) /\ Cardinality(Holders(t)) \in Nat
<1>1. IsFiniteSet(Pids)
  BY ProcsAssumption, FS_Interval DEF Pids
<1>2. Holders(t) \subseteq Pids
  BY DEF Holders
<1> QED BY <1>1, <1>2, FS_Subset, FS_CardinalityType

\* A routine that neither takes nor frees a PCB.
LEMMA PagesUntouched ==
  ASSUME NEW t, PagesMatch(t), NEW u, u.nfreepages = t.nfreepages, Holders(u) = Holders(t)
  PROVE  PagesMatch(u)
BY DEF PagesMatch, Holders

\* A fork takes two pages and a PCB.
LEMMA PagesTaken ==
  ASSUME NEW t, Consistent(t), PagesMatch(t), t.freepcbs # <<>>,
         ~(t.nfreepages < PagesPerProcess), NEW u, u = TakeFirst(t)
  PROVE  PagesMatch(u)
<1> SUFFICES ASSUME NEW p, p = Head(t.freepcbs) PROVE PagesMatch(u)
  OBVIOUS
<1>1. /\ t \in Tables /\ t.freepcbs \in Seq(Pids) /\ p \in Pids
      /\ Tail(t.freepcbs) \in Seq(Pids) /\ p \in ToSet(t.freepcbs)
  BY HeadTailProperties, ElementInSet DEF Consistent, Tables
<1>2. t.flags[p] = "FREE"
  BY <1>1 DEF Consistent, QueuesMatch, WithStatus
<1>3. /\ \A q \in Pids : u.flags[q] = IF q = p THEN "RUNNABLE" ELSE t.flags[q]
      /\ u.nfreepages = t.nfreepages - PagesPerProcess /\ t.nfreepages \in Nat
  BY <1>1, TakenFields DEF Tables
<1>4. Holders(u) = Holders(t) \cup {p} /\ p \notin Holders(t)
  BY <1>1, <1>2, <1>3 DEF Holders, WithStatus
<1>5. Cardinality(Holders(u)) = Cardinality(Holders(t)) + 1
  BY <1>4, HoldersFinite, FS_AddElement
<1>6. Cardinality(Holders(t)) \in Nat /\ MEMORY_FREE_PAGES \in Nat
  BY HoldersFinite, PagesAssumption
<1> QED BY <1>3, <1>5, <1>6 DEF PagesMatch, Holders, PagesPerProcess

\* Giving back the PCBs of ps gives back the pages of their processes.
LEMMA PagesReturned ==
  ASSUME NEW t \in Tables, PagesMatch(t), NEW ps \in Seq(Pids),
         Len(ps) = 0 \/ (Len(ps) = 1 /\ t.flags[ps[1]] # "FREE"),
         NEW u, u = ProcessFreeResources(t, ps)
  PROVE  PagesMatch(u)
<1>1. /\ u.flags = [p \in Pids |-> IF p \in ToSet(ps) THEN "FREE" ELSE t.flags[p]]
      /\ u.nfreepages = t.nfreepages + PagesPerProcess * Len(ps) /\ t.nfreepages \in Nat
  BY DEF ProcessFreeResources, Tables
<1>2. CASE Len(ps) = 0
  <2>1. ToSet(ps) = {}
    BY <1>2 DEF ToSet
  <2>2. Holders(u) = Holders(t) /\ u.nfreepages = t.nfreepages
    BY <1>1, <1>2, <2>1 DEF Holders, WithStatus, PagesPerProcess
  <2> QED BY <2>2, PagesUntouched
<1>3. CASE Len(ps) = 1 /\ t.flags[ps[1]] # "FREE"
  <2>1. ToSet(ps) = {ps[1]} /\ ps[1] \in Pids
    <3>1. DOMAIN ps = {1}
      BY <1>3
    <3> QED BY <3>1 DEF ToSet
  <2>2. Holders(u) = Holders(t) \ {ps[1]} /\ ps[1] \in Holders(t)
    BY <1>1, <1>3, <2>1 DEF Holders, WithStatus
  <2>3. Cardinality(Holders(u)) = Cardinality(Holders(t)) - 1
    BY <2>2, HoldersFinite, FS_RemoveElement
  <2>4. Cardinality(Holders(t)) \in Nat /\ MEMORY_FREE_PAGES \in Nat
    BY HoldersFinite, PagesAssumption
  <2> QED BY <1>1, <1>3, <2>3, <2>4 DEF PagesMatch, Holders, PagesPerProcess
<1> QED BY <1>2, <1>3

LEMMA PagesScheduled ==
  ASSUME NEW t, Consistent(t), PagesMatch(t), Len(t.zombieQueue) \in 0 .. 1,
         NEW suspendFlag \in BOOLEAN, NEW u, u = ProcessSchedule(t, suspendFlag)
  PROVE  PagesMatch(u)
<1>1. /\ t \in Tables /\ t.runQueue \in Seq(Pids) /\ IsInjective(t.runQueue)
      /\ t.zombieQueue \in Seq(Pids) /\ ToSet(t.zombieQueue) = WithStatus(t, "ZOMBIE")
  BY DEF Consistent, Tables, QueuesMatch
<1>2. CASE t.runQueue = <<>>
  <2>1. u.nfreepages = t.nfreepages /\ u.flags = t.flags
    BY <1>1, <1>2 DEF ProcessSchedule, Exitsim, Tables
  <2>2. Holders(u) = Holders(t)
    BY <2>1 DEF Holders, WithStatus
  <2> QED BY <2>1, <2>2, PagesUntouched
<1>3. CASE t.runQueue # <<>>
  <2> DEFINE queue == IF suspendFlag THEN t.runQueue ELSE Rotate(t.runQueue)
             v     == [t EXCEPT !.runQueue = queue, !.currentPCB = Head(queue), !.zombieQueue = <<>>]
  <2>1. queue \in Seq(Pids) /\ queue # <<>> /\ Head(queue) \in Pids
    BY <1>1, <1>3, RotateQueue, HeadTailProperties
  <2>2. u = ProcessFreeResources(v, t.zombieQueue)
    BY <1>3 DEF ProcessSchedule
  <2> HIDE DEF queue
  <2>3. v \in Tables /\ v.flags = t.flags /\ v.nfreepages = t.nfreepages
    <3>1. <<>> \in Seq(Pids) /\ Head(queue) \in Pids \cup {INVALID_PROC}
      BY <2>1
    <3> QED BY <1>1, <2>1, <3>1 DEF Tables
  <2> HIDE DEF v
  <2>4. PagesMatch(v)
    <3>1. Holders(v) = Holders(t)
      BY <2>3 DEF Holders, WithStatus
    <3> QED BY <2>3, <3>1, PagesUntouched
  <2>5. Len(t.zombieQueue) = 1 => v.flags[t.zombieQueue[1]] # "FREE"
    BY <1>1, <2>3, ElementInSet DEF ToSet, WithStatus
  <2> QED BY <1>1, <2>2, <2>3, <2>4, <2>5, PagesReturned
<1> QED BY <1>2, <1>3

LEMMA PagesForked ==
  ASSUME NEW t, Consistent(t), PagesMatch(t), NEW loads \in BOOLEAN,
         NEW u, u = ProcessFork(t, loads)
  PROVE  PagesMatch(u)
<1>1. t \in Tables
  BY DEF Consistent
<1>2. CASE t.freepcbs = <<>> \/ t.nfreepages < PagesPerProcess
  <2>1. u.nfreepages = t.nfreepages /\ u.flags = t.flags
    BY <1>1, <1>2 DEF ProcessFork, Exitsim, Tables
  <2>2. Holders(u) = Holders(t)
    BY <2>1 DEF Holders, WithStatus
  <2> QED BY <2>1, <2>2, PagesUntouched
<1>3. CASE t.freepcbs # <<>> /\ ~(t.nfreepages < PagesPerProcess)
  <2> SUFFICES ASSUME NEW p, p = Head(t.freepcbs), NEW ps, ps = <<p>>,
                      NEW v, v = TakeFirst(t)
               PROVE  PagesMatch(u)
    OBVIOUS
  <2>1. p \in Pids /\ Detached(v, ps) /\ v.flags[p] = "RUNNABLE"
    BY <1>3, TakenDetached
  <2>2. PagesMatch(v)
    BY <1>3, PagesTaken
  <2>3. v \in Tables /\ ps \in Seq(Pids) /\ Len(ps) = 1 /\ ps[1] = p
    BY <2>1, Singleton DEF Detached
  <2>4. CASE ~loads
    <3>1. u = ProcessFreeResources(v, ps)
      BY <1>3, <2>4 DEF ProcessFork
    <3> QED BY <2>1, <2>2, <2>3, <3>1, PagesReturned
  <2>5. CASE loads
    <3>1. u = [v EXCEPT !.runQueue   = Append(@, p),
                        !.currentPCB = IF @ = INVALID_PROC THEN p ELSE @]
      BY <1>3, <2>5 DEF ProcessFork
    <3>2. u.nfreepages = v.nfreepages /\ u.flags = v.flags
      BY <2>3, <3>1 DEF Tables
    <3>3. Holders(u) = Holders(v)
      BY <3>2 DEF Holders, WithStatus
    <3> QED BY <2>2, <3>2, <3>3, PagesUntouched
  <2> QED BY <2>4, <2>5
<1> QED BY <1>2, <1>3

LEMMA PagesAfterExit ==
  ASSUME NEW t, Sound(t), Running(t), PagesMatch(t), NEW u, u = ProcessExit(t)
  PROVE  PagesMatch(u)
<1> SUFFICES ASSUME NEW p, p = t.currentPCB, NEW v, v = ProcessDestroy(t, p)
             PROVE  PagesMatch(u)
  OBVIOUS
<1>1. t \in Tables /\ t.zombieQueue = <<>> /\ p \in Pids /\ t.flags[p] = "RUNNABLE"
  BY CurrentLeaves DEF Sound
<1>2. Consistent(v)
  BY DestroyConsistent
<1>3. <<p>> \o t.zombieQueue = <<p>> /\ Len(<<p>>) = 1
  BY <1>1
<1>4. /\ v.flags = [t.flags EXCEPT ![p] = "ZOMBIE"] /\ v.nfreepages = t.nfreepages
      /\ v.zombieQueue = <<p>>
  BY <1>1, <1>3 DEF ProcessDestroy, Tables
<1>5. Holders(v) = Holders(t)
  BY <1>1, <1>4 DEF Holders, WithStatus, Tables
<1>6. PagesMatch(v)
  BY <1>4, <1>5, PagesUntouched
<1>7. u = ProcessSchedule(v, FALSE)
  BY DEF ProcessExit
<1>8. Len(v.zombieQueue) \in 0 .. 1
  BY <1>3, <1>4
<1> QED BY <1>2, <1>6, <1>7, <1>8, PagesScheduled

LEMMA PagesAfterCall ==
  ASSUME NEW t, Sound(t), Running(t), PagesMatch(t), NEW ps \in Seq(Pids), IsInjective(ps),
         ToSet(ps) \subseteq t.waitQueue, NEW blocks \in BOOLEAN,
         NEW u, u = AfterCall(t, ps, blocks)
  PROVE  PagesMatch(u)
<1> SUFFICES ASSUME NEW w, w = ProcessWakeup(t, ps), NEW p, p = w.currentPCB,
                    NEW v, v = ProcessSuspend(w, p)
             PROVE  PagesMatch(u)
  OBVIOUS
<1>1. Sound(w) /\ Running(w)
  BY WakeupSound
<1>2. t \in Tables /\ \A q \in ToSet(ps) : t.flags[q] = "WAITING"
  BY DEF Sound, Consistent, QueuesMatch, WithStatus
<1>3. /\ w.flags = [q \in Pids |-> IF q \in ToSet(ps) THEN "RUNNABLE" ELSE t.flags[q]]
      /\ w.nfreepages = t.nfreepages
  BY <1>2 DEF ProcessWakeup, Tables
<1>4. Holders(w) = Holders(t)
  BY <1>2, <1>3 DEF Holders, WithStatus
<1>5. PagesMatch(w)
  BY <1>3, <1>4, PagesUntouched
<1>6. CASE ~blocks
  BY <1>5, <1>6 DEF AfterCall
<1>7. CASE blocks
  <2>1. /\ w \in Tables /\ p \in Pids /\ w.flags[p] = "RUNNABLE" /\ w.zombieQueue = <<>>
    BY <1>1, CurrentLeaves DEF Sound
  <2>2. Consistent(v) /\ Running(v)
    BY <1>1, SuspendConsistent DEF Running
  <2>3. /\ v.flags = [w.flags EXCEPT ![p] = "WAITING"] /\ v.nfreepages = w.nfreepages
        /\ v.zombieQueue = <<>>
    BY <2>1 DEF ProcessSuspend, Tables
  <2>4. Holders(v) = Holders(w)
    BY <2>1, <2>3 DEF Holders, WithStatus, Tables
  <2>5. PagesMatch(v)
    BY <1>5, <2>3, <2>4, PagesUntouched
  <2>6. u = ProcessSchedule(v, TRUE)
    BY <1>1, <1>7, <2>2 DEF AfterCall, ProcessSleep
  <2>7. Len(v.zombieQueue) \in 0 .. 1
    BY <2>3
  <2> QED BY <2>2, <2>5, <2>6, <2>7, PagesScheduled
<1> QED BY <1>6, <1>7

\* A process has its two pages exactly while its PCB is not free: no fork, failed
\* fork or exit loses a page or frees one twice (process.c:110-171, 395-590).
THEOREM PagesStayAccounted == Spec => []PagesAccounted
<1>1. Init => PagesAccounted
  <2> SUFFICES ASSUME Init, NEW t, t = ProcessModuleInit PROVE PagesMatch(table)
    BY DEF PagesAccounted
  <2>1. /\ Consistent(t) /\ t.nfreepages = MEMORY_FREE_PAGES
        /\ \A q \in Pids : t.flags[q] = "FREE"
    BY BootTable
  <2>2. Holders(t) = {} /\ MEMORY_FREE_PAGES \in Nat
    BY <2>1, PagesAssumption DEF Holders, WithStatus
  <2>3. PagesMatch(t)
    BY <2>1, <2>2, FS_EmptySet DEF PagesMatch, Holders, PagesPerProcess
  <2>4. PICK loads \in BOOLEAN : table = ProcessFork(t, loads)
    BY DEF Init
  <2> QED BY <2>1, <2>3, <2>4, PagesForked
<1>2. TableIsSound /\ PagesAccounted /\ [Next]_table => PagesAccounted'
  <2> SUFFICES ASSUME Sound(table), PagesMatch(table), [Next]_table
               PROVE  PagesMatch(table')
    BY DEF TableIsSound, PagesAccounted
  <2>1. table \in Tables /\ Consistent(table)
    BY DEF Sound, Consistent
  <2>2. CASE Timer
    <3>1. table' = ProcessSchedule(table, FALSE) /\ table.zombieQueue = <<>>
      BY <2>2 DEF Timer, TimerInterrupt, Sound
    <3>2. Len(table.zombieQueue) \in 0 .. 1
      BY <3>1
    <3> QED BY <2>1, <3>1, <3>2, PagesScheduled
  <2>3. CASE Exit
    BY <2>3, PagesAfterExit DEF Exit
  <2>4. ASSUME NEW loads \in BOOLEAN, Fork(loads) PROVE PagesMatch(table')
    BY <2>1, <2>4, PagesForked DEF Fork
  <2>5. ASSUME NEW ps \in WakeOrders, NEW blocks \in BOOLEAN, KernelCall(ps, blocks)
        PROVE  PagesMatch(table')
    <3>1. ps \in Seq(Pids) /\ IsInjective(ps) /\ ToSet(ps) \subseteq table.waitQueue
      BY <2>1, WakeOrder
    <3>2. Running(table) /\ table' = AfterCall(table, ps, blocks)
      BY <2>5 DEF KernelCall
    <3> QED BY <3>1, <3>2, PagesAfterCall
  <2>6. CASE FatalCall
    <3>1. table'.nfreepages = table.nfreepages /\ table'.flags = table.flags
      BY <2>1, <2>6 DEF FatalCall, Exitsim, Tables
    <3>2. Holders(table') = Holders(table)
      BY <3>1 DEF Holders, WithStatus
    <3> QED BY <3>1, <3>2, PagesUntouched
  <2>7. CASE UNCHANGED table
    BY <2>7
  <2> QED BY <2>2, <2>3, <2>4, <2>5, <2>6, <2>7 DEF Next
<1> QED BY <1>1, <1>2, TableSound, PTL DEF Spec

-----------------------------------------------------------------------------
\* What the routines do to the run queue and to the processor.

LEMMA ScheduleQueue ==
  ASSUME NEW t \in Tables, NEW suspendFlag \in BOOLEAN,
         NEW u, u = ProcessSchedule(t, suspendFlag)
  PROVE  IF t.runQueue = <<>>
         THEN u.runQueue = <<>> /\ u.currentPCB = t.currentPCB
         ELSE u.runQueue = IF suspendFlag THEN t.runQueue ELSE Rotate(t.runQueue)
BY DEF ProcessSchedule, ProcessFreeResources, Exitsim, Tables

\* The running process sleeps or exits: its place is free, the others follow.
LEMMA ExitQueue ==
  ASSUME NEW t, Sound(t), Running(t), NEW p, p = t.currentPCB, NEW u, u = ProcessExit(t)
  PROVE  IF Tail(t.runQueue) = <<>>
         THEN u.runQueue = <<>> /\ u.currentPCB = p
         ELSE u.runQueue = Rotate(Tail(t.runQueue)) /\ u.flags[p] = "FREE"
<1> DEFINE v == ProcessDestroy(t, p)
<1>1. /\ t \in Tables /\ p \in Pids /\ t.zombieQueue = <<>>
      /\ t.runQueue \in Seq(Pids) /\ t.runQueue # <<>> /\ p = Head(t.runQueue)
  BY DEF Sound, Consistent, Tables, InFront
<1>2. RemoveFirst(t.runQueue, p) = Tail(t.runQueue)
  BY <1>1, RemoveFirstHead
<1>3. v \in Tables
  BY DestroyConsistent DEF Consistent
<1>4. /\ v.runQueue = Tail(t.runQueue) /\ v.currentPCB = p
      /\ p \in ToSet(v.zombieQueue)
  <2>1. <<p>> \o t.zombieQueue = <<p>> /\ ToSet(<<p>>) = {p}
    BY <1>1, Singleton
  <2> QED BY <1>1, <1>2, <2>1 DEF ProcessDestroy, Tables
<1>5. u = ProcessSchedule(v, FALSE)
  BY DEF ProcessExit
<1> HIDE DEF v
<1>6. IF v.runQueue = <<>>
      THEN u.runQueue = <<>> /\ u.currentPCB = v.currentPCB
      ELSE u.runQueue = Rotate(v.runQueue)
  BY <1>3, <1>5, ScheduleQueue
<1>7. v.runQueue # <<>> => u.flags[p] = "FREE"
  BY <1>1, <1>3, <1>4, <1>5 DEF ProcessSchedule, ProcessFreeResources, Tables
<1> QED BY <1>4, <1>6, <1>7

LEMMA CallQueue ==
  ASSUME NEW t, Sound(t), Running(t), NEW ps \in Seq(Pids), IsInjective(ps),
         ToSet(ps) \subseteq t.waitQueue, NEW blocks \in BOOLEAN,
         NEW p, p = t.currentPCB, NEW u, u = AfterCall(t, ps, blocks)
  PROVE  /\ IsInjective(t.runQueue \o ps)
         /\ IF blocks THEN /\ u.runQueue = Tail(t.runQueue \o ps)
                           /\ p \in u.waitQueue
                      ELSE u.runQueue = t.runQueue \o ps /\ u.currentPCB = p
<1> SUFFICES ASSUME NEW w, w = ProcessWakeup(t, ps)
             PROVE  /\ IsInjective(t.runQueue \o ps)
                    /\ IF blocks THEN /\ u.runQueue = Tail(t.runQueue \o ps)
                                      /\ p \in u.waitQueue
                                 ELSE u.runQueue = t.runQueue \o ps /\ u.currentPCB = p
  OBVIOUS
<1>1. Sound(w) /\ Running(w)
  BY WakeupSound
<1>2. t \in Tables
  BY DEF Sound, Consistent
<1>3. w.runQueue = t.runQueue \o ps /\ w.currentPCB = p
  BY <1>1, <1>2 DEF ProcessWakeup, Exitsim, Running, Tables
<1>4. /\ w \in Tables /\ p \in Pids /\ w.flags[p] = "RUNNABLE"
      /\ w.runQueue \in Seq(Pids) /\ w.runQueue # <<>> /\ p = Head(w.runQueue)
      /\ IsInjective(w.runQueue)
  <2>1. w \in Tables /\ p \in Pids /\ w.flags[p] = "RUNNABLE"
    BY <1>1, <1>3, CurrentLeaves
  <2> QED BY <1>1, <1>3, <2>1 DEF Sound, Consistent, Tables, QueuesMatch, InFront
<1>5. CASE ~blocks
  BY <1>3, <1>4, <1>5 DEF AfterCall
<1>6. CASE blocks
  <2> DEFINE v == ProcessSuspend(w, p)
  <2>1. v \in Tables /\ Running(v)
    BY <1>1, <1>3, SuspendConsistent DEF Consistent, Running
  <2>2. RemoveFirst(w.runQueue, p) = Tail(w.runQueue)
    BY <1>4, RemoveFirstHead
  <2>3. v.runQueue = Tail(w.runQueue) /\ p \in v.waitQueue
    BY <1>4, <2>2 DEF ProcessSuspend, Tables
  <2>4. u = ProcessSchedule(v, TRUE)
    BY <1>1, <1>3, <1>6, <2>1 DEF AfterCall, ProcessSleep
  <2> HIDE DEF v
  <2>5. u.runQueue = v.runQueue
    BY <2>1, <2>4, ScheduleQueue
  <2>6. u.waitQueue = v.waitQueue
    BY <2>1, <2>4 DEF ProcessSchedule, ProcessFreeResources, Exitsim, Tables
  <2> QED BY <1>3, <1>4, <1>6, <2>3, <2>5, <2>6
<1> QED BY <1>5, <1>6

LEMMA ForkQueue ==
  ASSUME NEW t, Sound(t), NEW loads \in BOOLEAN, NEW u, u = ProcessFork(t, loads)
  PROVE  /\ u.currentPCB = t.currentPCB
         /\ u.runQueue = t.runQueue \/ \E c \in Pids : u.runQueue = Append(t.runQueue, c)
<1>1. t \in Tables /\ t.currentPCB \in Pids /\ t.currentPCB # INVALID_PROC
  BY ProcsAssumption DEF Sound, Consistent, Pids, INVALID_PROC
<1>2. CASE t.freepcbs = <<>> \/ t.nfreepages < PagesPerProcess
  BY <1>1, <1>2 DEF ProcessFork, Exitsim, Tables
<1>3. CASE t.freepcbs # <<>> /\ ~(t.nfreepages < PagesPerProcess)
  <2> SUFFICES ASSUME NEW p, p = Head(t.freepcbs), NEW ps, ps = <<p>>,
                      NEW v, v = TakeFirst(t)
               PROVE  /\ u.currentPCB = t.currentPCB
                      /\ u.runQueue = t.runQueue \/ \E c \in Pids : u.runQueue = Append(t.runQueue, c)
    OBVIOUS
  <2>1. /\ p \in Pids /\ v \in Tables /\ v.runQueue = t.runQueue /\ v.currentPCB = t.currentPCB
    BY <1>3, TakenDetached DEF Sound, Detached
  <2>2. CASE ~loads
    BY <1>3, <2>1, <2>2 DEF ProcessFork, ProcessFreeResources, Tables
  <2>3. CASE loads
    <3>1. u = [v EXCEPT !.runQueue   = Append(@, p),
                        !.currentPCB = IF @ = INVALID_PROC THEN p ELSE @]
      BY <1>3, <2>3 DEF ProcessFork
    <3> QED BY <1>1, <2>1, <3>1 DEF Tables
  <2> QED BY <2>2, <2>3
<1> QED BY <1>2, <1>3

\* Wakeups and forks never preempt: the processor changes hands when its process
\* sleeps or exits, or when the timer moves it to the end of the queue.
THEOREM OnlyTimerPreempts == Spec => WakeupsDoNotPreempt
<1>1. TableIsSound /\ [Next]_table =>
        [table'.currentPCB # table.currentPCB =>
           \/ table.currentPCB \in table'.waitQueue
           \/ Exits(table.currentPCB)
           \/ table'.runQueue = Rotate(table.runQueue)]_table
  <2> SUFFICES ASSUME Sound(table), Next, table'.currentPCB # table.currentPCB,
                      NEW p, p = table.currentPCB
               PROVE  \/ p \in table'.waitQueue
                      \/ Exits(p)
                      \/ table'.runQueue = Rotate(table.runQueue)
    BY DEF TableIsSound
  <2>1. table \in Tables
    BY DEF Sound, Consistent
  <2>2. CASE Timer
    <3>1. table.runQueue # <<>> /\ table' = ProcessSchedule(table, FALSE)
      BY <2>2 DEF Timer, TimerInterrupt, Sound, InFront
    <3> QED BY <2>1, <3>1, ScheduleQueue
  <2>3. CASE Exit
    <3>1. Running(table) /\ table' = ProcessExit(table)
      BY <2>3 DEF Exit
    <3>2. table'.flags[p] = "FREE"
      BY <3>1, ExitQueue
    <3>3. table.flags[p] = "RUNNABLE"
      BY <3>1, CurrentLeaves
    <3> QED BY <3>2, <3>3 DEF Exits
  <2>4. ASSUME NEW loads \in BOOLEAN PROVE ~Fork(loads)
    BY ForkQueue DEF Fork
  <2>5. ASSUME NEW ps \in WakeOrders, NEW blocks \in BOOLEAN, KernelCall(ps, blocks)
        PROVE  p \in table'.waitQueue
    <3>1. ps \in Seq(Pids) /\ IsInjective(ps) /\ ToSet(ps) \subseteq table.waitQueue
      BY <2>1, WakeOrder
    <3>2. Running(table) /\ table' = AfterCall(table, ps, blocks)
      BY <2>5 DEF KernelCall
    <3> QED BY <3>1, <3>2, CallQueue
  <2>6. ~FatalCall
    BY <2>1 DEF FatalCall, Exitsim, Tables
  <2> QED BY <2>2, <2>3, <2>4, <2>5, <2>6 DEF Next
<1> QED BY <1>1, TableSound, PTL DEF Spec, WakeupsDoNotPreempt

-----------------------------------------------------------------------------
\* The order of the run queue.

\* In a queue without duplicates a process has one place.
LEMMA OnePlace ==
  ASSUME NEW S, NEW q \in Seq(S), IsInjective(q), NEW i \in 1 .. Len(q)
  PROVE  Place(q, q[i]) = i
<1>1. \A j \in DOMAIN q : q[j] = q[i] => j = i
  BY DEF IsInjective
<1>2. i \in DOMAIN q
  OBVIOUS
<1> QED BY <1>1, <1>2 DEF Place

LEMMA AheadByPlace ==
  ASSUME NEW S, NEW q \in Seq(S), IsInjective(q), NEW p, NEW r, Ahead(q, p, r)
  PROVE  \E i, j \in 1 .. Len(q) : i < j /\ q[i] = p /\ q[j] = r
<1>1. PICK i \in 1 .. Len(q) : q[i] = p
  BY DEF Ahead, ToSet
<1>2. PICK j \in 1 .. Len(q) : q[j] = r
  BY DEF Ahead, ToSet
<1>3. Place(q, p) = i /\ Place(q, r) = j
  BY <1>1, <1>2, OnePlace
<1> QED BY <1>1, <1>2, <1>3 DEF Ahead

LEMMA AheadOneWay ==
  ASSUME NEW S, NEW q \in Seq(S), IsInjective(q), NEW p, NEW r, Ahead(q, p, r)
  PROVE  ~Ahead(q, r, p)
<1>1. PICK i, j \in 1 .. Len(q) : i < j /\ q[i] = p /\ q[j] = r
  BY AheadByPlace
<1>2. Place(q, p) = i /\ Place(q, r) = j
  BY <1>1, OnePlace
<1> QED BY <1>1, <1>2 DEF Ahead

\* Adding processes at the end leaves the others in their order.
LEMMA OrderKeptByJoin ==
  ASSUME NEW S, NEW q \in Seq(S), NEW s \in Seq(S), IsInjective(q), IsInjective(q \o s),
         NEW p, NEW r, Ahead(q, p, r)
  PROVE  ~Ahead(q \o s, r, p) /\ Ahead(q \o s, p, r)
<1> DEFINE z == q \o s
<1>1. PICK i, j \in 1 .. Len(q) : i < j /\ q[i] = p /\ q[j] = r
  BY AheadByPlace
<1>2. /\ z \in Seq(S) /\ i \in 1 .. Len(z) /\ j \in 1 .. Len(z)
      /\ z[i] = p /\ z[j] = r
  BY <1>1
<1>3. Place(z, z[i]) = i /\ Place(z, z[j]) = j
  BY <1>2, OnePlace
<1>4. z[i] \in ToSet(z) /\ z[j] \in ToSet(z)
  BY <1>2 DEF ToSet
<1> QED BY <1>1, <1>2, <1>3, <1>4 DEF Ahead

\* So does taking away the first.
LEMMA OrderKeptByTail ==
  ASSUME NEW S, NEW q \in Seq(S), IsInjective(q), q # <<>>, NEW p, NEW r, Ahead(q, p, r),
         p \in ToSet(Tail(q)), r \in ToSet(Tail(q))
  PROVE  Ahead(Tail(q), p, r)
<1>1. Tail(q) \in Seq(S) /\ IsInjective(Tail(q))
  BY TailOfQueue
<1>2. Len(q) \in Nat \ {0} /\ Len(Tail(q)) = Len(q) - 1
      /\ \A i \in 1 .. Len(Tail(q)) : Tail(q)[i] = q[i + 1]
  OBVIOUS
<1>3. PICK i \in 1 .. Len(Tail(q)) : Tail(q)[i] = p
  BY <1>1 DEF ToSet
<1>4. PICK j \in 1 .. Len(Tail(q)) : Tail(q)[j] = r
  BY <1>1 DEF ToSet
<1>5. Place(Tail(q), p) = i /\ Place(Tail(q), r) = j
  BY <1>1, <1>3, <1>4, OnePlace
<1>6. i + 1 \in 1 .. Len(q) /\ j + 1 \in 1 .. Len(q) /\ q[i + 1] = p /\ q[j + 1] = r
  BY <1>2, <1>3, <1>4
<1>7. Place(q, p) = i + 1 /\ Place(q, r) = j + 1
  BY <1>6, OnePlace
<1> QED BY <1>3, <1>4, <1>5, <1>7 DEF Ahead

\* Moving the first to the end puts it behind the others, and no other.
LEMMA OrderAfterRotate ==
  ASSUME NEW S, NEW q \in Seq(S), IsInjective(q), q # <<>>, NEW p, NEW r,
         Ahead(q, p, r), Ahead(Rotate(q), r, p)
  PROVE  p = Head(q)
<1> SUFFICES ASSUME p # Head(q) PROVE FALSE
  OBVIOUS
<1>1. /\ Tail(q) \in Seq(S) /\ IsInjective(Tail(q)) /\ Head(q) \in S
      /\ ToSet(Tail(q)) = ToSet(q) \ {Head(q)}
  BY TailOfQueue
<1>2. r # Head(q)
  <2>1. PICK i, j \in 1 .. Len(q) : i < j /\ q[i] = p /\ q[j] = r
    BY AheadByPlace
  <2> QED BY <2>1 DEF IsInjective
<1>3. p \in ToSet(Tail(q)) /\ r \in ToSet(Tail(q))
  BY <1>1, <1>2 DEF Ahead
<1>4. Ahead(Tail(q), p, r)
  BY <1>3, OrderKeptByTail
<1> DEFINE s == <<Head(q)>>
<1>5. s \in Seq(S) /\ Rotate(q) = Tail(q) \o s /\ IsInjective(Rotate(q))
  BY <1>1, RotateQueue, AppendIsConcat DEF Rotate
<1> HIDE DEF s
<1>6. IsInjective(Tail(q) \o s)
  BY <1>5
<1>7. ~Ahead(Tail(q) \o s, r, p)
  BY <1>1, <1>4, <1>5, <1>6, OrderKeptByJoin
<1> QED BY <1>5, <1>7

\* A process that waits for its turn is overtaken only when the one in front of it
\* exits: the timer, sleeps, wakeups and forks keep the order (process.c:212-223).
THEOREM OrderIsKept == Spec => OvertakenByExitOnly
<1>1. TableIsSound /\ TableIsSound' /\ [Next]_table =>
        [\A p \in Pids :
           Overtaken(p) => \/ p = table.currentPCB
                           \/ Exits(table.currentPCB) /\ Place(table.runQueue, p) = 2]_table
  <2> SUFFICES ASSUME Sound(table), Sound(table'), Next, NEW p \in Pids, NEW r \in Pids,
                      NEW q, q = table.runQueue, NEW z, z = table'.runQueue,
                      Ahead(q, p, r), Ahead(z, r, p)
               PROVE  \/ p = table.currentPCB
                      \/ Exits(table.currentPCB) /\ Place(q, p) = 2
    BY DEF TableIsSound, Overtaken
  <2>1. /\ table \in Tables /\ q \in Seq(Pids) /\ IsInjective(q)
        /\ z \in Seq(Pids) /\ IsInjective(z)
    BY DEF Sound, Consistent, Tables, QueuesMatch
  <2>2. p \in ToSet(q) /\ r \in ToSet(q) /\ p \in ToSet(z) /\ r \in ToSet(z)
    BY DEF Ahead
  <2>3. Running(table) /\ q # <<>> /\ Head(q) = table.currentPCB
    <3>1. Running(table)
      BY DEF Next, Timer, Exit, Fork, KernelCall, FatalCall
    <3> QED BY <3>1 DEF Sound, InFront
  <2>4. z # q
    BY <2>1, AheadOneWay
  <2>5. CASE Timer
    <3>1. table' = ProcessSchedule(table, FALSE)
      BY <2>5 DEF Timer, TimerInterrupt
    <3>2. z = Rotate(q)
      BY <2>1, <2>3, <3>1, ScheduleQueue
    <3> QED BY <2>1, <2>3, <3>2, OrderAfterRotate
  <2>6. CASE Exit
    <3> DEFINE rest == Tail(q)
    <3>1. /\ rest \in Seq(Pids) /\ IsInjective(rest) /\ ToSet(rest) = ToSet(q) \ {Head(q)}
      BY <2>1, <2>3, TailOfQueue
    <3>2. table' = ProcessExit(table)
      BY <2>6 DEF Exit
    <3>3. rest # <<>> /\ z = Rotate(rest) /\ table'.flags[table.currentPCB] = "FREE"
      <4>1. z # <<>>
        BY <2>2 DEF ToSet
      <4> QED BY <2>3, <3>2, <4>1, ExitQueue
    <3>4. table.flags[table.currentPCB] = "RUNNABLE"
      BY <2>3, CurrentLeaves
    <3>5. ToSet(z) = ToSet(rest)
      BY <3>1, <3>3, RotateQueue
    <3> HIDE DEF rest
    <3>6. Ahead(rest, p, r)
      BY <2>1, <2>2, <2>3, <3>5, OrderKeptByTail DEF rest
    <3>7. p = Head(rest)
      BY <3>1, <3>3, <3>6, OrderAfterRotate
    <3>8. 2 \in 1 .. Len(q) /\ q[2] = p
      BY <2>1, <2>3, <3>3, <3>7 DEF rest
    <3>9. Place(q, p) = 2
      BY <2>1, <3>8, OnePlace
    <3> QED BY <3>3, <3>4, <3>9 DEF Exits
  <2>7. ASSUME NEW loads \in BOOLEAN, Fork(loads) PROVE FALSE
    <3>1. PICK c \in Pids : z = Append(q, c)
      BY <2>4, <2>7, ForkQueue DEF Fork
    <3> DEFINE s == <<c>>
    <3>2. s \in Seq(Pids) /\ z = q \o s
      BY <2>1, <3>1, AppendIsConcat, SMTT(30)
    <3> HIDE DEF s
    <3> QED BY <2>1, <3>2, OrderKeptByJoin
  <2>8. ASSUME NEW ps \in WakeOrders, NEW blocks \in BOOLEAN, KernelCall(ps, blocks)
        PROVE  FALSE
    <3>1. ps \in Seq(Pids) /\ IsInjective(ps) /\ ToSet(ps) \subseteq table.waitQueue
      BY <2>1, WakeOrder
    <3>2. table' = AfterCall(table, ps, blocks)
      BY <2>8 DEF KernelCall
    <3>3. IsInjective(q \o ps) /\ z = IF blocks THEN Tail(q \o ps) ELSE q \o ps
      <4> SUFFICES ASSUME NEW c, c = table.currentPCB
                   PROVE  IsInjective(q \o ps) /\ z = IF blocks THEN Tail(q \o ps) ELSE q \o ps
        OBVIOUS
      <4>1. /\ IsInjective(table.runQueue \o ps)
            /\ IF blocks THEN /\ table'.runQueue = Tail(table.runQueue \o ps)
                              /\ c \in table'.waitQueue
                         ELSE table'.runQueue = table.runQueue \o ps /\ table'.currentPCB = c
        BY <2>3, <3>1, <3>2, CallQueue
      <4> QED BY <4>1
    <3>4. Ahead(q \o ps, p, r)
      BY <2>1, <3>1, <3>3, OrderKeptByJoin
    <3>5. q \o ps \in Seq(Pids) /\ q \o ps # <<>>
      BY <2>1, <2>3, <3>1, ConcatProperties
    <3> SUFFICES ASSUME NEW y, y = q \o ps PROVE FALSE
      OBVIOUS
    <3>6. Ahead(z, p, r)
      BY <2>2, <3>3, <3>4, <3>5, OrderKeptByTail
    <3> QED BY <2>1, <3>6, AheadOneWay
  <2>9. ~FatalCall
    BY <2>1, <2>4 DEF FatalCall, Exitsim, Tables
  <2> QED BY <2>5, <2>6, <2>7, <2>8, <2>9 DEF Next
<1> QED BY <1>1, TableSound, PTL DEF Spec, OvertakenByExitOnly

-----------------------------------------------------------------------------
\* Handlers as steps of the scheduler.

\* A kernel call may wake nobody.
LEMMA WakeNobody ==
  ASSUME table \in Tables
  PROVE  <<>> \in WakeOrders
<1>1. {} \in SUBSET table.waitQueue
  OBVIOUS
<1>2. Cardinality({}) = 0
  BY FS_EmptySet
<1>3. <<>> \in [1 .. 0 -> {}] /\ \A i, j \in 1 .. 0 : i # j => <<>>[i] # <<>>[j]
  OBVIOUS
<1>4. <<>> \in SetToSeqs({})
  BY <1>2, <1>3 DEF SetToSeqs
<1> QED BY <1>1, <1>4 DEF WakeOrders, SetToAllKPermutations

LEMMA HandlersSchedule ==
  ASSUME table \in Tables, [NextInterrupt]_allVars
  PROVE  [Next]_table
<1>1. CASE TimerHandler
  BY <1>1 DEF TimerHandler, Next
<1>2. CASE KeyboardHandler \/ PrintfTrap
  BY <1>2 DEF KeyboardHandler, PrintfTrap, Undisturbed
<1>3. CASE ExitTrap
  BY <1>3 DEF ExitTrap, Next
<1>4. ASSUME NEW ps \in WakeOrders, SleepingCall(ps) PROVE Next
  BY <1>4 DEF SleepingCall, Next
<1>5. ASSUME NEW ps \in WakeOrders, NEW v \in Values, PlainCall(ps, v) PROVE Next
  BY <1>5 DEF PlainCall, Next
<1>6. ASSUME NEW v \in Values, EndOfCall(v) \/ EndOfFileTrap(v) PROVE UNCHANGED table
  BY <1>6 DEF EndOfCall, EndOfFileTrap
<1>7. CASE SleepAgain
  BY <1>7, WakeNobody DEF SleepAgain, Next
<1>8. CASE FileTrap
  BY <1>8 DEF FileTrap
<1>9. ASSUME NEW loads \in BOOLEAN, CreateTrap(loads) PROVE Next
  BY <1>9 DEF CreateTrap, Next
<1>10. CASE FaultHandler
  BY <1>10 DEF FaultHandler, Next
<1>11. CASE UNCHANGED allVars
  BY <1>11 DEF allVars
<1> QED BY <1>1, <1>2, <1>3, <1>4, <1>5, <1>6, <1>7, <1>8, <1>9, <1>10, <1>11
        DEF NextInterrupt

\* Whatever the handlers do with frames and registers, the table is sound.
THEOREM HandlersKeepTableSound == InterruptSpec => []TableIsSound
<1>1. InitMachine => TableIsSound
  BY InitSound DEF InitMachine
<1>2. TableIsSound /\ [NextInterrupt]_allVars => TableIsSound'
  <2>1. TableIsSound => table \in Tables
    BY DEF TableIsSound, Sound, Consistent
  <2> QED BY <2>1, HandlersSchedule, NextSound
<1> QED BY <1>1, <1>2, PTL DEF InterruptSpec

\* Traps and interrupts implement the scheduler, without its fairness, which is
\* the timer's.
THEOREM HandlersImplementScheduler == InterruptSpec => Init /\ [][Next]_table
<1>1. InitMachine => Init
  BY DEF InitMachine
<1>2. TableIsSound /\ [NextInterrupt]_allVars => [Next]_table
  <2>1. TableIsSound => table \in Tables
    BY DEF TableIsSound, Sound, Consistent
  <2> QED BY <2>1, HandlersSchedule
<1> QED BY <1>1, <1>2, HandlersKeepTableSound, PTL DEF InterruptSpec

-----------------------------------------------------------------------------
\* Frames.

UserFrames  == {f \in Frames : f.code = "user" /\ f.intrs = TRUE /\ f.at = 0}
InnerFrames == {f \in Frames : /\ f.code \in {"fileTrap", "call"} /\ f.at = 1
                               /\ f.intrs = (f.code = "fileTrap")}

\* The frames of a process that does not run: it was interrupted in its program,
\* with the result of its last call in r1, or in a handler above it.
Parked(fs, result, asleep) ==
  \/ ~asleep /\ \E u \in UserFrames : fs = <<u>> /\ u.r1 = result
  \/ \E x \in InnerFrames, u \in UserFrames : fs = <<x, u>> /\ (asleep => x.code = "call")

\* The process that runs: in its program, or in a handler above it.
InProgram(m, p, result) ==
  /\ m.cpu.code = "user" /\ m.cpu.intrs = TRUE /\ m.cpu.r1 = result
  /\ m.frames[p] = <<>> /\ m.sysStackPtr[p] = 0
InHandler(m, p) ==
  /\ m.cpu.code \in {"fileTrap", "call"} /\ m.cpu.intrs = (m.cpu.code = "fileTrap")
  /\ \E u \in UserFrames : m.frames[p] = <<u>>

\* The end of a handler, when its process is parked too.
Resumable(t, m, w) ==
  /\ m \in Machines /\ w \in [Pids -> Values]
  /\ \A p \in Pids : IF t.flags[p] = "FREE" THEN w[p] = 0
                      ELSE Parked(m.frames[p], w[p], t.flags[p] = "WAITING")

\* Between two handlers.
Nested(t, m, w) ==
  /\ m \in Machines /\ w \in [Pids -> Values]
  /\ \A p \in Pids : t.flags[p] = "FREE" => w[p] = 0
  /\ \A p \in Pids \ {t.currentPCB} :
       t.flags[p] # "FREE" => Parked(m.frames[p], w[p], t.flags[p] = "WAITING")
  /\ InProgram(m, t.currentPCB, w[t.currentPCB]) \/ InHandler(m, t.currentPCB)

\* The inductive invariant, beside TableIsSound.
MachineIsNested == Running(table) => Nested(table, machine, wants)

LEMMA TwoFrames ==
  ASSUME NEW S, NEW x \in S, NEW u \in S
  PROVE  <<x>> \o <<u>> = <<x, u>> /\ <<x, u>> \in Seq(S)
<1>1. /\ <<x>> \in Seq(S) /\ <<u>> \in Seq(S) /\ Len(<<x>>) = 1 /\ Len(<<u>>) = 1
      /\ <<x, u>> \in Seq(S) /\ Len(<<x, u>>) = 2
  OBVIOUS
<1>2. <<x>> \o <<u>> \in Seq(S) /\ Len(<<x>> \o <<u>>) = 2
  BY <1>1
<1>3. \A i \in 1 .. 2 : (<<x>> \o <<u>>)[i] = <<x, u>>[i]
  BY <1>1
<1> QED BY <1>1, <1>2, <1>3, SeqEqual

\* Interrupts go off, and fs are the frames of p.
Masked(registers) == [registers EXCEPT !.intrs = FALSE]
Push(m, p, fs)    == [m EXCEPT !.frames[p] = fs, !.cpu = Masked(@)]

LEMMA Pushed ==
  ASSUME NEW m \in Machines, NEW p \in Pids, NEW fs \in Seq(Frames),
         NEW e, e = Push(m, p, fs)
  PROVE  /\ e \in Machines /\ e.cpu = Masked(m.cpu) /\ e.frames[p] = fs
         /\ \A q \in Pids \ {p} : e.frames[q] = m.frames[q]
<1> DEFINE frames == [m.frames EXCEPT ![p] = fs]
           regs   == Masked(m.cpu)
<1>1. /\ frames \in [Pids -> Seq(Frames)] /\ frames[p] = fs
      /\ \A q \in Pids \ {p} : frames[q] = m.frames[q]
  BY DEF Machines
<1>2. regs \in CpuStates
  BY DEF Machines, CpuStates, Masked
<1>3. e = [m EXCEPT !.frames = frames, !.cpu = regs]
  BY DEF Push, Machines
<1> HIDE DEF frames, regs
<1>4. e \in Machines /\ e.frames = frames /\ e.cpu = regs
  BY <1>1, <1>2, <1>3 DEF Machines
<1> QED BY <1>1, <1>4 DEF regs

\* _intrhandler parks the process that runs.
LEMMA Parking ==
  ASSUME NEW m \in Machines, NEW p \in Pids, NEW result,
         InProgram(m, p, result) \/ InHandler(m, p),
         NEW e, e = intrhandler(m, p)
  PROVE  /\ e \in Machines /\ e.cpu = Masked(m.cpu)
         /\ \A q \in Pids \ {p} : e.frames[q] = m.frames[q]
         /\ Parked(e.frames[p], result, m.cpu.code = "call")
         /\ InProgram(m, p, result) =>
              \E u \in UserFrames : e.frames[p] = <<u>> /\ u.r1 = result
<1> DEFINE place == IF m.cpu.code = "user" THEN m.sysStackPtr[p] ELSE Head(m.frames[p]).at + 1
           frame == [code |-> m.cpu.code, intrs |-> m.cpu.intrs, r1 |-> m.cpu.r1, at |-> place]
<1>1. /\ m.frames \in [Pids -> Seq(Frames)] /\ m.cpu \in CpuStates
      /\ m.sysStackPtr \in [Pids -> Nat]
  BY DEF Machines
<1>2. CASE InProgram(m, p, result)
  <2>1. frame \in UserFrames /\ frame.r1 = result
    BY <1>1, <1>2 DEF InProgram, UserFrames, Frames, CpuStates
  <2>2. <<frame>> \o m.frames[p] = <<frame>> /\ <<frame>> \in Seq(Frames)
    BY <1>2, <2>1 DEF InProgram, UserFrames
  <2> DEFINE fs == <<frame>>
  <2>3. fs \in Seq(Frames) /\ e = Push(m, p, fs)
    BY <2>2 DEF intrhandler, Push, Masked
  <2>4. fs = <<frame>>
    OBVIOUS
  <2>5. m.cpu.code # "call"
    BY <1>2 DEF InProgram
  <2> HIDE DEF frame, fs
  <2>6. /\ e \in Machines /\ e.cpu = Masked(m.cpu) /\ e.frames[p] = fs
        /\ \A q \in Pids \ {p} : e.frames[q] = m.frames[q]
    BY <2>3, Pushed
  <2> QED BY <2>1, <2>4, <2>5, <2>6 DEF Parked
<1>3. CASE InHandler(m, p)
  <2>1. PICK u \in UserFrames : m.frames[p] = <<u>>
    BY <1>3 DEF InHandler
  <2>2. place = 1
    BY <1>3, <2>1 DEF InHandler, UserFrames, Frames
  <2>3. frame \in InnerFrames /\ frame.code = m.cpu.code
    BY <1>1, <1>3, <2>2 DEF InHandler, InnerFrames, Frames, CpuStates
  <2>4. <<frame>> \o m.frames[p] = <<frame, u>> /\ <<frame, u>> \in Seq(Frames)
    <3>1. frame \in Frames /\ u \in Frames
      BY <2>3 DEF UserFrames, InnerFrames
    <3> HIDE DEF frame
    <3> QED BY <2>1, <3>1, TwoFrames
  <2> DEFINE fs == <<frame, u>>
  <2>5. fs \in Seq(Frames) /\ e = Push(m, p, fs)
    BY <2>4 DEF intrhandler, Push, Masked
  <2>6. fs = <<frame, u>>
    OBVIOUS
  <2>7. ~InProgram(m, p, result)
    BY <1>3 DEF InHandler, InProgram
  <2> HIDE DEF frame, place, fs
  <2>8. /\ e \in Machines /\ e.cpu = Masked(m.cpu) /\ e.frames[p] = fs
        /\ \A q \in Pids \ {p} : e.frames[q] = m.frames[q]
    BY <2>5, Pushed
  <2> QED BY <2>1, <2>3, <2>6, <2>7, <2>8 DEF Parked
<1> QED BY <1>2, <1>3

\* _intrreturn takes a parked process up again.
LEMMA Resuming ==
  ASSUME NEW t, Sound(t), Running(t), NEW m, NEW w, Resumable(t, m, w)
  PROVE  Nested(t, Resume(m, t), w)
<1> DEFINE p == t.currentPCB
           n == NoFrames(t, m)
           e == intrreturn(n, p)
<1>1. p \in Pids /\ t.flags[p] = "RUNNABLE"
  BY CurrentLeaves
<1>2. /\ m.frames \in [Pids -> Seq(Frames)] /\ m.cpu \in CpuStates
      /\ m.sysStackPtr \in [Pids -> Nat] /\ w \in [Pids -> Values]
  BY DEF Resumable, Machines
<1>3. /\ n \in Machines
      /\ \A q \in Pids : t.flags[q] # "FREE" => n.frames[q] = m.frames[q]
  <2> DEFINE frames == [q \in Pids |-> IF t.flags[q] = "FREE" THEN <<>> ELSE m.frames[q]]
             stacks == [q \in Pids |-> IF t.flags[q] = "FREE" THEN 0 ELSE m.sysStackPtr[q]]
  <2>1. /\ frames \in [Pids -> Seq(Frames)] /\ stacks \in [Pids -> Nat]
        /\ \A q \in Pids : t.flags[q] # "FREE" => frames[q] = m.frames[q]
    BY <1>2
  <2>2. m \in Machines
    BY DEF Resumable
  <2>3. n = [m EXCEPT !.frames = frames, !.sysStackPtr = stacks]
    BY <2>2 DEF NoFrames, Machines
  <2> HIDE DEF frames, stacks, n
  <2>4. n \in Machines /\ n.frames = frames
    BY <2>1, <2>2, <2>3 DEF Machines
  <2> QED BY <2>1, <2>4
<1>4. Parked(n.frames[p], w[p], FALSE)
  BY <1>1, <1>3 DEF Resumable
<1>5. Resume(m, t) = e
  BY DEF Resume
<1> HIDE DEF n
<1>6. ASSUME NEW f \in Frames, NEW fs \in Seq(Frames), Head(n.frames[p]) = f, Tail(n.frames[p]) = fs
      PROVE  /\ e \in Machines
             /\ e.frames[p] = fs /\ e.sysStackPtr[p] = f.at
             /\ e.cpu = [code |-> f.code, intrs |-> f.intrs, r1 |-> f.r1]
             /\ \A q \in Pids \ {p} : e.frames[q] = n.frames[q]
  <2>1. e = [n EXCEPT !.frames[p]      = fs,
                      !.sysStackPtr[p] = f.at,
                      !.cpu = [code |-> f.code, intrs |-> f.intrs, r1 |-> f.r1]]
    BY <1>6 DEF intrreturn
  <2>2. [code |-> f.code, intrs |-> f.intrs, r1 |-> f.r1] \in CpuStates /\ f.at \in Nat
    BY DEF Frames, CpuStates
  <2> HIDE DEF e
  <2> QED BY <1>1, <1>3, <2>1, <2>2, <1>6 DEF Machines
<1> HIDE DEF e
<1>7. /\ e \in Machines
      /\ \A q \in Pids \ {p} : e.frames[q] = n.frames[q]
      /\ InProgram(e, p, w[p]) \/ InHandler(e, p)
  <2>1. CASE \E u \in UserFrames : n.frames[p] = <<u>> /\ u.r1 = w[p]
    <3>1. PICK u \in UserFrames : n.frames[p] = <<u>> /\ u.r1 = w[p]
      BY <2>1
    <3>2. Head(n.frames[p]) = u /\ Tail(n.frames[p]) = <<>> /\ u \in Frames /\ <<>> \in Seq(Frames)
      BY <3>1 DEF UserFrames
    <3>3. /\ e \in Machines /\ \A q \in Pids \ {p} : e.frames[q] = n.frames[q]
          /\ e.frames[p] = <<>> /\ e.sysStackPtr[p] = u.at
          /\ e.cpu = [code |-> u.code, intrs |-> u.intrs, r1 |-> u.r1]
      BY <3>2, <1>6
    <3>4. u.code = "user" /\ u.intrs = TRUE /\ u.at = 0
      BY DEF UserFrames
    <3> QED BY <3>1, <3>3, <3>4 DEF InProgram
  <2>2. CASE \E x \in InnerFrames, u \in UserFrames : n.frames[p] = <<x, u>>
    <3>1. PICK x \in InnerFrames, u \in UserFrames : n.frames[p] = <<x, u>>
      BY <2>2
    <3>2. /\ Head(n.frames[p]) = x /\ Tail(n.frames[p]) = <<u>>
          /\ x \in Frames /\ <<u>> \in Seq(Frames)
      BY <3>1 DEF UserFrames, InnerFrames
    <3>3. /\ e \in Machines /\ \A q \in Pids \ {p} : e.frames[q] = n.frames[q]
          /\ e.frames[p] = <<u>>
          /\ e.cpu = [code |-> x.code, intrs |-> x.intrs, r1 |-> x.r1]
      BY <3>2, <1>6
    <3>4. x.code \in {"fileTrap", "call"} /\ x.intrs = (x.code = "fileTrap")
      BY DEF InnerFrames
    <3> QED BY <3>1, <3>3, <3>4 DEF InHandler
  <2> QED BY <1>4, <2>1, <2>2 DEF Parked
<1> QED BY <1>2, <1>3, <1>5, <1>7 DEF Nested, Resumable

-----------------------------------------------------------------------------
\* The handlers.

\* A handler starts with its process parked, like all others.
LEMMA Entering ==
  ASSUME Sound(table), Running(table), MachineIsNested,
         NEW p, p = Current, NEW e, e = Entered
  PROVE  /\ p \in Pids /\ table.flags[p] = "RUNNABLE"
         /\ machine \in Machines /\ wants \in [Pids -> Values]
         /\ cpu.intrs = (cpu.code # "call")
         /\ InProgram(machine, p, wants[p]) \/ InHandler(machine, p)
         /\ e \in Machines /\ e.cpu = Masked(cpu)
         /\ Parked(e.frames[p], wants[p], cpu.code = "call")
         /\ cpu.code = "user" => \E u \in UserFrames : e.frames[p] = <<u>> /\ u.r1 = wants[p]
         /\ \A q \in Pids \ {p} :
              /\ e.frames[q] = machine.frames[q]
              /\ table.flags[q] # "FREE" =>
                   Parked(machine.frames[q], wants[q], table.flags[q] = "WAITING")
         /\ \A q \in Pids : table.flags[q] = "FREE" => wants[q] = 0
<1>1. p \in Pids /\ table.flags[p] = "RUNNABLE"
  BY CurrentLeaves DEF Current
<1>2. Nested(table, machine, wants)
  BY DEF MachineIsNested
<1>3. InProgram(machine, p, wants[p]) \/ InHandler(machine, p)
  BY <1>2 DEF Nested, Current
<1>4. e = intrhandler(machine, p)
  BY DEF Entered
<1>5. machine \in Machines /\ wants \in [Pids -> Values]
  BY <1>2 DEF Nested
<1>6. /\ e \in Machines /\ e.cpu = Masked(machine.cpu)
      /\ \A q \in Pids \ {p} : e.frames[q] = machine.frames[q]
      /\ Parked(e.frames[p], wants[p], machine.cpu.code = "call")
      /\ InProgram(machine, p, wants[p]) =>
           \E u \in UserFrames : e.frames[p] = <<u>> /\ u.r1 = wants[p]
  BY <1>1, <1>3, <1>4, <1>5, Parking
<1>7. cpu.intrs = (cpu.code # "call") /\ (cpu.code = "user" => InProgram(machine, p, wants[p]))
  BY <1>3 DEF InProgram, InHandler, cpu
<1> QED BY <1>1, <1>2, <1>3, <1>5, <1>6, <1>7 DEF Nested, Current, cpu

\* Frames from which a sleeper can be resumed will do when it is awake, too.
LEMMA ParkedAwake ==
  ASSUME NEW fs, NEW result, NEW asleep, Parked(fs, result, asleep)
  PROVE  Parked(fs, result, FALSE)
BY DEF Parked

\* ProcessSetResult reaches the frame of the program.
LEMMA ResultParked ==
  ASSUME NEW m \in Machines, NEW p \in Pids, NEW u \in UserFrames, m.frames[p] = <<u>>,
         NEW v \in Values, NEW e, e = ProcessSetResult(m, p, v)
  PROVE  /\ e \in Machines
         /\ \A q \in Pids \ {p} : e.frames[q] = m.frames[q]
         /\ Parked(e.frames[p], v, FALSE)
<1> DEFINE f      == [u EXCEPT !.r1 = v]
           frames == [m.frames EXCEPT ![p] = <<f>>]
<1>1. f \in UserFrames /\ f.r1 = v
  BY DEF UserFrames, Frames
<1>2. [Head(m.frames[p]) EXCEPT !.r1 = v] = f /\ Tail(m.frames[p]) = <<>>
  OBVIOUS
<1>3. f \in Frames /\ <<f>> \o <<>> = <<f>> /\ <<f>> \in Seq(Frames)
  BY <1>1 DEF UserFrames
<1> HIDE DEF f
<1>4. /\ frames \in [Pids -> Seq(Frames)] /\ frames[p] = <<f>>
      /\ \A q \in Pids \ {p} : frames[q] = m.frames[q]
  BY <1>3 DEF Machines
<1>5. e = [m EXCEPT !.frames = frames]
  BY <1>2, <1>3 DEF ProcessSetResult, Machines
<1> HIDE DEF frames
<1>6. e \in Machines /\ e.frames = frames
  BY <1>4, <1>5 DEF Machines
<1> QED BY <1>1, <1>4, <1>6 DEF Parked

\* A new process is parked in front of its first instruction.
LEMMA NewStackParked ==
  ASSUME NEW m \in Machines, NEW c \in Pids, NEW e, e = NewStack(m, c)
  PROVE  /\ e \in Machines /\ Parked(e.frames[c], 0, FALSE)
         /\ \A q \in Pids \ {c} : e.frames[q] = m.frames[q]
<1> DEFINE frames == [m.frames EXCEPT ![c] = <<FirstFrame>>]
           stacks == [m.sysStackPtr EXCEPT ![c] = 1]
<1>1. FirstFrame \in UserFrames /\ FirstFrame.r1 = 0
  BY DEF FirstFrame, UserFrames, Frames, Codes, Values
<1>2. <<FirstFrame>> \in Seq(Frames)
  BY <1>1 DEF UserFrames
<1>3. /\ frames \in [Pids -> Seq(Frames)] /\ stacks \in [Pids -> Nat]
      /\ frames[c] = <<FirstFrame>> /\ \A q \in Pids \ {c} : frames[q] = m.frames[q]
  BY <1>2 DEF Machines
<1>4. e = [m EXCEPT !.frames = frames, !.sysStackPtr = stacks]
  BY DEF NewStack, Machines
<1> HIDE DEF frames, stacks
<1>5. e \in Machines /\ e.frames = frames
  BY <1>3, <1>4 DEF Machines
<1> QED BY <1>1, <1>3, <1>5 DEF Parked

\* A handler that answers ends with its process parked behind the answer, and
\* the others where they were.
LEMMA Answering ==
  ASSUME Sound(table), Running(table), MachineIsNested, Sound(table'), Running(table'),
         NEW m \in Machines, NEW u \in UserFrames, m.frames[Current] = <<u>>,
         \A q \in Pids \ {Current} : m.frames[q] = machine.frames[q],
         NEW v \in Values, Answer(m, v),
         table'.flags[Current] = "RUNNABLE",
         \A q \in Pids : table'.flags[q] \in {"RUNNABLE", table.flags[q]},
         \A q \in Pids : table.flags[q] = "FREE" => table'.flags[q] = "FREE"
  PROVE  Nested(table', machine', wants')
<1> DEFINE p == Current
           e == ProcessSetResult(m, p, v)
<1>1. /\ p \in Pids /\ table.flags[p] = "RUNNABLE" /\ wants \in [Pids -> Values]
      /\ \A q \in Pids \ {p} : table.flags[q] # "FREE" =>
           Parked(machine.frames[q], wants[q], table.flags[q] = "WAITING")
      /\ \A q \in Pids : table.flags[q] = "FREE" => wants[q] = 0
  BY Entering
<1>2. /\ e \in Machines
      /\ \A q \in Pids \ {p} : e.frames[q] = m.frames[q]
      /\ Parked(e.frames[p], v, FALSE)
  BY <1>1, ResultParked
<1>3. machine' = Resume(e, table') /\ wants' = [wants EXCEPT ![p] = v]
  BY DEF Answer
<1> HIDE DEF p, e
<1>4. wants' \in [Pids -> Values] /\ wants'[p] = v /\ \A q \in Pids \ {p} : wants'[q] = wants[q]
  BY <1>1, <1>3
<1>5. ASSUME NEW q \in Pids, table'.flags[q] # "FREE"
      PROVE  Parked(e.frames[q], wants'[q], table'.flags[q] = "WAITING")
  <2>1. CASE q = p
    BY <1>2, <1>4, <2>1 DEF p
  <2>2. CASE q # p
    <3>1. Parked(e.frames[q], wants'[q], table.flags[q] = "WAITING")
      BY <1>1, <1>2, <1>4, <1>5, <2>2 DEF p
    <3> QED BY <3>1, ParkedAwake
  <2> QED BY <2>1, <2>2
<1>6. Resumable(table', e, wants')
  BY <1>1, <1>2, <1>4, <1>5 DEF Resumable, p
<1> QED BY <1>3, <1>6, Resuming

\* A handler that gives no answer, to a process that may go to sleep in it.
LEMMA Yielding ==
  ASSUME Sound(table), Running(table), MachineIsNested, Sound(table'), Running(table'),
         NEW m \in Machines, NEW asleep \in BOOLEAN, Parked(m.frames[Current], wants[Current], asleep),
         \A q \in Pids \ {Current} : m.frames[q] = machine.frames[q],
         machine' = Resume(m, table'), wants' = wants,
         table'.flags[Current] = IF asleep THEN "WAITING" ELSE "RUNNABLE",
         \A q \in Pids \ {Current} : table'.flags[q] \in {"RUNNABLE", table.flags[q]},
         \A q \in Pids : table.flags[q] = "FREE" => table'.flags[q] = "FREE"
  PROVE  Nested(table', machine', wants')
<1> DEFINE p == Current
<1>1. /\ p \in Pids /\ table.flags[p] = "RUNNABLE" /\ wants \in [Pids -> Values]
      /\ \A q \in Pids \ {p} : table.flags[q] # "FREE" =>
           Parked(machine.frames[q], wants[q], table.flags[q] = "WAITING")
      /\ \A q \in Pids : table.flags[q] = "FREE" => wants[q] = 0
  BY Entering
<1> HIDE DEF p
<1>2. ASSUME NEW q \in Pids, table'.flags[q] # "FREE"
      PROVE  Parked(m.frames[q], wants[q], table'.flags[q] = "WAITING")
  <2>1. CASE q = p
    BY <2>1 DEF p
  <2>2. CASE q # p
    <3>1. Parked(m.frames[q], wants[q], table.flags[q] = "WAITING")
      BY <1>1, <1>2, <2>2 DEF p
    <3> QED BY <2>2, <3>1, ParkedAwake DEF p
  <2> QED BY <2>1, <2>2
<1>3. Resumable(table', m, wants)
  BY <1>1, <1>2 DEF Resumable, p
<1> QED BY <1>3, Resuming

\* Every handler leaves the frames nested.
LEMMA HandlersNest ==
  ASSUME Sound(table), Running(table), MachineIsNested, NextInterrupt,
         Sound(table'), Running(table')
  PROVE  Nested(table', machine', wants')
<1> SUFFICES ASSUME NEW p, p = Current, NEW e, e = Entered
             PROVE  Nested(table', machine', wants')
  OBVIOUS
<1>1. table \in Tables /\ table' \in Tables
  BY DEF Sound, Consistent
<1>2. /\ p \in Pids /\ table.flags[p] = "RUNNABLE"
      /\ machine \in Machines /\ wants \in [Pids -> Values]
      /\ cpu.intrs = (cpu.code # "call")
      /\ InProgram(machine, p, wants[p]) \/ InHandler(machine, p)
      /\ e \in Machines /\ e.cpu = Masked(cpu)
      /\ Parked(e.frames[p], wants[p], cpu.code = "call")
      /\ cpu.code = "user" => \E u \in UserFrames : e.frames[p] = <<u>> /\ u.r1 = wants[p]
      /\ \A q \in Pids \ {p} :
           /\ e.frames[q] = machine.frames[q]
           /\ table.flags[q] # "FREE" =>
                Parked(machine.frames[q], wants[q], table.flags[q] = "WAITING")
      /\ \A q \in Pids : table.flags[q] = "FREE" => wants[q] = 0
  BY Entering
<1>3. ASSUME cpu.code # "call", machine' = Resume(e, table'), wants' = wants,
             \A q \in Pids : table'.flags[q] = table.flags[q]
      PROVE  Nested(table', machine', wants')
  <2>1. Parked(e.frames[p], wants[p], FALSE)
    BY <1>2, ParkedAwake
  <2> QED BY <1>2, <1>3, <2>1, Yielding
<1>4. ASSUME NEW ps \in WakeOrders, NEW blocks \in BOOLEAN, KernelCall(ps, blocks)
      PROVE  /\ table'.flags[p] = IF blocks THEN "WAITING" ELSE "RUNNABLE"
             /\ \A q \in Pids \ {p} : table'.flags[q] \in {"RUNNABLE", table.flags[q]}
             /\ \A q \in Pids : table.flags[q] = "FREE" => table'.flags[q] = "FREE"
  <2>1. ps \in Seq(Pids) /\ IsInjective(ps) /\ ToSet(ps) \subseteq table.waitQueue
    BY <1>1, WakeOrder
  <2>2. table' = AfterCall(table, ps, blocks) /\ p = table.currentPCB
    BY <1>4 DEF KernelCall, Current
  <2> QED BY <2>1, <2>2, CallFlags
<1>5. CASE TimerHandler
  <2>1. table' = TimerInterrupt(table) /\ cpu.code # "call"
    BY <1>2, <1>5 DEF TimerHandler, Timer
  <2>2. \A q \in Pids : table'.flags[q] = table.flags[q]
    BY <2>1, TimerFlags
  <2> QED BY <1>3, <1>5, <2>1, <2>2 DEF TimerHandler
<1>6. CASE KeyboardHandler \/ PrintfTrap
  <2>1. Undisturbed /\ cpu.code # "call"
    BY <1>2, <1>6 DEF KeyboardHandler, PrintfTrap, InUser
  <2> QED BY <1>3, <2>1 DEF Undisturbed
<1>7. CASE ExitTrap
  <2>1. /\ table' = ProcessExit(table) /\ cpu.code # "call" /\ p = table.currentPCB
        /\ machine' = Resume(e, table') /\ wants' = [wants EXCEPT ![p] = 0]
    BY <1>7 DEF ExitTrap, Exit, InUser, Current
  <2>2. \A q \in Pids : table'.flags[q] = IF q = p THEN "FREE" ELSE table.flags[q]
    BY <2>1, ExitFlags
  <2>3. /\ wants' \in [Pids -> Values] /\ wants'[p] = 0
        /\ \A q \in Pids \ {p} : wants'[q] = wants[q]
    BY <1>2, <2>1 DEF Values
  <2>4. Resumable(table', e, wants')
    BY <1>2, <2>2, <2>3 DEF Resumable
  <2> QED BY <2>1, <2>4, Resuming
<1>8. ASSUME NEW ps \in WakeOrders, SleepingCall(ps)
      PROVE  Nested(table', machine', wants')
  <2> DEFINE inCall == [e EXCEPT !.cpu.code = "call"]
             m      == intrhandler(inCall, p)
  <2>1. /\ cpu.code = "user" /\ KernelCall(ps, TRUE)
        /\ machine' = Resume(m, table') /\ wants' = wants
    BY <1>8 DEF SleepingCall, InUser
  <2>2. /\ inCall \in Machines /\ inCall.frames = e.frames
        /\ inCall.cpu.code = "call" /\ inCall.cpu.intrs = FALSE
    BY <1>2 DEF Machines, CpuStates, Codes, Masked, cpu
  <2>3. /\ InProgram(inCall, p, wants[p]) \/ InHandler(inCall, p)
        /\ m = intrhandler(inCall, p) /\ p \in Pids
    BY <1>2, <2>1, <2>2 DEF InHandler
  <2> HIDE DEF m, inCall
  <2>4. /\ m \in Machines /\ Parked(m.frames[p], wants[p], inCall.cpu.code = "call")
        /\ \A q \in Pids \ {p} : m.frames[q] = inCall.frames[q]
    BY <2>2, <2>3, Parking
  <2>5. \A q \in Pids \ {p} : m.frames[q] = machine.frames[q]
    BY <1>2, <2>2, <2>4
  <2>6. Parked(m.frames[p], wants[p], TRUE)
    BY <2>2, <2>4
  <2> QED BY <1>4, <2>1, <2>4, <2>5, <2>6, Yielding
<1>9. ASSUME NEW ps \in WakeOrders, NEW v \in Values, PlainCall(ps, v)
      PROVE  Nested(table', machine', wants')
  <2>1. cpu.code = "user" /\ KernelCall(ps, FALSE) /\ Answer(e, v)
    BY <1>9 DEF PlainCall, InUser
  <2> QED BY <1>2, <1>4, <2>1, Answering
<1>10. ASSUME NEW v \in Values, EndOfCall(v)
       PROVE  Nested(table', machine', wants')
  <2>1. cpu.code = "call" /\ table' = table /\ Answer(machine, v)
    BY <1>10 DEF EndOfCall
  <2>2. PICK u \in UserFrames : machine.frames[p] = <<u>>
    BY <1>2, <2>1 DEF InProgram, InHandler, cpu
  <2> QED BY <1>2, <2>1, <2>2, Answering
<1>11. ASSUME NEW v \in Values, EndOfFileTrap(v)
       PROVE  Nested(table', machine', wants')
  <2> DEFINE m == [machine EXCEPT !.cpu.intrs = FALSE]
  <2>1. cpu.code = "fileTrap" /\ table' = table /\ Answer(m, v)
    BY <1>11 DEF EndOfFileTrap
  <2>2. PICK u \in UserFrames : machine.frames[p] = <<u>>
    BY <1>2, <2>1 DEF InProgram, InHandler, cpu
  <2>3. m \in Machines /\ m.frames = machine.frames
    BY <1>2 DEF Machines, CpuStates
  <2> HIDE DEF m
  <2> QED BY <1>2, <2>1, <2>2, <2>3, Answering
<1>12. CASE SleepAgain
  <2> DEFINE m == intrhandler(machine, p)
  <2>1. /\ cpu.code = "call" /\ KernelCall(<<>>, TRUE)
        /\ machine' = Resume(m, table') /\ wants' = wants
    BY <1>12 DEF SleepAgain
  <2>2. <<>> \in WakeOrders
    BY <1>1, WakeNobody
  <2>3. /\ InProgram(machine, p, wants[p]) \/ InHandler(machine, p)
        /\ m = intrhandler(machine, p) /\ machine.cpu.code = "call"
    BY <1>2, <2>1 DEF cpu
  <2> HIDE DEF m
  <2>4. /\ m \in Machines /\ Parked(m.frames[p], wants[p], machine.cpu.code = "call")
        /\ \A q \in Pids \ {p} : m.frames[q] = machine.frames[q]
    BY <1>2, <2>3, Parking, SMTT(30)
  <2>5. Parked(m.frames[p], wants[p], TRUE)
    BY <2>3, <2>4
  <2> QED BY <1>4, <2>1, <2>2, <2>4, <2>5, Yielding
<1>13. CASE FileTrap
  <2>1. /\ cpu.code = "user" /\ table' = table /\ wants' = wants
        /\ machine' = [e EXCEPT !.cpu.code = "fileTrap", !.cpu.intrs = TRUE]
    BY <1>13 DEF FileTrap, InUser
  <2>2. /\ machine' \in Machines /\ machine'.frames = e.frames
        /\ machine'.cpu.code = "fileTrap" /\ machine'.cpu.intrs = TRUE
    BY <1>2, <2>1 DEF Machines, CpuStates, Codes
  <2>3. InHandler(machine', p)
    BY <1>2, <2>1, <2>2, ZenonT(30) DEF InHandler
  <2> QED BY <1>2, <2>1, <2>2, <2>3 DEF Nested, Current
<1>14. ASSUME NEW loads \in BOOLEAN, CreateTrap(loads)
       PROVE  Nested(table', machine', wants')
  <2>1. /\ cpu.code # "call" /\ table' = ProcessFork(table, loads) /\ wants' = wants
        /\ machine' = Resume(IF table'.runQueue = table.runQueue THEN e
                             ELSE NewStack(e, Last(table'.runQueue)), table')
    BY <1>14 DEF CreateTrap, Fork, InUser
  <2>2. \/ /\ table'.runQueue = table.runQueue
           /\ \A q \in Pids : table'.flags[q] = table.flags[q]
        \/ \E c \in Pids :
             /\ table.flags[c] = "FREE"
             /\ table'.runQueue # table.runQueue /\ Last(table'.runQueue) = c
             /\ \A q \in Pids : table'.flags[q] = IF q = c THEN "RUNNABLE" ELSE table.flags[q]
    BY <2>1, ForkFlags DEF Sound
  <2>3. CASE /\ table'.runQueue = table.runQueue
             /\ \A q \in Pids : table'.flags[q] = table.flags[q]
    BY <1>3, <2>1, <2>3
  <2>4. ASSUME NEW c \in Pids, table.flags[c] = "FREE",
               table'.runQueue # table.runQueue, Last(table'.runQueue) = c,
               \A q \in Pids : table'.flags[q] = IF q = c THEN "RUNNABLE" ELSE table.flags[q]
        PROVE  Nested(table', machine', wants')
    <3> DEFINE m == NewStack(e, c)
    <3>1. machine' = Resume(m, table') /\ m = NewStack(e, c) /\ e \in Machines
      BY <1>2, <2>1, <2>4
    <3> HIDE DEF m
    <3>2. /\ m \in Machines /\ Parked(m.frames[c], 0, FALSE)
          /\ \A q \in Pids \ {c} : m.frames[q] = e.frames[q]
      BY <3>1, NewStackParked, ZenonT(30)
    <3>3. Parked(e.frames[p], wants[p], FALSE)
      BY <1>2, ParkedAwake
    <3>4. ASSUME NEW q \in Pids, table'.flags[q] # "FREE"
          PROVE  Parked(m.frames[q], wants[q], table'.flags[q] = "WAITING")
      <4>1. CASE q = c
        <5>1. wants[q] = 0 /\ table'.flags[q] # "WAITING"
          BY <1>2, <2>4, <4>1
        <5> QED BY <3>2, <4>1, <5>1
      <4>2. CASE q = p /\ q # c
        <5>1. m.frames[q] = e.frames[q] /\ table'.flags[q] # "WAITING"
          BY <1>2, <2>4, <3>2, <4>2
        <5> QED BY <3>3, <4>2, <5>1
      <4>3. CASE q # p /\ q # c
        <5>1. m.frames[q] = machine.frames[q] /\ table'.flags[q] = table.flags[q]
          BY <1>2, <2>4, <3>2, <4>3
        <5> QED BY <1>2, <3>4, <4>3, <5>1
      <4> QED BY <4>1, <4>2, <4>3
    <3>5. \A q \in Pids : table'.flags[q] = "FREE" => wants[q] = 0
      BY <1>2, <2>4
    <3>6. Resumable(table', m, wants)
      BY <1>2, <3>2, <3>4, <3>5 DEF Resumable
    <3> QED BY <2>1, <3>1, <3>6, Resuming
  <2> QED BY <2>2, <2>3, <2>4
<1>15. ~FaultHandler
  BY <1>1 DEF FaultHandler, FatalCall, Exitsim, Running, Tables
<1> QED BY <1>5, <1>6, <1>7, <1>8, <1>9, <1>10, <1>11, <1>12, <1>13, <1>14, <1>15
        DEF NextInterrupt

\* The first process, at boot.
LEMMA BootNests == InitMachine => MachineIsNested
<1> DEFINE blank == [frames      |-> [q \in Pids |-> <<>>],
                     sysStackPtr |-> [q \in Pids |-> 0],
                     cpu         |-> [code |-> "call", intrs |-> FALSE, r1 |-> 0]]
           m     == NewStack(blank, Current)
           t     == ProcessModuleInit
<1> SUFFICES ASSUME InitMachine, Running(table) PROVE Nested(table, machine, wants)
  BY DEF MachineIsNested
<1>1. Sound(table)
  BY InitSound DEF InitMachine, TableIsSound
<1>2. Consistent(t) /\ t.currentPCB = INVALID_PROC /\ \A q \in Pids : t.flags[q] = "FREE"
  BY BootTable
<1>3. table = ProcessFork(t, TRUE) /\ machine = Resume(m, table) /\ wants = [q \in Pids |-> 0]
  BY DEF InitMachine, Init, Current
<1>4. Current \in Pids /\ table.flags[Current] = "RUNNABLE"
  BY <1>1, CurrentLeaves DEF Current
<1> HIDE DEF t
<1>5. PICK c \in Pids : /\ t.currentPCB = INVALID_PROC => table.currentPCB = c
                        /\ \A q \in Pids : table.flags[q] = IF q = c THEN "RUNNABLE" ELSE t.flags[q]
  <2>1. ~ \A q \in Pids : table.flags[q] = t.flags[q]
    BY <1>2, <1>4
  <2>2. PICK loads \in BOOLEAN : table = ProcessFork(t, loads)
    BY <1>3
  <2>3. \/ /\ table.runQueue = t.runQueue
           /\ \A q \in Pids : table.flags[q] = t.flags[q]
        \/ \E c \in Pids :
             /\ t.flags[c] = "FREE"
             /\ table.runQueue # t.runQueue /\ Last(table.runQueue) = c
             /\ t.currentPCB = INVALID_PROC => table.currentPCB = c
             /\ \A q \in Pids : table.flags[q] = IF q = c THEN "RUNNABLE" ELSE t.flags[q]
    BY <1>2, <2>2, ForkFlags
  <2> QED BY <2>1, <2>3
<1>6. \A q \in Pids \ {Current} : table.flags[q] = "FREE"
  BY <1>2, <1>5 DEF Current
<1>7. blank \in Machines
  BY DEF Machines, CpuStates, Codes, Values
<1> HIDE DEF blank
<1>8. m = NewStack(blank, Current)
  OBVIOUS
<1> HIDE DEF m
<1>9. m \in Machines /\ Parked(m.frames[Current], 0, FALSE)
  BY <1>4, <1>7, <1>8, NewStackParked
<1>10. wants \in [Pids -> Values] /\ \A q \in Pids : wants[q] = 0
  BY <1>3 DEF Values
<1>11. Resumable(table, m, wants)
  BY <1>4, <1>6, <1>9, <1>10 DEF Resumable
<1> QED BY <1>1, <1>3, <1>11, Resuming

\* Between two handlers every process that does not run can be resumed, in its
\* program with the result of its last call, or in the one handler above it.
THEOREM MachineStaysNested == InterruptSpec => [](TableIsSound /\ MachineIsNested)
<1>1. InitMachine => MachineIsNested
  BY BootNests
<1>2. TableIsSound /\ TableIsSound' /\ MachineIsNested /\ [NextInterrupt]_allVars
        => MachineIsNested'
  <2> SUFFICES ASSUME Sound(table), Sound(table'), MachineIsNested, [NextInterrupt]_allVars,
                      Running(table')
               PROVE  Nested(table', machine', wants')
    BY DEF TableIsSound, MachineIsNested
  <2>1. CASE NextInterrupt
    <3>1. Running(table)
      BY <2>1 DEF NextInterrupt, TimerHandler, Timer, KeyboardHandler, PrintfTrap, ExitTrap,
                  SleepingCall, PlainCall, KernelCall, EndOfCall, EndOfFileTrap, SleepAgain,
                  FileTrap, CreateTrap, FaultHandler, InUser
    <3> QED BY <2>1, <3>1, HandlersNest
  <2>2. CASE UNCHANGED allVars
    BY <2>2 DEF allVars, MachineIsNested
  <2> QED BY <2>1, <2>2
<1> QED BY <1>1, <1>2, HandlersKeepTableSound, PTL DEF InterruptSpec

\* A program always runs with interrupts on, and a kernel call with interrupts
\* off, also behind the point where it slept (traps.c, synch.c).
THEOREM ProgramsAreInterruptible == InterruptSpec => []UserInterruptible
<1>1. TableIsSound /\ MachineIsNested => UserInterruptible
  BY DEF MachineIsNested, Nested, InProgram, InHandler, UserInterruptible, cpu
<1> QED BY <1>1, MachineStaysNested, PTL

\* No process finds the result of another's call, or an older one, in r1.
THEOREM ResultsAreDelivered == InterruptSpec => []ResultDelivered
<1>1. TableIsSound /\ MachineIsNested => ResultDelivered
  BY DEF MachineIsNested, Nested, InProgram, InHandler, ResultDelivered, cpu, Current
<1> QED BY <1>1, MachineStaysNested, PTL

\* What the frames of a process say it is in the middle of.
CodesOf(fs) == [i \in DOMAIN fs |-> fs[i].code]

LEMMA CodesOfFrames ==
  /\ CodesOf(<<>>) = <<>>
  /\ \A f : CodesOf(<<f>>) = <<f.code>>
  /\ \A f, g : CodesOf(<<f, g>>) = <<f.code, g.code>>
BY DEF CodesOf

LEMMA JoinCodes ==
  ASSUME NEW c \in Codes, NEW d \in Codes
  PROVE  <<c>> \o <<>> = <<c>> /\ <<>> \o <<c>> = <<c>> /\ <<>> \o <<c, d>> = <<c, d>>
         /\ <<c>> \o <<d>> = <<c, d>>
<1>1. <<c>> \o <<d>> = <<c, d>>
  BY TwoFrames
<1>2. <<>> \in Seq(Codes) /\ <<c>> \in Seq(Codes) /\ <<c, d>> \in Seq(Codes)
  OBVIOUS
<1> QED BY <1>1, <1>2

\* A process is in its program or in one handler above it, asleep only inside a
\* call, and no frame of another handler is left on its stack or overwritten.
THEOREM FramesAreNested == InterruptSpec => []FramesNested
<1>1. TableIsSound /\ MachineIsNested => FramesNested
  <2> SUFFICES ASSUME Sound(table), MachineIsNested, Running(table),
                      NEW p \in Pids \ WithStatus(table, "FREE"),
                      NEW fs, fs = machine.frames[p]
               PROVE  /\ Activities(p) \in {<<"user">>, <<"fileTrap", "user">>, <<"call", "user">>}
                      /\ table.flags[p] = "WAITING" => Head(Activities(p)) = "call"
                      /\ \A i \in DOMAIN fs : fs[i].at = Len(fs) - i
                      /\ Activities(p) = <<"user">> /\ p = Current => machine.sysStackPtr[p] = 0
    BY DEF TableIsSound, FramesNested
  <2>1. /\ p \in Pids /\ table.flags[p] # "FREE" /\ Current \in Pids
        /\ table.flags[Current] = "RUNNABLE"
        /\ p # Current => Parked(fs, wants[p], table.flags[p] = "WAITING")
        /\ InProgram(machine, Current, wants[Current]) \/ InHandler(machine, Current)
    BY CurrentLeaves DEF MachineIsNested, Nested, WithStatus, Current
  <2>2. Activities(p) = (IF p = Current THEN <<cpu.code>> ELSE <<>>) \o CodesOf(fs)
    BY DEF Activities, CodesOf
  <2>3. {"user", "fileTrap", "call"} = Codes
    BY DEF Codes
  <2>4. CASE p = Current /\ InProgram(machine, Current, wants[Current])
    <3>1. cpu.code = "user" /\ fs = <<>> /\ machine.sysStackPtr[p] = 0
      BY <2>4 DEF InProgram, cpu
    <3>2. Activities(p) = <<"user">>
      BY <2>2, <2>3, <2>4, <3>1, CodesOfFrames, JoinCodes
    <3> QED BY <2>1, <2>4, <3>1, <3>2
  <2>5. CASE p = Current /\ InHandler(machine, Current)
    <3>1. PICK u \in UserFrames : fs = <<u>>
      BY <2>5 DEF InHandler
    <3>2. u.code = "user" /\ u.at = 0 /\ cpu.code \in {"fileTrap", "call"}
      BY <2>5 DEF InHandler, UserFrames, cpu
    <3>3. CodesOf(fs) = <<"user">>
      BY <3>1, <3>2, CodesOfFrames
    <3>4. Activities(p) = <<cpu.code, "user">>
      BY <2>2, <2>3, <2>5, <3>2, <3>3, JoinCodes
    <3>5. \A i \in DOMAIN fs : fs[i].at = Len(fs) - i
      BY <3>1, <3>2
    <3>6. Activities(p) # <<"user">>
      BY <3>4
    <3>7. Activities(p) \in {<<"user">>, <<"fileTrap", "user">>, <<"call", "user">>}
      BY <3>2, <3>4
    <3> QED BY <2>1, <2>5, <3>5, <3>6, <3>7
  <2>6. CASE p # Current
    <3>1. Activities(p) = <<>> \o CodesOf(fs)
      BY <2>2, <2>6
    <3>2. CASE table.flags[p] # "WAITING" /\ \E u \in UserFrames : fs = <<u>>
      <4>1. PICK u \in UserFrames : fs = <<u>>
        BY <3>2
      <4>2. u.code = "user" /\ u.at = 0
        BY DEF UserFrames
      <4>3. Activities(p) = <<"user">>
        BY <2>3, <3>1, <4>1, <4>2, CodesOfFrames, JoinCodes
      <4> QED BY <2>6, <3>2, <4>1, <4>2, <4>3
    <3>3. CASE \E x \in InnerFrames, u \in UserFrames :
                 fs = <<x, u>> /\ (table.flags[p] = "WAITING" => x.code = "call")
      <4>1. PICK x \in InnerFrames, u \in UserFrames :
                 fs = <<x, u>> /\ (table.flags[p] = "WAITING" => x.code = "call")
        BY <3>3
      <4>2. /\ u.code = "user" /\ u.at = 0
            /\ x.code \in {"fileTrap", "call"} /\ x.at = 1
        BY DEF UserFrames, InnerFrames
      <4>3. Activities(p) = <<x.code, "user">>
        BY <2>3, <3>1, <4>1, <4>2, CodesOfFrames, JoinCodes
      <4> QED BY <2>6, <4>1, <4>2, <4>3
    <3> QED BY <2>1, <2>6, <3>2, <3>3 DEF Parked
  <2> QED BY <2>1, <2>4, <2>5, <2>6
<1> QED BY <1>1, MachineStaysNested, PTL
=============================================================================
