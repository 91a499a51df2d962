---------------------------- MODULE TableLemmas ----------------------------
(***************************************************************************)
(* What each routine of ProcessTable does to a table, for every number of  *)
(* processes and pages.                                                    *)
(*                                                                         *)
(* Between two routines of a handler a table is Consistent; between two    *)
(* handlers it is Sound.  There is one lemma for each routine and each     *)
(* composition of routines.                                                *)
(***************************************************************************)
EXTENDS ProcessTable, QueueLemmas, FiniteSetTheorems

\* A queue without duplicates is as long as the set of its elements is large.
LEMMA QueueSize ==
  ASSUME NEW S, NEW q \in Seq(S), IsInjective(q)
  PROVE  IsFiniteSet(ToSet(q)) /\ Cardinality(ToSet(q)) = Len(q) /\ Len(q) \in Nat
<1>1. q \in [1 .. Len(q) -> ToSet(q)] /\ Len(q) \in Nat
  BY DEF ToSet
<1>2. \A i, j \in 1 .. Len(q) : q[i] = q[j] => i = j
  BY DEF IsInjective
<1>3. \A x \in ToSet(q) : \E i \in 1 .. Len(q) : q[i] = x
  BY DEF ToSet
<1>4. ExistsBijection(1 .. Len(q), ToSet(q))
  BY <1>1, <1>2, <1>3 DEF ExistsBijection, Bijection, Injection, Surjection, IsInjective
<1> QED BY <1>1, <1>4, FS_CountingElements, FS_NatBijection

\* The orders in which some of S can be taken, each once.
LEMMA OrdersOf ==
  ASSUME NEW S, IsFiniteSet(S), NEW ps
  PROVE  ps \in SetToAllKPermutations(S) <=> ps \in Seq(S) /\ IsInjective(ps)
<1>1. ASSUME NEW R \in SUBSET S, ps \in SetToSeqs(R)
      PROVE  ps \in Seq(S) /\ IsInjective(ps)
  <2>1. Cardinality(R) \in Nat
    BY FS_Subset, FS_CardinalityType
  <2>2. /\ ps \in [1 .. Cardinality(R) -> R]
        /\ \A i, j \in 1 .. Cardinality(R) : i # j => ps[i] # ps[j]
    BY <1>1 DEF SetToSeqs
  <2>3. ps \in [1 .. Cardinality(R) -> S]
    BY <2>2
  <2> QED BY <2>1, <2>2, <2>3 DEF IsInjective
<1>2. ASSUME ps \in Seq(S), IsInjective(ps)
      PROVE  ToSet(ps) \in SUBSET S /\ ps \in SetToSeqs(ToSet(ps))
  <2>1. Cardinality(ToSet(ps)) = Len(ps)
    BY <1>2, QueueSize
  <2>2. ps \in [1 .. Len(ps) -> ToSet(ps)] /\ ToSet(ps) \in SUBSET S
    BY <1>2 DEF ToSet
  <2>3. \A i, j \in 1 .. Len(ps) : i # j => ps[i] # ps[j]
    BY <1>2 DEF IsInjective
  <2> QED BY <2>1, <2>2, <2>3 DEF SetToSeqs
<1> QED BY <1>1, <1>2 DEF SetToAllKPermutations

Consistent(t) == t \in Tables /\ QueuesMatch(t)

Sound(t) ==
  /\ Consistent(t)
  /\ t.currentPCB \in Pids
  /\ t.exit # "assert"
  /\ Running(t) => InFront(t) /\ t.zombieQueue = <<>>

\* Stopping the simulation leaves the rest of a sound table alone.
LEMMA ExitsimSound ==
  ASSUME NEW t, Sound(t), NEW why \in ExitReasons \ {"none", "assert"}
  PROVE  Sound(Exitsim(t, why))
BY DEF Sound, Consistent, Tables, QueuesMatch, WithStatus, Exitsim, Running, InFront

\* A PCB that is taken from the front of the free queue, with its pages.
LEMMA TakenFields ==
  ASSUME NEW t \in Tables, Head(t.freepcbs) \in Pids, Tail(t.freepcbs) \in Seq(Pids),
         ~(t.nfreepages < PagesPerProcess),
         NEW u, u = TakeFirst(t)
  PROVE  /\ u \in Tables
         /\ \A p \in Pids : u.flags[p] = IF p = Head(t.freepcbs) THEN "RUNNABLE" ELSE t.flags[p]
         /\ u.freepcbs = Tail(t.freepcbs)
         /\ u.nfreepages = t.nfreepages - PagesPerProcess
         /\ u.runQueue = t.runQueue /\ u.waitQueue = t.waitQueue
         /\ u.zombieQueue = t.zombieQueue /\ u.currentPCB = t.currentPCB
         /\ u.exit = t.exit
<1>1. /\ [t.flags EXCEPT ![Head(t.freepcbs)] = "RUNNABLE"] \in [Pids -> Statuses]
      /\ t.nfreepages - PagesPerProcess \in Nat
  BY DEF Tables, Statuses, PagesPerProcess
<1>2. \A p \in Pids : [t.flags EXCEPT ![Head(t.freepcbs)] = "RUNNABLE"][p] =
                        IF p = Head(t.freepcbs) THEN "RUNNABLE" ELSE t.flags[p]
  BY DEF Tables
<1> QED BY <1>1, <1>2 DEF TakeFirst, Tables

\* What giving back the PCBs of ps does to each field.
LEMMA FreeFields ==
  ASSUME NEW t \in Tables, NEW ps \in Seq(Pids),
         NEW u, u = ProcessFreeResources(t, ps)
  PROVE  /\ u \in Tables
         /\ u.freepcbs = t.freepcbs \o ps
         /\ u.runQueue = t.runQueue /\ u.waitQueue = t.waitQueue
         /\ u.zombieQueue = t.zombieQueue /\ u.currentPCB = t.currentPCB
         /\ u.exit = t.exit
<1>1. /\ [p \in Pids |-> IF p \in ToSet(ps) THEN "FREE" ELSE t.flags[p]] \in [Pids -> Statuses]
      /\ t.nfreepages + PagesPerProcess * Len(ps) \in Nat
      /\ t.freepcbs \o ps \in Seq(Pids)
  BY DEF Tables, Statuses, PagesPerProcess
<1> QED BY <1>1 DEF ProcessFreeResources, Tables

LEMMA FreeFlags ==
  ASSUME NEW t \in Tables, NEW ps \in Seq(Pids),
         NEW u, u = ProcessFreeResources(t, ps)
  PROVE  /\ u.flags = [p \in Pids |-> IF p \in ToSet(ps) THEN "FREE" ELSE t.flags[p]]
         /\ u.nfreepages = t.nfreepages + PagesPerProcess * Len(ps)
BY DEF ProcessFreeResources, Tables

\* The processes of ps are on no queue, all others where they belong.
Detached(t, ps) ==
  /\ t \in Tables /\ ps \in Seq(Pids) /\ IsInjective(ps)
  /\ ToSet(t.runQueue) = WithStatus(t, "RUNNABLE") \ ToSet(ps)
  /\ t.waitQueue = WithStatus(t, "WAITING") \ ToSet(ps)
  /\ ToSet(t.freepcbs) = WithStatus(t, "FREE") \ ToSet(ps)
  /\ ToSet(t.zombieQueue) = WithStatus(t, "ZOMBIE") \ ToSet(ps)
  /\ IsInjective(t.runQueue) /\ IsInjective(t.freepcbs) /\ IsInjective(t.zombieQueue)

\* ProcessFreeResources "assumes the process isn't currently on any queue"
\* (process.c:113), and then puts it on the queue of free PCBs.
LEMMA FreeConsistent ==
  ASSUME NEW t, NEW ps, Detached(t, ps), NEW u, u = ProcessFreeResources(t, ps)
  PROVE  Consistent(u)
<1>1. /\ t \in Tables /\ ps \in Seq(Pids) /\ IsInjective(ps)
      /\ t.freepcbs \in Seq(Pids) /\ IsInjective(t.freepcbs)
      /\ ToSet(t.freepcbs) \cap ToSet(ps) = {}
  BY DEF Detached, Tables
<1>2. u.flags = [p \in Pids |-> IF p \in ToSet(ps) THEN "FREE" ELSE t.flags[p]]
  BY <1>1, FreeFlags, Zenon
<1>3. /\ u \in Tables /\ u.freepcbs = t.freepcbs \o ps
      /\ u.runQueue = t.runQueue /\ u.waitQueue = t.waitQueue
      /\ u.zombieQueue = t.zombieQueue
  BY <1>1, FreeFields, ZenonT(30)
<1>4. ToSet(u.freepcbs) = ToSet(t.freepcbs) \cup ToSet(ps) /\ IsInjective(u.freepcbs)
  BY <1>1, <1>3, JoinQueues
<1>5. ToSet(ps) \subseteq Pids
  BY <1>1 DEF ToSet
<1>6. /\ WithStatus(u, "FREE") = WithStatus(t, "FREE") \cup ToSet(ps)
      /\ \A s \in Statuses \ {"FREE"} : WithStatus(u, s) = WithStatus(t, s) \ ToSet(ps)
  BY <1>2, <1>5 DEF WithStatus, Statuses
<1> QED BY <1>3, <1>4, <1>6 DEF Detached, Consistent, QueuesMatch, Statuses

\* The process in front of the free queue, once it is taken.
LEMMA TakenDetached ==
  ASSUME NEW t, Consistent(t), t.freepcbs # <<>>, ~(t.nfreepages < PagesPerProcess),
         NEW p, p = Head(t.freepcbs), NEW ps, ps = <<p>>, NEW u, u = TakeFirst(t)
  PROVE  /\ p \in Pids
         /\ Detached(u, ps) /\ u.flags[p] = "RUNNABLE"
         /\ u.runQueue = t.runQueue /\ u.zombieQueue = t.zombieQueue
         /\ u.currentPCB = t.currentPCB /\ u.exit = t.exit
<1>1. /\ t \in Tables /\ t.freepcbs \in Seq(Pids) /\ IsInjective(t.freepcbs)
  BY DEF Consistent, Tables, QueuesMatch
<1>2. /\ Tail(t.freepcbs) \in Seq(Pids) /\ p \in Pids
      /\ ToSet(Tail(t.freepcbs)) = ToSet(t.freepcbs) \ {p}
      /\ IsInjective(Tail(t.freepcbs))
  BY <1>1, TailOfQueue
<1>3. /\ u \in Tables
      /\ \A r \in Pids : u.flags[r] = IF r = p THEN "RUNNABLE" ELSE t.flags[r]
      /\ u.freepcbs = Tail(t.freepcbs) /\ u.runQueue = t.runQueue
      /\ u.waitQueue = t.waitQueue /\ u.zombieQueue = t.zombieQueue
      /\ u.currentPCB = t.currentPCB /\ u.exit = t.exit
  BY <1>1, <1>2, TakenFields
<1>4. ps \in Seq(Pids) /\ ToSet(ps) = {p} /\ IsInjective(ps)
  BY <1>2, Singleton
<1>5. t.flags[p] = "FREE"
  BY <1>1, <1>2, HeadTailProperties, ElementInSet DEF Consistent, QueuesMatch, WithStatus
<1>6. /\ WithStatus(u, "RUNNABLE") = WithStatus(t, "RUNNABLE") \cup {p}
      /\ p \notin WithStatus(t, "RUNNABLE") 
      /\ WithStatus(u, "FREE") = WithStatus(t, "FREE") \ {p}
      /\ WithStatus(u, "WAITING") = WithStatus(t, "WAITING") \ {p}
      /\ WithStatus(u, "ZOMBIE") = WithStatus(t, "ZOMBIE") \ {p}
      /\ p \notin WithStatus(t, "WAITING") /\ p \notin WithStatus(t, "ZOMBIE")
      /\ u.flags[p] = "RUNNABLE"
  BY <1>1, <1>2, <1>3, <1>5 DEF WithStatus, Tables
<1> QED BY <1>1, <1>2, <1>3, <1>4, <1>6 DEF Detached, Consistent, QueuesMatch

\* What a table is in the middle of a handler, once the processor is given to
\* the front of the run queue and no zombie is left.
Dispatched(t) ==
  t.currentPCB \in Pids /\ t.exit = "none" /\ InFront(t) /\ t.zombieQueue = <<>>

\* What it is at boot, before there is a process to run.
Idle(t) ==
  t.currentPCB = INVALID_PROC /\ t.exit = "none" /\ t.runQueue = <<>> /\ t.zombieQueue = <<>>

LEMMA FreeSound ==
  ASSUME NEW t, NEW ps, Detached(t, ps), Dispatched(t),
         NEW u, u = ProcessFreeResources(t, ps)
  PROVE  Sound(u)
<1>1. Consistent(u)
  BY FreeConsistent
<1>2. t \in Tables /\ ps \in Seq(Pids)
  BY DEF Detached
<1>3. /\ u.runQueue = t.runQueue /\ u.zombieQueue = t.zombieQueue
      /\ u.currentPCB = t.currentPCB /\ u.exit = t.exit
  BY <1>2, FreeFields
<1> QED BY <1>1, <1>3 DEF Sound, Dispatched, InFront

\* A PCB that is on no queue, put last in the run queue.
LEMMA EnqueueSound ==
  ASSUME NEW p \in Pids, NEW ps, ps = <<p>>,
         NEW t, Detached(t, ps), Dispatched(t) \/ Idle(t), t.flags[p] = "RUNNABLE",
         NEW u, u = [t EXCEPT !.runQueue   = Append(@, p),
                              !.currentPCB = IF @ = INVALID_PROC THEN p ELSE @]
  PROVE  Sound(u)
<1> DEFINE current == IF t.currentPCB = INVALID_PROC THEN p ELSE t.currentPCB
<1>1. /\ t \in Tables /\ t.runQueue \in Seq(Pids) /\ IsInjective(t.runQueue)
  BY DEF Detached, Tables
<1>2. /\ current \in Pids
      /\ Dispatched(t) => current = t.currentPCB
      /\ Idle(t) => current = p
  BY ProcsAssumption DEF Pids, INVALID_PROC, Dispatched, Idle
<1>3. ps \in Seq(Pids) /\ ToSet(ps) = {p} /\ IsInjective(ps)
  BY Singleton
<1>4. ToSet(t.runQueue) = WithStatus(t, "RUNNABLE") \ {p}
  BY <1>3 DEF Detached
<1>5. /\ Append(t.runQueue, p) \in Seq(Pids)
      /\ ToSet(Append(t.runQueue, p)) = ToSet(t.runQueue) \cup {p}
      /\ IsInjective(Append(t.runQueue, p))
  BY <1>1, <1>4, AppendToQueue
<1>6. /\ u \in Tables /\ u.runQueue = Append(t.runQueue, p)
      /\ u.currentPCB = current
      /\ u.flags = t.flags /\ u.waitQueue = t.waitQueue /\ u.freepcbs = t.freepcbs
      /\ u.zombieQueue = t.zombieQueue /\ u.exit = t.exit
  BY <1>1, <1>2, <1>5 DEF Tables
<1>7. \A s : WithStatus(u, s) = WithStatus(t, s)
  BY <1>6 DEF WithStatus
<1>8. /\ p \in WithStatus(t, "RUNNABLE")
      /\ \A s \in {"WAITING", "FREE", "ZOMBIE"} : p \notin WithStatus(t, s)
  BY DEF WithStatus
<1>9. ToSet(u.runQueue) = WithStatus(u, "RUNNABLE")
  BY <1>4, <1>5, <1>6, <1>7, <1>8
<1>10. /\ u.waitQueue = WithStatus(u, "WAITING")
       /\ ToSet(u.freepcbs) = WithStatus(u, "FREE")
       /\ ToSet(u.zombieQueue) = WithStatus(u, "ZOMBIE")
  <2>1. /\ t.waitQueue = WithStatus(t, "WAITING") \ {p}
        /\ ToSet(t.freepcbs) = WithStatus(t, "FREE") \ {p}
        /\ ToSet(t.zombieQueue) = WithStatus(t, "ZOMBIE") \ {p}
    BY <1>3 DEF Detached
  <2> QED BY <1>6, <1>7, <1>8, <2>1
<1>11. QueuesMatch(u)
  BY <1>5, <1>6, <1>9, <1>10 DEF Detached, QueuesMatch
<1>12. /\ u.runQueue # <<>>
       /\ Head(u.runQueue) = IF t.runQueue = <<>> THEN p ELSE Head(t.runQueue)
  BY <1>1, <1>6, HeadTailAppend
<1>13. InFront(u) /\ u.exit = "none" /\ u.zombieQueue = <<>>
  BY <1>2, <1>6, <1>12 DEF Dispatched, Idle, InFront
<1> QED BY <1>2, <1>6, <1>11, <1>13 DEF Sound, Consistent

\* The PCB in front of the free queue is taken and runs last in the run queue,
\* or returns to the free queue if there is nothing to run.
LEMMA ForkSound ==
  ASSUME NEW t, Sound(t), Running(t), NEW loads \in BOOLEAN
  PROVE  Sound(ProcessFork(t, loads))
<1>1. CASE t.freepcbs = <<>> \/ t.nfreepages < PagesPerProcess
  <2>1. Sound(Exitsim(t, "noProcs")) /\ Sound(Exitsim(t, "noPages"))
    BY ExitsimSound DEF ExitReasons
  <2> QED BY <1>1, <2>1 DEF ProcessFork
<1>2. CASE t.freepcbs # <<>> /\ ~(t.nfreepages < PagesPerProcess)
  <2> SUFFICES ASSUME NEW p, p = Head(t.freepcbs), NEW ps, ps = <<p>>,
                      NEW v, v = TakeFirst(t)
               PROVE  Sound(ProcessFork(t, loads))
    OBVIOUS
  <2>1. Consistent(t) /\ Dispatched(t)
    BY DEF Sound, Running, Dispatched
  <2>2. /\ p \in Pids /\ Detached(v, ps) /\ v.flags[p] = "RUNNABLE"
        /\ v.runQueue = t.runQueue /\ v.zombieQueue = t.zombieQueue
        /\ v.currentPCB = t.currentPCB /\ v.exit = t.exit
    BY <1>2, <2>1, TakenDetached
  <2>3. Dispatched(v)
    BY <2>1, <2>2 DEF Dispatched, InFront
  <2>4. Sound(ProcessFreeResources(v, ps))
    BY <2>2, <2>3, FreeSound
  <2>5. Sound([v EXCEPT !.runQueue   = Append(@, p),
                        !.currentPCB = IF @ = INVALID_PROC THEN p ELSE @])
    BY <2>2, <2>3, EnqueueSound
  <2> QED BY <1>2, <2>4, <2>5 DEF ProcessFork
<1> QED BY <1>1, <1>2

\* Moving the front of a queue to its end.
LEMMA RotateQueue ==
  ASSUME NEW S, NEW q \in Seq(S), q # <<>>, IsInjective(q)
  PROVE  /\ Rotate(q) \in Seq(S) /\ Rotate(q) # <<>>
         /\ ToSet(Rotate(q)) = ToSet(q)
         /\ IsInjective(Rotate(q))
<1>1. /\ Tail(q) \in Seq(S) /\ IsInjective(Tail(q)) /\ Head(q) \in S
      /\ ToSet(Tail(q)) = ToSet(q) \ {Head(q)}
  BY TailOfQueue
<1>2. Head(q) \in ToSet(q)
  BY HeadTailProperties, ElementInSet
<1>3. Rotate(q) # <<>>
  BY <1>1, HeadTailAppend DEF Rotate
<1>4. ASSUME NEW r \in Seq(S), IsInjective(r), NEW x \in S, x \notin ToSet(r)
      PROVE  /\ Append(r, x) \in Seq(S) /\ ToSet(Append(r, x)) = ToSet(r) \cup {x}
             /\ IsInjective(Append(r, x))
  BY <1>4, AppendToQueue
<1>5. /\ Append(Tail(q), Head(q)) \in Seq(S)
      /\ ToSet(Append(Tail(q), Head(q))) = ToSet(Tail(q)) \cup {Head(q)}
      /\ IsInjective(Append(Tail(q), Head(q)))
  BY <1>1, <1>4, ZenonT(30)
<1> QED BY <1>1, <1>2, <1>3, <1>5 DEF Rotate

\* Scheduling turns a consistent table into a sound one: some process runs, the
\* one in front, and the zombies are free.
LEMMA ScheduleSound ==
  ASSUME NEW t, Consistent(t), t.currentPCB \in Pids, t.exit = "none",
         NEW suspendFlag \in BOOLEAN
  PROVE  Sound(ProcessSchedule(t, suspendFlag))
<1>1. CASE t.runQueue = <<>>
  <2>1. Sound(Exitsim(t, "idle")) /\ Sound(Exitsim(t, "asleep"))
    BY DEF Sound, Consistent, Tables, QueuesMatch, WithStatus, Exitsim, Running,
           InFront, ExitReasons
  <2> QED BY <1>1, <2>1 DEF ProcessSchedule
<1>2. CASE t.runQueue # <<>>
  <2>1. /\ t \in Tables /\ t.runQueue \in Seq(Pids) /\ IsInjective(t.runQueue)
        /\ t.zombieQueue \in Seq(Pids) /\ IsInjective(t.zombieQueue)
    BY DEF Consistent, Tables, QueuesMatch
  <2>2. /\ Rotate(t.runQueue) \in Seq(Pids) /\ IsInjective(Rotate(t.runQueue))
        /\ ToSet(Rotate(t.runQueue)) = ToSet(t.runQueue) /\ Rotate(t.runQueue) # <<>>
    BY <1>2, <2>1, RotateQueue
  <2>3. ASSUME NEW q \in Seq(Pids), IsInjective(q), ToSet(q) = ToSet(t.runQueue), q # <<>>,
               NEW u, u = [t EXCEPT !.runQueue    = q,
                                    !.currentPCB  = Head(q),
                                    !.zombieQueue = <<>>]
        PROVE  Sound(ProcessFreeResources(u, t.zombieQueue))
    <3>1. Head(q) \in Pids
      BY <2>3, HeadTailProperties
    <3>2. <<>> \in Seq(Pids) /\ ToSet(<<>>) = {} /\ IsInjective(<<>>)
      BY DEF ToSet, IsInjective
    <3>3. /\ u \in Tables /\ u.runQueue = q /\ u.currentPCB = Head(q)
          /\ u.zombieQueue = <<>> /\ u.flags = t.flags /\ u.waitQueue = t.waitQueue
          /\ u.freepcbs = t.freepcbs /\ u.exit = t.exit
      BY <2>1, <2>3, <3>1, <3>2 DEF Tables
    <3>4. \A s : WithStatus(u, s) = WithStatus(t, s)
      BY <3>3 DEF WithStatus
    <3>5. ToSet(t.zombieQueue) = WithStatus(t, "ZOMBIE")
      BY DEF Consistent, QueuesMatch
    <3>6. \A s \in {"RUNNABLE", "WAITING", "FREE"} :
            WithStatus(t, s) \ ToSet(t.zombieQueue) = WithStatus(t, s)
      BY <3>5 DEF WithStatus
    <3>7. Detached(u, t.zombieQueue)
      <4>1. /\ ToSet(u.runQueue) = WithStatus(u, "RUNNABLE") \ ToSet(t.zombieQueue)
            /\ u.waitQueue = WithStatus(u, "WAITING") \ ToSet(t.zombieQueue)
            /\ ToSet(u.freepcbs) = WithStatus(u, "FREE") \ ToSet(t.zombieQueue)
        BY <2>3, <3>3, <3>4, <3>6 DEF Consistent, QueuesMatch
      <4>2. ToSet(u.zombieQueue) = WithStatus(u, "ZOMBIE") \ ToSet(t.zombieQueue)
        BY <3>2, <3>3, <3>4, <3>5
      <4>3. IsInjective(u.runQueue) /\ IsInjective(u.freepcbs) /\ IsInjective(u.zombieQueue)
        BY <2>3, <3>2, <3>3 DEF Consistent, QueuesMatch
      <4> QED BY <2>1, <3>3, <4>1, <4>2, <4>3 DEF Detached
    <3>8. Dispatched(u)
      BY <2>3, <3>1, <3>3 DEF Dispatched, InFront
    <3> QED BY <3>7, <3>8, FreeSound
  <2>4. CASE suspendFlag
    BY <1>2, <2>1, <2>3, <2>4 DEF ProcessSchedule
  <2>5. CASE ~suspendFlag
    BY <1>2, <2>2, <2>3, <2>5 DEF ProcessSchedule
  <2> QED BY <2>4, <2>5
<1> QED BY <1>1, <1>2

\* The running process leaves the run queue by its front, whether it sleeps or dies.
LEMMA CurrentLeaves ==
  ASSUME NEW t, Sound(t), Running(t), NEW p, p = t.currentPCB,
         NEW q, q = RemoveFirst(t.runQueue, p)
  PROVE  /\ t \in Tables /\ p \in Pids /\ t.flags[p] = "RUNNABLE"
         /\ q \in Seq(Pids) /\ IsInjective(q)
         /\ ToSet(q) = WithStatus(t, "RUNNABLE") \ {p}
<1>1. /\ t \in Tables /\ t.runQueue \in Seq(Pids) /\ IsInjective(t.runQueue)
      /\ ToSet(t.runQueue) = WithStatus(t, "RUNNABLE")
      /\ t.runQueue # <<>> /\ p = Head(t.runQueue) /\ p \in Pids
  BY DEF Sound, Consistent, Tables, QueuesMatch, InFront
<1>2. q = Tail(t.runQueue)
  BY <1>1, RemoveFirstHead
<1>3. p \in ToSet(t.runQueue)
  BY <1>1, HeadTailProperties, ElementInSet
<1>4. t.flags[p] = "RUNNABLE"
  BY <1>1, <1>3 DEF WithStatus
<1> QED BY <1>1, <1>2, <1>4, TailOfQueue, ZenonT(30)

LEMMA SuspendConsistent ==
  ASSUME NEW t, Sound(t), Running(t), NEW u, u = ProcessSuspend(t, t.currentPCB)
  PROVE  Consistent(u) /\ u.currentPCB \in Pids /\ u.exit = "none"
<1> SUFFICES ASSUME NEW p, p = t.currentPCB, NEW q, q = RemoveFirst(t.runQueue, p)
             PROVE  Consistent(u) /\ u.currentPCB \in Pids /\ u.exit = "none"
  OBVIOUS
<1>1. /\ t \in Tables /\ p \in Pids /\ t.flags[p] = "RUNNABLE"
      /\ q \in Seq(Pids) /\ IsInjective(q)
      /\ ToSet(q) = WithStatus(t, "RUNNABLE") \ {p}
  BY CurrentLeaves
<1>2. /\ [t.flags EXCEPT ![p] = "WAITING"] \in [Pids -> Statuses]
      /\ t.waitQueue \cup {p} \in SUBSET Pids
  BY <1>1 DEF Tables, Statuses
<1>3. u = [t EXCEPT !.flags[p]  = "WAITING",
                    !.runQueue  = q,
                    !.waitQueue = @ \cup {p}]
  BY <1>1 DEF ProcessSuspend
<1>4. /\ u \in Tables /\ u.flags = [t.flags EXCEPT ![p] = "WAITING"]
      /\ u.runQueue = q /\ u.waitQueue = t.waitQueue \cup {p}
      /\ u.freepcbs = t.freepcbs /\ u.zombieQueue = t.zombieQueue
      /\ u.currentPCB = p /\ u.exit = t.exit
  BY <1>1, <1>2, <1>3 DEF Tables
<1>5. /\ WithStatus(u, "RUNNABLE") = WithStatus(t, "RUNNABLE") \ {p}
      /\ WithStatus(u, "WAITING") = WithStatus(t, "WAITING") \cup {p}
      /\ WithStatus(u, "FREE") = WithStatus(t, "FREE")
      /\ WithStatus(u, "ZOMBIE") = WithStatus(t, "ZOMBIE")
  BY <1>1, <1>4 DEF WithStatus, Tables
<1>6. QueuesMatch(u)
  BY <1>1, <1>4, <1>5 DEF Sound, Consistent, QueuesMatch
<1> QED BY <1>1, <1>4, <1>6 DEF Consistent, Running

LEMMA DestroyConsistent ==
  ASSUME NEW t, Sound(t), Running(t), NEW u, u = ProcessDestroy(t, t.currentPCB)
  PROVE  Consistent(u) /\ u.currentPCB \in Pids /\ u.exit = "none"
<1> SUFFICES ASSUME NEW p, p = t.currentPCB, NEW q, q = RemoveFirst(t.runQueue, p),
                    NEW z, z = <<p>> \o t.zombieQueue
             PROVE  Consistent(u) /\ u.currentPCB \in Pids /\ u.exit = "none"
  OBVIOUS
<1>1. /\ t \in Tables /\ p \in Pids /\ t.flags[p] = "RUNNABLE"
      /\ q \in Seq(Pids) /\ IsInjective(q)
      /\ ToSet(q) = WithStatus(t, "RUNNABLE") \ {p}
  BY CurrentLeaves
<1>2. /\ t.zombieQueue \in Seq(Pids) /\ IsInjective(t.zombieQueue)
      /\ ToSet(t.zombieQueue) = WithStatus(t, "ZOMBIE")
  BY DEF Sound, Consistent, Tables, QueuesMatch
<1>3. p \notin ToSet(t.zombieQueue)
  BY <1>1, <1>2 DEF WithStatus
<1>4. /\ z \in Seq(Pids) /\ IsInjective(z)
      /\ ToSet(z) = ToSet(t.zombieQueue) \cup {p}
  <2>1. ASSUME NEW r \in Seq(Pids), IsInjective(r), NEW x \in Pids, x \notin ToSet(r),
               NEW d \in Seq(Pids), ToSet(d) = {x}, IsInjective(d)
        PROVE  d \o r \in Seq(Pids) /\ IsInjective(d \o r) /\ ToSet(d \o r) = ToSet(r) \cup {x}
    BY <2>1, JoinQueues
  <2>2. <<p>> \in Seq(Pids) /\ ToSet(<<p>>) = {p} /\ IsInjective(<<p>>)
    BY <1>1, Singleton
  <2> QED BY <1>1, <1>2, <1>3, <2>1, <2>2, ZenonT(30)
<1>5. ToSet(z) = WithStatus(t, "ZOMBIE") \cup {p}
  BY <1>2, <1>4
<1>6. [t.flags EXCEPT ![p] = "ZOMBIE"] \in [Pids -> Statuses]
  BY <1>1 DEF Tables, Statuses
<1>7. /\ u \in Tables /\ u.flags = [t.flags EXCEPT ![p] = "ZOMBIE"]
      /\ u.runQueue = q /\ u.zombieQueue = z /\ u.waitQueue = t.waitQueue
      /\ u.freepcbs = t.freepcbs /\ u.currentPCB = p /\ u.exit = t.exit
  BY <1>1, <1>4, <1>6 DEF ProcessDestroy, Tables
<1>8. /\ WithStatus(u, "RUNNABLE") = WithStatus(t, "RUNNABLE") \ {p}
      /\ WithStatus(u, "ZOMBIE") = WithStatus(t, "ZOMBIE") \cup {p}
      /\ WithStatus(u, "FREE") = WithStatus(t, "FREE")
      /\ WithStatus(u, "WAITING") = WithStatus(t, "WAITING")
  BY <1>1, <1>7 DEF WithStatus, Tables
<1>9. QueuesMatch(u)
  BY <1>1, <1>4, <1>5, <1>7, <1>8 DEF Sound, Consistent, QueuesMatch
<1> QED BY <1>1, <1>7, <1>9 DEF Consistent, Running

\* Waking sleeping processes, each once.
LEMMA WakeupSound ==
  ASSUME NEW t, Sound(t), Running(t), NEW ps \in Seq(Pids), IsInjective(ps),
         ToSet(ps) \subseteq t.waitQueue,
         NEW u, u = ProcessWakeup(t, ps)
  PROVE  Sound(u) /\ Running(u)
<1> DEFINE flags == [p \in Pids |-> IF p \in ToSet(ps) THEN "RUNNABLE" ELSE t.flags[p]]
<1>1. /\ t \in Tables /\ t.runQueue \in Seq(Pids) /\ IsInjective(t.runQueue)
      /\ ToSet(t.runQueue) = WithStatus(t, "RUNNABLE")
      /\ t.waitQueue = WithStatus(t, "WAITING")
      /\ t.runQueue # <<>> /\ t.currentPCB = Head(t.runQueue) /\ t.zombieQueue = <<>>
  BY DEF Sound, Consistent, Tables, QueuesMatch, InFront
<1>2. /\ ToSet(ps) \subseteq Pids
      /\ \A p \in ToSet(ps) : t.flags[p] = "WAITING"
  BY <1>1 DEF WithStatus
<1>3. ToSet(t.runQueue) \cap ToSet(ps) = {}
  BY <1>1, <1>2 DEF WithStatus
<1>4. /\ t.runQueue \o ps \in Seq(Pids) /\ IsInjective(t.runQueue \o ps)
      /\ ToSet(t.runQueue \o ps) = WithStatus(t, "RUNNABLE") \cup ToSet(ps)
  BY <1>1, <1>3, JoinQueues
<1>5. flags \in [Pids -> Statuses] /\ t.waitQueue \ ToSet(ps) \in SUBSET Pids
  BY <1>1 DEF Tables, Statuses
<1>6. u = [t EXCEPT !.flags     = flags,
                    !.waitQueue = t.waitQueue \ ToSet(ps),
                    !.runQueue  = t.runQueue \o ps]
  BY <1>2 DEF ProcessWakeup
<1>7. u.flags = flags
  BY <1>1, <1>6 DEF Tables
<1> HIDE DEF flags
<1>8. /\ u \in Tables /\ u.waitQueue = t.waitQueue \ ToSet(ps)
      /\ u.runQueue = t.runQueue \o ps /\ u.freepcbs = t.freepcbs
      /\ u.zombieQueue = t.zombieQueue /\ u.currentPCB = t.currentPCB /\ u.exit = t.exit
  BY <1>1, <1>4, <1>5, <1>6 DEF Tables
<1>9. /\ WithStatus(u, "RUNNABLE") = WithStatus(t, "RUNNABLE") \cup ToSet(ps)
      /\ WithStatus(u, "WAITING") = WithStatus(t, "WAITING") \ ToSet(ps)
      /\ WithStatus(u, "FREE") = WithStatus(t, "FREE")
      /\ WithStatus(u, "ZOMBIE") = WithStatus(t, "ZOMBIE")
  BY <1>2, <1>7 DEF WithStatus, flags
<1>10. QueuesMatch(u)
  BY <1>1, <1>4, <1>8, <1>9 DEF Sound, Consistent, QueuesMatch
<1>11. u.runQueue # <<>> /\ Head(u.runQueue) = Head(t.runQueue)
  BY <1>1, <1>8, ConcatProperties, HeadTailProperties
<1> QED BY <1>1, <1>8, <1>10, <1>11 DEF Sound, Consistent, InFront, Running

LEMMA SleepSound ==
  ASSUME NEW t, Sound(t), Running(t)
  PROVE  Sound(ProcessSleep(t))
<1> SUFFICES ASSUME NEW u, u = ProcessSuspend(t, t.currentPCB)
             PROVE  Sound(ProcessSleep(t))
  OBVIOUS
<1>1. Consistent(u) /\ u.currentPCB \in Pids /\ u.exit = "none"
  BY SuspendConsistent
<1>2. Sound(ProcessSchedule(u, TRUE))
  BY <1>1, ScheduleSound
<1> QED BY <1>1, <1>2 DEF ProcessSleep, Running

\* The routines of a kernel call that wakes ps and then may block.
LEMMA CallSound ==
  ASSUME NEW t, Sound(t), Running(t), NEW ps \in Seq(Pids), IsInjective(ps),
         ToSet(ps) \subseteq t.waitQueue, NEW blocks \in BOOLEAN
  PROVE  Sound(AfterCall(t, ps, blocks))
<1> SUFFICES ASSUME NEW u, u = ProcessWakeup(t, ps)
             PROVE  Sound(AfterCall(t, ps, blocks))
  OBVIOUS
<1>1. Sound(u) /\ Running(u)
  BY WakeupSound
<1>2. Sound(ProcessSleep(u))
  BY <1>1, SleepSound
<1> QED BY <1>1, <1>2 DEF AfterCall

LEMMA ExitSound ==
  ASSUME NEW t, Sound(t), Running(t)
  PROVE  Sound(ProcessExit(t))
<1> SUFFICES ASSUME NEW u, u = ProcessDestroy(t, t.currentPCB)
             PROVE  Sound(ProcessExit(t))
  OBVIOUS
<1>1. Consistent(u) /\ u.currentPCB \in Pids /\ u.exit = "none"
  BY DestroyConsistent
<1> QED BY <1>1, ScheduleSound DEF ProcessExit

\* The table when the kernel boots: every PCB is free.
LEMMA BootTable ==
  ASSUME NEW t, t = ProcessModuleInit
  PROVE  /\ Consistent(t) /\ t.freepcbs # <<>> /\ \A q \in Pids : t.flags[q] = "FREE"
         /\ t.runQueue = <<>> /\ t.zombieQueue = <<>> /\ t.currentPCB = INVALID_PROC
         /\ t.nfreepages = MEMORY_FREE_PAGES /\ t.exit = "none"
<1> DEFINE free == [i \in 1 .. PROCESS_MAX_PROCS |-> PROCESS_MAX_PROCS - i]
<1>1. /\ free \in Seq(Pids) /\ IsInjective(free) /\ Len(free) = PROCESS_MAX_PROCS
      /\ free # <<>>
  BY ProcsAssumption DEF Pids, IsInjective
<1>2. ToSet(free) = Pids
  <2>1. ASSUME NEW q \in Pids PROVE q \in ToSet(free)
    <3>1. PROCESS_MAX_PROCS - q \in 1 .. PROCESS_MAX_PROCS
      BY ProcsAssumption DEF Pids
    <3>2. free[PROCESS_MAX_PROCS - q] = q
      BY <3>1, ProcsAssumption DEF Pids
    <3> QED BY <1>1, <3>1, <3>2 DEF ToSet
  <2>2. ASSUME NEW q \in Seq(Pids) PROVE ToSet(q) \subseteq Pids
    BY DEF ToSet
  <2>3. ToSet(free) \subseteq Pids
    BY <1>1, <2>2
  <2> QED BY <2>1, <2>3
<1>3. <<>> \in Seq(Pids) /\ ToSet(<<>>) = {} /\ IsInjective(<<>>)
  BY DEF ToSet, IsInjective
<1> HIDE DEF free
<1>4. /\ t.flags = [q \in Pids |-> "FREE"] /\ t.runQueue = <<>> /\ t.waitQueue = {}
      /\ t.freepcbs = free /\ t.zombieQueue = <<>> /\ t.currentPCB = INVALID_PROC
      /\ t.nfreepages = MEMORY_FREE_PAGES /\ t.exit = "none"
  BY DEF ProcessModuleInit, free
<1>5. t \in Tables
  BY <1>1, <1>3, PagesAssumption DEF ProcessModuleInit, Tables, Statuses, ExitReasons, free
<1>6. WithStatus(t, "FREE") = Pids /\ \A s \in Statuses \ {"FREE"} : WithStatus(t, s) = {}
  BY <1>4 DEF WithStatus
<1>7. Consistent(t)
  BY <1>1, <1>2, <1>3, <1>4, <1>5, <1>6 DEF Consistent, QueuesMatch, Statuses
<1> QED BY <1>1, <1>4, <1>7

\* The table of the kernel when it has forked its first process.
LEMMA BootSound ==
  ASSUME NEW u, u = ProcessFork(ProcessModuleInit, TRUE)
  PROVE  Sound(u) /\ u.waitQueue = {} /\ u.exit # "noLinks"
<1> SUFFICES ASSUME NEW t, t = ProcessModuleInit,
                    NEW p, p = Head(t.freepcbs), NEW ps, ps = <<p>>,
                    NEW v, v = TakeFirst(t)
             PROVE  Sound(u) /\ u.waitQueue = {} /\ u.exit # "noLinks"
  OBVIOUS
<1>1. /\ Consistent(t) /\ t.freepcbs # <<>>
      /\ t.runQueue = <<>> /\ t.zombieQueue = <<>> /\ t.currentPCB = INVALID_PROC
      /\ t.nfreepages = MEMORY_FREE_PAGES /\ t.exit = "none"
  BY BootTable
<1>2. ~(t.nfreepages < PagesPerProcess)
  BY <1>1, PagesAssumption DEF PagesPerProcess
<1>3. /\ p \in Pids /\ Detached(v, ps) /\ v.flags[p] = "RUNNABLE"
      /\ v.runQueue = t.runQueue /\ v.zombieQueue = t.zombieQueue
      /\ v.currentPCB = t.currentPCB /\ v.exit = t.exit
  BY <1>1, <1>2, TakenDetached
<1>4. Idle(v)
  BY <1>1, <1>3 DEF Idle
<1>5. u = [v EXCEPT !.runQueue   = Append(@, p),
                    !.currentPCB = IF @ = INVALID_PROC THEN p ELSE @]
  BY <1>1, <1>2 DEF ProcessFork
<1>6. Sound(u)
  <2>1. Sound([v EXCEPT !.runQueue   = Append(@, p),
                        !.currentPCB = IF @ = INVALID_PROC THEN p ELSE @])
    BY <1>3, <1>4, EnqueueSound, ZenonT(30)
  <2> QED BY <1>5, <2>1
<1>7. u.waitQueue = {} /\ u.exit = "none"
  <2>1. v \in Tables
    BY <1>3 DEF Detached
  <2>2. v.waitQueue = {}
    BY <1>1 DEF TakeFirst, ProcessModuleInit, Consistent, Tables
  <2> QED BY <1>1, <1>3, <1>5, <2>1, <2>2 DEF Tables
<1> QED BY <1>6, <1>7

-----------------------------------------------------------------------------
\* What each routine does to the status of the processes, if the system goes on.

LEMMA ScheduleFlags ==
  ASSUME NEW t \in Tables, NEW suspendFlag \in BOOLEAN,
         NEW u, u = ProcessSchedule(t, suspendFlag), Running(u)
  PROVE  \A q \in Pids : u.flags[q] = IF q \in ToSet(t.zombieQueue) THEN "FREE" ELSE t.flags[q]
<1>1. t.runQueue # <<>>
  BY DEF ProcessSchedule, Exitsim, Running, Tables
<1> DEFINE queue == IF suspendFlag THEN t.runQueue ELSE Rotate(t.runQueue)
           v     == [t EXCEPT !.runQueue = queue, !.currentPCB = Head(queue), !.zombieQueue = <<>>]
<1>2. v.flags = t.flags
  BY DEF Tables
<1>3. u = ProcessFreeResources(v, t.zombieQueue)
  BY <1>1 DEF ProcessSchedule
<1>4. "flags" \in DOMAIN v
  BY DEF Tables
<1> HIDE DEF v
<1> QED BY <1>2, <1>3, <1>4 DEF ProcessFreeResources

LEMMA TimerFlags ==
  ASSUME NEW t, Sound(t), Running(t), NEW u, u = TimerInterrupt(t), Running(u)
  PROVE  \A q \in Pids : u.flags[q] = t.flags[q]
<1>1. t \in Tables /\ t.zombieQueue = <<>> /\ ToSet(<<>>) = {}
  BY DEF Sound, Consistent, ToSet
<1> QED BY <1>1, ScheduleFlags DEF TimerInterrupt

LEMMA ExitFlags ==
  ASSUME NEW t, Sound(t), Running(t), NEW p, p = t.currentPCB,
         NEW u, u = ProcessExit(t), Running(u)
  PROVE  \A q \in Pids : u.flags[q] = IF q = p THEN "FREE" ELSE t.flags[q]
<1> DEFINE v == ProcessDestroy(t, p)
<1>1. t \in Tables /\ t.zombieQueue = <<>> /\ p \in Pids
  BY DEF Sound, Consistent
<1>2. v \in Tables
  BY DestroyConsistent DEF Consistent
<1>3. <<p>> \o t.zombieQueue = <<p>> /\ ToSet(<<p>>) = {p}
  BY <1>1, Singleton
<1>4. v.flags = [t.flags EXCEPT ![p] = "ZOMBIE"] /\ v.zombieQueue = <<p>>
  BY <1>1, <1>3 DEF ProcessDestroy, Tables
<1>5. u = ProcessSchedule(v, FALSE)
  BY DEF ProcessExit
<1> HIDE DEF v
<1>6. \A q \in Pids : u.flags[q] = IF q \in ToSet(v.zombieQueue) THEN "FREE" ELSE v.flags[q]
  BY <1>2, <1>5, ScheduleFlags
<1>7. \A q \in Pids \ {p} : v.flags[q] = t.flags[q]
  BY <1>1, <1>4 DEF Tables
<1> QED BY <1>3, <1>4, <1>6, <1>7

LEMMA WakeupFlags ==
  ASSUME NEW t \in Tables, NEW ps, NEW u, u = ProcessWakeup(t, ps), Running(u)
  PROVE  \A q \in Pids : u.flags[q] = IF q \in ToSet(ps) THEN "RUNNABLE" ELSE t.flags[q]
BY DEF ProcessWakeup, Exitsim, Running, Tables

LEMMA SleepFlags ==
  ASSUME NEW t, Sound(t), Running(t), NEW p, p = t.currentPCB,
         NEW u, u = ProcessSleep(t), Running(u)
  PROVE  \A q \in Pids : u.flags[q] = IF q = p THEN "WAITING" ELSE t.flags[q]
<1> DEFINE v == ProcessSuspend(t, p)
<1>1. /\ t \in Tables /\ t.zombieQueue = <<>> /\ ToSet(<<>>) = {}
      /\ p \in Pids /\ t.flags[p] = "RUNNABLE"
  BY CurrentLeaves DEF Sound, Consistent, ToSet
<1>2. v \in Tables /\ Running(v)
  BY SuspendConsistent DEF Consistent, Running
<1>3. v.flags = [t.flags EXCEPT ![p] = "WAITING"] /\ v.zombieQueue = t.zombieQueue
  BY <1>1 DEF ProcessSuspend, Tables
<1>4. u = ProcessSchedule(v, TRUE)
  BY <1>2 DEF ProcessSleep
<1> HIDE DEF v
<1>5. \A q \in Pids : u.flags[q] = IF q \in ToSet(v.zombieQueue) THEN "FREE" ELSE v.flags[q]
  BY <1>2, <1>4, ScheduleFlags
<1> QED BY <1>1, <1>3, <1>5 DEF Tables

\* A fork changes nothing, or makes one free PCB a process that can run.
LEMMA ForkFlags ==
  ASSUME NEW t, Consistent(t), NEW loads \in BOOLEAN,
         NEW u, u = ProcessFork(t, loads), Running(u)
  PROVE  \/ u.runQueue = t.runQueue /\ \A q \in Pids : u.flags[q] = t.flags[q]
         \/ \E c \in Pids :
              /\ t.flags[c] = "FREE"
              /\ u.runQueue # t.runQueue /\ Last(u.runQueue) = c
              /\ t.currentPCB = INVALID_PROC => u.currentPCB = c
              /\ \A q \in Pids : u.flags[q] = IF q = c THEN "RUNNABLE" ELSE t.flags[q]
<1>1. t.freepcbs # <<>> /\ ~(t.nfreepages < PagesPerProcess)
  BY DEF ProcessFork, Exitsim, Running, Consistent, Tables
<1> SUFFICES ASSUME NEW p, p = Head(t.freepcbs), NEW ps, ps = <<p>>,
                    NEW v, v = TakeFirst(t)
             PROVE  \/ u.runQueue = t.runQueue /\ \A q \in Pids : u.flags[q] = t.flags[q]
                    \/ \E c \in Pids :
                         /\ t.flags[c] = "FREE"
                         /\ u.runQueue # t.runQueue /\ Last(u.runQueue) = c
                         /\ t.currentPCB = INVALID_PROC => u.currentPCB = c
                         /\ \A q \in Pids : u.flags[q] = IF q = c THEN "RUNNABLE" ELSE t.flags[q]
  OBVIOUS
<1>2. /\ p \in Pids /\ Detached(v, ps) /\ v.runQueue = t.runQueue
      /\ v.currentPCB = t.currentPCB
  BY <1>1, TakenDetached
<1>3. /\ t \in Tables /\ t.runQueue \in Seq(Pids) /\ t.freepcbs \in Seq(Pids)
      /\ p \in ToSet(t.freepcbs)
  BY <1>1, HeadTailProperties, ElementInSet DEF Consistent, Tables
<1>4. t.flags[p] = "FREE"
  BY <1>3 DEF Consistent, QueuesMatch, WithStatus
<1>5. v \in Tables /\ \A q \in Pids : v.flags[q] = IF q = p THEN "RUNNABLE" ELSE t.flags[q]
  <2>1. v \in Tables /\ ps \in Seq(Pids)
    BY <1>2 DEF Detached
  <2> QED BY <1>2, <1>3, <2>1 DEF TakeFirst, Tables
<1>6. CASE ~loads
  <2>1. u = ProcessFreeResources(v, ps)
    BY <1>1, <1>6 DEF ProcessFork
  <2>2. ps \in Seq(Pids) /\ ToSet(ps) = {p}
    BY <1>2, Singleton
  <2>3. v \in Tables /\ ps \in Seq(Pids)
    BY <1>5, <2>2
  <2>4. u.runQueue = v.runQueue
    BY <2>1, <2>3 DEF ProcessFreeResources, Tables
  <2>5. u.flags = [q \in Pids |-> IF q \in ToSet(ps) THEN "FREE" ELSE v.flags[q]]
    BY <2>1, <2>3 DEF ProcessFreeResources, Tables
  <2> QED BY <1>2, <1>4, <1>5, <2>2, <2>4, <2>5
<1>7. CASE loads
  <2>1. u = [v EXCEPT !.runQueue   = Append(@, p),
                      !.currentPCB = IF @ = INVALID_PROC THEN p ELSE @]
    BY <1>1, <1>7 DEF ProcessFork
  <2>2. /\ u.flags = v.flags /\ u.runQueue = Append(t.runQueue, p)
        /\ u.currentPCB = IF t.currentPCB = INVALID_PROC THEN p ELSE t.currentPCB
    BY <1>2, <1>5, <2>1 DEF Tables
  <2>3. u.runQueue # t.runQueue /\ Last(u.runQueue) = p
    BY <1>2, <1>3, <2>2 DEF Last
  <2> QED BY <1>2, <1>4, <1>5, <2>2, <2>3
<1> QED BY <1>6, <1>7

LEMMA CallFlags ==
  ASSUME NEW t, Sound(t), Running(t), NEW ps \in Seq(Pids), IsInjective(ps),
         ToSet(ps) \subseteq t.waitQueue, NEW blocks \in BOOLEAN,
         NEW p, p = t.currentPCB, NEW u, u = AfterCall(t, ps, blocks), Running(u)
  PROVE  /\ u.flags[p] = IF blocks THEN "WAITING" ELSE "RUNNABLE"
         /\ \A q \in Pids \ {p} : u.flags[q] \in {"RUNNABLE", t.flags[q]}
         /\ \A q \in Pids : t.flags[q] = "FREE" => u.flags[q] = "FREE"
<1> SUFFICES ASSUME NEW v, v = ProcessWakeup(t, ps)
             PROVE  /\ u.flags[p] = IF blocks THEN "WAITING" ELSE "RUNNABLE"
                    /\ \A q \in Pids \ {p} : u.flags[q] \in {"RUNNABLE", t.flags[q]}
                    /\ \A q \in Pids : t.flags[q] = "FREE" => u.flags[q] = "FREE"
  OBVIOUS
<1>1. Sound(v) /\ Running(v)
  BY WakeupSound
<1>2. /\ t \in Tables /\ p \in Pids /\ t.flags[p] = "RUNNABLE"
      /\ \A q \in ToSet(ps) : t.flags[q] = "WAITING"
  BY CurrentLeaves DEF Sound, Consistent, QueuesMatch, WithStatus
<1>3. \A q \in Pids : v.flags[q] = IF q \in ToSet(ps) THEN "RUNNABLE" ELSE t.flags[q]
  BY <1>1, <1>2, WakeupFlags
<1>4. v.currentPCB = p
  BY <1>1, <1>2 DEF ProcessWakeup, Exitsim, Running, Tables
<1>5. CASE ~blocks
  BY <1>2, <1>3, <1>5 DEF AfterCall
<1>6. CASE blocks
  <2>1. u = ProcessSleep(v)
    BY <1>1, <1>6 DEF AfterCall
  <2>2. \A q \in Pids : u.flags[q] = IF q = p THEN "WAITING" ELSE v.flags[q]
    BY <1>1, <1>4, <2>1, SleepFlags
  <2> QED BY <1>2, <1>3, <1>6, <2>2
<1> QED BY <1>5, <1>6

-----------------------------------------------------------------------------
\* What each routine does to the processes that sleep, and why the system stops.

LEMMA ScheduleSleepers ==
  ASSUME NEW t \in Tables, Running(t), NEW suspendFlag \in BOOLEAN,
         NEW u, u = ProcessSchedule(t, suspendFlag)
  PROVE  u.waitQueue = t.waitQueue /\ u.exit \in {"none", "idle", "asleep"}
BY DEF ProcessSchedule, ProcessFreeResources, Exitsim, Running, Tables

\* Only a call that blocks puts a process to sleep, and only its caller.
LEMMA CallSleepers ==
  ASSUME NEW t, Sound(t), Running(t), NEW ps \in Seq(Pids), IsInjective(ps),
         ToSet(ps) \subseteq t.waitQueue, NEW blocks \in BOOLEAN,
         NEW p, p = t.currentPCB, NEW u, u = AfterCall(t, ps, blocks)
  PROVE  /\ p \in Pids \ t.waitQueue
         /\ u.waitQueue = (t.waitQueue \ ToSet(ps)) \cup (IF blocks THEN {p} ELSE {})
         /\ u.exit \in {"none", "idle", "asleep"}
<1> SUFFICES ASSUME NEW w, w = ProcessWakeup(t, ps)
             PROVE  /\ p \in Pids \ t.waitQueue
                    /\ u.waitQueue = (t.waitQueue \ ToSet(ps)) \cup (IF blocks THEN {p} ELSE {})
                    /\ u.exit \in {"none", "idle", "asleep"}
  OBVIOUS
<1>1. Sound(w) /\ Running(w)
  BY WakeupSound
<1>2. t \in Tables /\ p \in Pids \ t.waitQueue
  BY CurrentLeaves DEF Sound, Consistent, QueuesMatch, WithStatus
<1>3. w.waitQueue = t.waitQueue \ ToSet(ps) /\ w.currentPCB = p
  BY <1>1, <1>2 DEF ProcessWakeup, Exitsim, Running, Tables
<1>4. CASE ~blocks
  BY <1>1, <1>2, <1>3, <1>4 DEF AfterCall, Running
<1>5. CASE blocks
  <2> DEFINE v == ProcessSuspend(w, p)
  <2>1. v \in Tables /\ Running(v)
    BY <1>1, <1>3, SuspendConsistent DEF Consistent, Running
  <2>2. w \in Tables /\ w.flags[p] = "RUNNABLE"
    BY <1>1, <1>3, CurrentLeaves
  <2>3. v.waitQueue = w.waitQueue \cup {p}
    BY <2>2 DEF ProcessSuspend, Tables
  <2>4. u = ProcessSchedule(v, TRUE)
    BY <1>1, <1>3, <1>5, <2>1 DEF AfterCall, ProcessSleep
  <2> HIDE DEF v
  <2>5. u.waitQueue = v.waitQueue /\ u.exit \in {"none", "idle", "asleep"}
    BY <2>1, <2>4, ScheduleSleepers
  <2> QED BY <1>2, <1>3, <1>5, <2>3, <2>5
<1> QED BY <1>4, <1>5

\* The handlers that neither wake nor block leave the sleepers alone.
LEMMA OtherSleepers ==
  ASSUME NEW t, Sound(t), Running(t), NEW loads \in BOOLEAN,
         NEW u, u \in {TimerInterrupt(t), ProcessExit(t), ProcessFork(t, loads)}
  PROVE  u.waitQueue = t.waitQueue /\ u.exit # "noLinks"
<1>1. t \in Tables /\ t.exit = "none"
  BY DEF Sound, Consistent, Running
<1>2. CASE u = TimerInterrupt(t)
  BY <1>1, <1>2, ScheduleSleepers DEF TimerInterrupt, Running
<1>3. CASE u = ProcessExit(t)
  <2> DEFINE v == ProcessDestroy(t, t.currentPCB)
  <2>1. v \in Tables /\ Running(v)
    BY DestroyConsistent DEF Consistent, Running
  <2>2. v.waitQueue = t.waitQueue
    BY <1>1 DEF ProcessDestroy, Tables
  <2>3. u = ProcessSchedule(v, FALSE)
    BY <1>3 DEF ProcessExit
  <2> HIDE DEF v
  <2> QED BY <2>1, <2>2, <2>3, ScheduleSleepers
<1>4. CASE u = ProcessFork(t, loads)
  BY <1>1, <1>4 DEF ProcessFork, TakeFirst, ProcessFreeResources, Exitsim, Tables
<1> QED BY <1>2, <1>3, <1>4
=============================================================================
