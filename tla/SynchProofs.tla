----------------------------- MODULE SynchProofs -----------------------------
(***************************************************************************)
(* The safety of semaphores, locks and condition variables, for every      *)
(* number of processes and every size of the pools.                        *)
(*                                                                         *)
(* The invariant has a part about the process table and the links          *)
(* (TableHolds), and a part that says who waits where (Waits).  The second *)
(* is about values, so that a handler which does two things, as cond_wait  *)
(* does, is the composition of two lemmas.                                 *)
(***************************************************************************)
EXTENDS Synch, TableLemmas

-----------------------------------------------------------------------------
\* Who waits where.

Nowhere == <<"none", -1>>
Places  == ({"sem"} \X Sems) \cup ({"lock"} \X Locks) \cup ({"cond"} \X Conds)

\* Where a process stands, or stood when it was woken, in the call c.
Goal(C, c) ==
  IF c.op = "SemWait" THEN <<"sem", c.on>>
  ELSE IF c.op = "LockAcquire" THEN <<"lock", c.on>>
  ELSE IF c.op = "CondReacquire" THEN <<"lock", C[c.on].lock>>
  ELSE IF c.op = "CondWait" THEN <<"cond", c.on>> ELSE Nowhere
Goals(C, calls) == [p \in Pids |-> Goal(C, calls[p])]

\* The queue q has the processes of W with the goal x, each once.
Line(q, W, goal, x) ==
  q \in Seq(Pids) /\ IsInjective(q) /\ ToSet(q) = {p \in W : goal[p] = x}

Queued(S, L, C, W, goal) ==
  /\ W \subseteq Pids /\ goal \in [Pids -> Places \cup {Nowhere}]
  /\ \A p \in W : goal[p] # Nowhere
  /\ \A s \in Sems  : Line(S[s].waiting, W, goal, <<"sem", s>>)
  /\ \A l \in Locks : Line(L[l].waiting, W, goal, <<"lock", l>>)
  /\ \A c \in Conds : Line(C[c].waiting, W, goal, <<"cond", c>>)

\* A process that was woken to get a lock has it.
Granted(L, W, goal) ==
  \A p \in Pids, l \in Locks :
    goal[p] = <<"lock", l>> => L[l].inuse /\ (p \notin W => L[l].pid = p)

Typed(S, L, C) ==
  /\ S \in [Sems -> SemRecords] /\ L \in [Locks -> LockRecords] /\ C \in [Conds -> CondRecords]

UnusedAreEmpty(S, L, C) ==
  /\ \A s \in Sems  : ~S[s].inuse => S[s].waiting = <<>>
  /\ \A l \in Locks : ~L[l].inuse => L[l].waiting = <<>>
  /\ \A c \in Conds : ~C[c].inuse => C[c].waiting = <<>>

SemsEmpty(S) == \A s \in Sems : S[s].waiting # <<>> => S[s].count <= 0
LocksHeld(L) ==
  \A l \in Locks : L[l].waiting # <<>> => L[l].pid \in Pids /\ L[l].pid \notin ToSet(L[l].waiting)

Waits(S, L, C, W, goal) ==
  /\ Typed(S, L, C) /\ UnusedAreEmpty(S, L, C) /\ SemsEmpty(S) /\ LocksHeld(L)
  /\ Queued(S, L, C, W, goal) /\ Granted(L, W, goal)

-----------------------------------------------------------------------------
\* Lines.

LEMMA LineJoin ==
  ASSUME NEW q, NEW W \in SUBSET Pids, NEW goal \in [Pids -> Places \cup {Nowhere}],
         NEW x \in Places, Line(q, W, goal, x), NEW p \in Pids \ W
  PROVE  Line(Append(q, p), W \cup {p}, [goal EXCEPT ![p] = x], x)
<1>1. /\ q \in Seq(Pids) /\ IsInjective(q) /\ p \notin ToSet(q)
      /\ ToSet(q) = {r \in W : goal[r] = x}
  BY DEF Line
<1>2. /\ Append(q, p) \in Seq(Pids) /\ IsInjective(Append(q, p))
      /\ ToSet(Append(q, p)) = ToSet(q) \cup {p}
  BY <1>1, AppendToQueue
<1>3. {r \in W \cup {p} : [goal EXCEPT ![p] = x][r] = x} = {r \in W : goal[r] = x} \cup {p}
  OBVIOUS
<1> QED BY <1>1, <1>2, <1>3 DEF Line

\* Joining the line for x leaves the others alone.
LEMMA OthersJoin ==
  ASSUME NEW q, NEW W \in SUBSET Pids, NEW goal \in [Pids -> Places \cup {Nowhere}],
         NEW x, NEW y, x # y, Line(q, W, goal, y), NEW p \in Pids \ W
  PROVE  Line(q, W \cup {p}, [goal EXCEPT ![p] = x], y)
<1>1. {r \in W \cup {p} : [goal EXCEPT ![p] = x][r] = y} = {r \in W : goal[r] = y}
  OBVIOUS
<1> QED BY <1>1 DEF Line

\* Those who leave the line for x leave the others alone.
LEMMA OthersLeave ==
  ASSUME NEW q, NEW W, NEW goal, NEW x, NEW y, x # y,
         Line(q, W, goal, y), NEW P, \A p \in P : goal[p] = x
  PROVE  Line(q, W \ P, goal, y)
<1>1. {r \in W \ P : goal[r] = y} = {r \in W : goal[r] = y}
  OBVIOUS
<1> QED BY <1>1 DEF Line

LEMMA LineLeaves ==
  ASSUME NEW q, NEW W \in SUBSET Pids, NEW goal, NEW x, Line(q, W, goal, x),
         NEW r \in Seq(Pids), IsInjective(r), NEW P, ToSet(r) = ToSet(q) \ P
  PROVE  Line(r, W \ P, goal, x)
BY DEF Line

\* Those who stand in a line are asleep, and so is the first of them.
LEMMA FrontOfLine ==
  ASSUME NEW q, NEW W, NEW goal, NEW x, Line(q, W, goal, x),
         NEW ps, ps \in {q, Front1(q)}
  PROVE  ps \in Seq(W) /\ IsInjective(ps) /\ ToSet(ps) \subseteq ToSet(q)
<1>1. q \in Seq(Pids) /\ IsInjective(q) /\ ToSet(q) \subseteq W
  BY DEF Line
<1>2. q \in Seq(W)
  BY <1>1 DEF ToSet
<1> QED BY <1>1, <1>2, FrontAndRest

-----------------------------------------------------------------------------
\* A process that is not asleep goes elsewhere in thought.
LEMMA WaitsForget ==
  ASSUME NEW S, NEW L, NEW C, NEW W, NEW goal, Waits(S, L, C, W, goal), NEW p \in Pids \ W
  PROVE  Waits(S, L, C, W, [goal EXCEPT ![p] = Nowhere])
<1> DEFINE other == [goal EXCEPT ![p] = Nowhere]
<1>1. W \subseteq Pids /\ goal \in [Pids -> Places \cup {Nowhere}]
  BY DEF Waits, Queued
<1>2. /\ other \in [Pids -> Places \cup {Nowhere}]
      /\ \A r \in Pids : other[r] = IF r = p THEN Nowhere ELSE goal[r]
  BY <1>1
<1>3. \A l \in Locks : Nowhere # <<"lock", l>>
  BY DEF Nowhere
<1> HIDE DEF other
<1>4. \A x : {r \in W : other[r] = x} = {r \in W : goal[r] = x}
  BY <1>1, <1>2
<1>5. \A q, x : Line(q, W, goal, x) => Line(q, W, other, x)
  BY <1>4 DEF Line
<1>6. Queued(S, L, C, W, other)
  BY <1>1, <1>2, <1>5 DEF Waits, Queued
<1>7. Granted(L, W, other)
  BY <1>2, <1>3 DEF Waits, Granted
<1> QED BY <1>6, <1>7 DEF Waits, other

LEMMA PlacesDiffer ==
  ASSUME NEW s \in Sems, NEW l \in Locks, NEW c \in Conds
  PROVE  /\ <<"sem", s>> \in Places /\ <<"lock", l>> \in Places /\ <<"cond", c>> \in Places
         /\ <<"sem", s>> # <<"lock", l>> /\ <<"sem", s>> # <<"cond", c>>
         /\ <<"lock", l>> # <<"cond", c>>
         /\ Nowhere \notin {<<"sem", s>>, <<"lock", l>>, <<"cond", c>>}
BY DEF Places, Nowhere

\* A goal that is no lock is no matter to Granted.
LEMMA GrantedJoin ==
  ASSUME NEW L, NEW W \in SUBSET Pids, NEW goal \in [Pids -> Places \cup {Nowhere}],
         Granted(L, W, goal), NEW p \in Pids \ W, NEW x, \A l \in Locks : x # <<"lock", l>>
  PROVE  Granted(L, W \cup {p}, [goal EXCEPT ![p] = x])
BY DEF Granted

\* The semaphore s becomes u, the others stay.
LEMMA OneSem ==
  ASSUME NEW S \in [Sems -> SemRecords], NEW s \in Sems, NEW u \in SemRecords,
         NEW T, T = [S EXCEPT ![s] = u]
  PROVE  T \in [Sems -> SemRecords] /\ T[s] = u /\ \A r \in Sems \ {s} : T[r] = S[r]
OBVIOUS

\* sem_wait on a semaphore that has nothing to give.
LEMMA SemJoins ==
  ASSUME NEW S, NEW L, NEW C, NEW W, NEW goal, Waits(S, L, C, W, goal),
         NEW s \in Sems, S[s].inuse, SemBlocks(S[s]), NEW p \in Pids \ W,
         NEW T, T = [S EXCEPT ![s] = SemWait(@, p)]
  PROVE  Waits(T, L, C, W \cup {p}, [goal EXCEPT ![p] = <<"sem", s>>])
<1> DEFINE V  == W \cup {p}
           x  == <<"sem", s>>
           to == [goal EXCEPT ![p] = x]
           u  == SemWait(S[s], p)
<1>1. /\ W \in SUBSET Pids /\ goal \in [Pids -> Places \cup {Nowhere}]
      /\ S \in [Sems -> SemRecords] /\ S[s] \in SemRecords /\ S[s].waiting \in Seq(Pids)
      /\ Line(S[s].waiting, W, goal, x)
  BY DEF Waits, Typed, Queued, SemRecords
<1>2. /\ u \in SemRecords /\ u.inuse = S[s].inuse /\ u.count = S[s].count
      /\ u.waiting = Append(S[s].waiting, p)
  <2>1. Append(S[s].waiting, p) \in Seq(Pids)
    BY <1>1, AppendToQueue
  <2> QED BY <1>1, <2>1 DEF SemWait, SemRecords
<1>3. T \in [Sems -> SemRecords] /\ T[s] = u /\ \A r \in Sems \ {s} : T[r] = S[r]
  <2> HIDE DEF u
  <2>1. T = [S EXCEPT ![s] = u]
    BY DEF u
  <2> QED BY <1>1, <1>2, <2>1, OneSem
<1>4. x \in Places /\ to \in [Pids -> Places \cup {Nowhere}]
  BY <1>1 DEF Places
<1> HIDE DEF u
<1>5. Queued(T, L, C, V, to)
  <2>1. ASSUME NEW r \in Sems PROVE Line(T[r].waiting, V, to, <<"sem", r>>)
    <3>1. CASE r # s
      <4>1. Line(S[r].waiting, W, goal, <<"sem", r>>) /\ x # <<"sem", r>>
        BY <3>1 DEF Waits, Queued
      <4> QED BY <1>1, <1>3, <3>1, <4>1, OthersJoin
    <3>2. CASE r = s
      <4>1. Line(Append(S[s].waiting, p), V, to, x)
        BY <1>1, <1>4, LineJoin
      <4>2. T[r].waiting = Append(S[s].waiting, p)
        BY <1>2, <1>3, <3>2
      <4> HIDE DEF V, to
      <4> QED BY <3>2, <4>1, <4>2
    <3> QED BY <3>1, <3>2
  <2>2. \A l \in Locks : Line(L[l].waiting, V, to, <<"lock", l>>)
    BY <1>1, OthersJoin DEF Waits, Queued
  <2>3. \A c \in Conds : Line(C[c].waiting, V, to, <<"cond", c>>)
    BY <1>1, OthersJoin DEF Waits, Queued
  <2>4. \A r \in V : to[r] # Nowhere
    BY <1>1 DEF Waits, Queued, Nowhere
  <2> QED BY <1>1, <1>4, <2>1, <2>2, <2>3, <2>4 DEF Queued
<1>6. Granted(L, V, to)
  BY <1>1, GrantedJoin DEF Waits
<1>7. Typed(T, L, C) /\ UnusedAreEmpty(T, L, C) /\ SemsEmpty(T)
  BY <1>2, <1>3 DEF Waits, Typed, UnusedAreEmpty, SemsEmpty, SemBlocks
<1> QED BY <1>5, <1>6, <1>7 DEF Waits

\* A semaphore that changes, but not in who waits for it: sem_create, and
\* sem_wait and sem_signal when they only count.
LEMMA SemKeepsLine ==
  ASSUME NEW S, NEW L, NEW C, NEW W, NEW goal, Waits(S, L, C, W, goal),
         NEW s \in Sems, NEW T, NEW u \in SemRecords, T = [S EXCEPT ![s] = u],
         u.waiting = S[s].waiting, u.waiting # <<>> => u.inuse /\ u.count <= 0
  PROVE  Waits(T, L, C, W, goal)
<1>1. S \in [Sems -> SemRecords]
  BY DEF Waits, Typed
<1>2. T \in [Sems -> SemRecords] /\ T[s] = u /\ \A r \in Sems \ {s} : T[r] = S[r]
  BY <1>1, OneSem
<1>3. \A r \in Sems : T[r].waiting = S[r].waiting
  BY <1>2
<1>4. Queued(T, L, C, W, goal)
  BY <1>3 DEF Waits, Queued
<1> QED BY <1>2, <1>4 DEF Waits, Typed, UnusedAreEmpty, SemsEmpty

\* sem_signal that wakes the first of those who wait.
LEMMA SemWakesFirst ==
  ASSUME NEW S, NEW L, NEW C, NEW W, NEW goal, Waits(S, L, C, W, goal),
         NEW s \in Sems, NEW q, q = S[s].waiting, SemWakes(S[s]),
         NEW T, T = [S EXCEPT ![s] = SemSignal(@)]
  PROVE  Waits(T, L, C, W \ {Head(q)}, goal)
<1> DEFINE V == W \ {Head(q)}
           x == <<"sem", s>>
           u == SemSignal(S[s])
<1> q # <<>>
  BY DEF SemWakes
<1>1. /\ W \in SUBSET Pids /\ goal \in [Pids -> Places \cup {Nowhere}]
      /\ S \in [Sems -> SemRecords] /\ S[s] \in SemRecords
      /\ q \in Seq(Pids) /\ IsInjective(q)
      /\ Line(q, W, goal, x) /\ ToSet(q) = {p \in W : goal[p] = x}
  BY DEF Waits, Typed, Queued, SemRecords, Line
<1>2. /\ Tail(q) \in Seq(Pids) /\ IsInjective(Tail(q)) /\ Head(q) \in ToSet(q)
      /\ ToSet(Tail(q)) = ToSet(q) \ {Head(q)}
  BY <1>1, TailOfQueue, HeadTailProperties, ElementInSet
<1>3. goal[Head(q)] = x
  BY <1>1, <1>2
<1>4. u \in SemRecords /\ u.inuse = S[s].inuse /\ u.count = S[s].count /\ u.waiting = Tail(q)
  BY <1>1, <1>2 DEF SemRecords, SemSignal
<1>5. T \in [Sems -> SemRecords] /\ T[s] = u /\ \A r \in Sems \ {s} : T[r] = S[r]
  <2> HIDE DEF u
  <2>1. T = [S EXCEPT ![s] = u]
    BY DEF u
  <2> QED BY <1>1, <1>4, <2>1, OneSem
<1> HIDE DEF u
<1>6. Queued(T, L, C, V, goal)
  <2>1. ASSUME NEW r \in Sems PROVE Line(T[r].waiting, V, goal, <<"sem", r>>)
    <3>1. CASE r # s
      <4>1. Line(S[r].waiting, W, goal, <<"sem", r>>) /\ x # <<"sem", r>>
        BY <3>1 DEF Waits, Queued
      <4> QED BY <1>3, <1>5, <3>1, <4>1, OthersLeave
    <3>2. CASE r = s
      <4>1. Line(Tail(q), V, goal, x)
        BY <1>1, <1>2, LineLeaves
      <4>2. T[r].waiting = Tail(q)
        BY <1>4, <1>5, <3>2
      <4> QED BY <3>2, <4>1, <4>2
    <3> QED BY <3>1, <3>2
  <2>2. \A l \in Locks : Line(L[l].waiting, V, goal, <<"lock", l>>)
    BY <1>3, OthersLeave DEF Waits, Queued
  <2>3. \A c \in Conds : Line(C[c].waiting, V, goal, <<"cond", c>>)
    BY <1>3, OthersLeave DEF Waits, Queued
  <2> QED BY <1>1, <2>1, <2>2, <2>3 DEF Waits, Queued
<1>7. Granted(L, V, goal)
  BY <1>3 DEF Waits, Granted
<1>8. UnusedAreEmpty(T, L, C)
  <2>1. q # <<>> => S[s].inuse
    BY DEF Waits, UnusedAreEmpty
  <2> QED BY <1>4, <1>5, <2>1 DEF Waits, UnusedAreEmpty
<1>9. SemsEmpty(T)
  BY <1>4, <1>5 DEF Waits, SemsEmpty
<1> QED BY <1>5, <1>6, <1>7, <1>8, <1>9 DEF Waits, Typed

\* The search of a create call ends at an entry that is not in use.
LEMMA FirstFreeEntry ==
  ASSUME NEW n \in Nat, NEW R, NEW pool \in [0 .. (n - 1) -> R], HasFree(pool),
         NEW h, h = FirstFree(pool)
  PROVE  h \in 0 .. (n - 1) /\ ~pool[h].inuse
<1> DEFINE F == {g \in 0 .. (n - 1) : ~pool[g].inuse}
<1>1. F \in SUBSET Nat /\ F # {}
  BY DEF HasFree
<1>2. Min(F) \in F /\ \A g \in F : Min(F) =< g
  <2> HIDE DEF F
  <2> QED BY <1>1, LeastNumber
<1>3. \A g \in 0 .. (n - 1) : g < Min(F) => pool[g].inuse
  <2> SUFFICES ASSUME NEW m, m \in F, \A g \in F : m =< g
               PROVE  \A g \in 0 .. (n - 1) : g < m => pool[g].inuse
    BY <1>2
  <2> QED OBVIOUS
<1>4. \E g \in DOMAIN pool : /\ ~pool[g].inuse
                             /\ \A k \in DOMAIN pool : k < g => pool[k].inuse
  <2> SUFFICES ASSUME NEW m, m \in F, \A g \in 0 .. (n - 1) : g < m => pool[g].inuse
               PROVE  \E g \in DOMAIN pool : /\ ~pool[g].inuse
                                             /\ \A k \in DOMAIN pool : k < g => pool[k].inuse
    BY <1>2, <1>3
  <2> QED OBVIOUS
<1> QED BY <1>4 DEF FirstFree

-----------------------------------------------------------------------------
\* The lock l becomes u, the others stay.
LEMMA OneLock ==
  ASSUME NEW L \in [Locks -> LockRecords], NEW l \in Locks, NEW u \in LockRecords,
         NEW M, M = [L EXCEPT ![l] = u]
  PROVE  M \in [Locks -> LockRecords] /\ M[l] = u /\ \A k \in Locks \ {l} : M[k] = L[k]
OBVIOUS

\* A lock that changes, but not in who waits for it.
LEMMA LockKeepsLine ==
  ASSUME NEW S, NEW L, NEW C, NEW W, NEW goal, Waits(S, L, C, W, goal),
         NEW l \in Locks, NEW M \in [Locks -> LockRecords],
         \A k \in Locks \ {l} : M[k] = L[k],
         M[l].inuse, M[l].waiting = L[l].waiting,
         L[l].waiting # <<>> => M[l].pid \in Pids /\ M[l].pid \notin ToSet(L[l].waiting),
         \A p \in Pids \ W : goal[p] = <<"lock", l>> => M[l].pid = p
  PROVE  Waits(S, M, C, W, goal)
<1>1. \A k \in Locks : M[k].waiting = L[k].waiting
  OBVIOUS
<1>2. Queued(S, M, C, W, goal)
  BY <1>1 DEF Waits, Queued
<1>3. Granted(M, W, goal)
  BY DEF Waits, Granted
<1> QED BY <1>2, <1>3 DEF Waits, Typed, UnusedAreEmpty, LocksHeld

\* lock_acquire of a lock that is free, or that the caller has.
LEMMA LockTaken ==
  ASSUME NEW S, NEW L, NEW C, NEW W, NEW goal, Waits(S, L, C, W, goal),
         NEW l \in Locks, L[l].inuse, NEW p \in Pids \ W, ~LockBlocks(L[l], p),
         NEW M, M = [L EXCEPT ![l] = LockAcquire(@, p)]
  PROVE  Waits(S, M, C, W, goal)
<1> DEFINE u == LockAcquire(L[l], p)
<1>1. L \in [Locks -> LockRecords] /\ L[l] \in LockRecords
  BY DEF Waits, Typed
<1>2. u \in LockRecords /\ u.inuse /\ u.pid = p /\ u.waiting = L[l].waiting
  BY <1>1 DEF LockAcquire, LockRecords
<1>3. L[l].pid \in Pids => L[l].pid = p
  BY ProcsAssumption DEF LockBlocks, Pids
<1>4. M \in [Locks -> LockRecords] /\ M[l] = u /\ \A k \in Locks \ {l} : M[k] = L[k]
  <2> HIDE DEF u
  <2>1. M = [L EXCEPT ![l] = u]
    BY DEF u
  <2> QED BY <1>1, <1>2, <2>1, OneLock
<1> HIDE DEF u
<1>5. M[l].inuse /\ M[l].waiting = L[l].waiting /\ M[l].pid = p
  BY <1>2, <1>4
<1>6. L[l].waiting # <<>> => M[l].pid \in Pids /\ M[l].pid \notin ToSet(L[l].waiting)
  BY <1>3, <1>5 DEF Waits, LocksHeld
<1>7. \A r \in Pids \ W : goal[r] = <<"lock", l>> => M[l].pid = r
  BY <1>3, <1>5 DEF Waits, Granted
<1> QED BY <1>4, <1>5, <1>6, <1>7, LockKeepsLine

\* lock_acquire, or the end of cond_wait, while another process has the lock.
LEMMA LockJoins ==
  ASSUME NEW S, NEW L, NEW C, NEW W, NEW goal, Waits(S, L, C, W, goal),
         NEW l \in Locks, L[l].inuse, NEW p \in Pids \ W, LockBlocks(L[l], p),
         NEW M, M = [L EXCEPT ![l] = LockAcquire(@, p)]
  PROVE  Waits(S, M, C, W \cup {p}, [goal EXCEPT ![p] = <<"lock", l>>])
<1> DEFINE V  == W \cup {p}
           x  == <<"lock", l>>
           to == [goal EXCEPT ![p] = x]
           u  == LockAcquire(L[l], p)
<1>1. /\ W \in SUBSET Pids /\ goal \in [Pids -> Places \cup {Nowhere}]
      /\ L \in [Locks -> LockRecords] /\ L[l] \in LockRecords /\ L[l].waiting \in Seq(Pids)
      /\ Line(L[l].waiting, W, goal, x)
  BY DEF Waits, Typed, Queued, LockRecords
<1>2. /\ Append(L[l].waiting, p) \in Seq(Pids)
      /\ ToSet(Append(L[l].waiting, p)) = ToSet(L[l].waiting) \cup {p}
  BY <1>1, AppendToQueue
<1>3. /\ u \in LockRecords /\ u.inuse = L[l].inuse /\ u.pid = L[l].pid
      /\ u.waiting = Append(L[l].waiting, p)
  BY <1>1, <1>2 DEF LockAcquire, LockRecords
<1>4. M \in [Locks -> LockRecords] /\ M[l] = u /\ \A k \in Locks \ {l} : M[k] = L[k]
  <2> HIDE DEF u
  <2>1. M = [L EXCEPT ![l] = u]
    BY DEF u
  <2> QED BY <1>1, <1>3, <2>1, OneLock
<1>5. x \in Places /\ to \in [Pids -> Places \cup {Nowhere}]
  BY <1>1 DEF Places
<1> HIDE DEF u
<1>6. Queued(S, M, C, V, to)
  <2>1. ASSUME NEW k \in Locks PROVE Line(M[k].waiting, V, to, <<"lock", k>>)
    <3>1. CASE k # l
      <4>1. Line(L[k].waiting, W, goal, <<"lock", k>>) /\ x # <<"lock", k>>
        BY <3>1 DEF Waits, Queued
      <4> QED BY <1>1, <1>4, <3>1, <4>1, OthersJoin
    <3>2. CASE k = l
      <4>1. Line(Append(L[l].waiting, p), V, to, x)
        BY <1>1, <1>5, LineJoin
      <4>2. M[k].waiting = Append(L[l].waiting, p)
        BY <1>3, <1>4, <3>2
      <4> HIDE DEF V, to
      <4> QED BY <3>2, <4>1, <4>2
    <3> QED BY <3>1, <3>2
  <2>2. \A s \in Sems : Line(S[s].waiting, V, to, <<"sem", s>>)
    BY <1>1, OthersJoin DEF Waits, Queued
  <2>3. \A c \in Conds : Line(C[c].waiting, V, to, <<"cond", c>>)
    BY <1>1, OthersJoin DEF Waits, Queued
  <2>4. \A r \in V : to[r] # Nowhere
    BY <1>1 DEF Waits, Queued, Nowhere
  <2> QED BY <1>1, <1>5, <2>1, <2>2, <2>3, <2>4 DEF Queued
<1>7. Granted(M, V, to)
  <2> SUFFICES ASSUME NEW r \in Pids, NEW k \in Locks, to[r] = <<"lock", k>>
               PROVE  M[k].inuse /\ (r \notin V => M[k].pid = r)
    BY DEF Granted
  <2>1. M[k].inuse = L[k].inuse /\ M[k].pid = L[k].pid
    BY <1>3, <1>4
  <2>2. CASE r = p
    BY <1>1, <2>1, <2>2
  <2>3. CASE r # p
    BY <1>1, <2>1, <2>3 DEF Waits, Granted
  <2> QED BY <2>2, <2>3
<1>8. UnusedAreEmpty(S, M, C)
  BY <1>3, <1>4 DEF Waits, UnusedAreEmpty
<1>9. LocksHeld(M)
  <2>1. L[l].pid \in Pids /\ L[l].pid # p
    BY <1>1 DEF LockBlocks, LockRecords, INVALID_PROC
  <2>2. L[l].pid \notin ToSet(L[l].waiting)
    BY DEF Waits, LocksHeld, ToSet
  <2> QED BY <1>2, <1>3, <1>4, <2>1, <2>2 DEF Waits, LocksHeld
<1> QED BY <1>4, <1>6, <1>7, <1>8, <1>9 DEF Waits, Typed

\* lock_release, and the lock that cond_wait gives up.
LEMMA LockHandedOver ==
  ASSUME NEW S, NEW L, NEW C, NEW W, NEW goal, Waits(S, L, C, W, goal),
         NEW l \in Locks, NEW p \in Pids, L[l].pid = p, goal[p] # <<"lock", l>>,
         NEW M, M = [L EXCEPT ![l] = LockRelease(@)],
         NEW ps, ps = Front1(L[l].waiting)
  PROVE  Waits(S, M, C, W \ ToSet(ps), goal)
<1> DEFINE q == L[l].waiting
           V == W \ ToSet(ps)
           x == <<"lock", l>>
           u == LockRelease(L[l])
<1>1. /\ W \in SUBSET Pids /\ goal \in [Pids -> Places \cup {Nowhere}]
      /\ L \in [Locks -> LockRecords] /\ L[l] \in LockRecords
      /\ q \in Seq(Pids) /\ IsInjective(q)
      /\ Line(q, W, goal, x) /\ ToSet(q) = {r \in W : goal[r] = x}
  BY DEF Waits, Typed, Queued, LockRecords, Line
<1>2. /\ Rest(q) \in Seq(Pids) /\ IsInjective(Rest(q))
      /\ ToSet(Rest(q)) = ToSet(q) \ ToSet(ps) /\ ToSet(ps) \subseteq ToSet(q)
      /\ IF q = <<>> THEN ps = <<>> /\ Rest(q) = <<>>
         ELSE ToSet(ps) = {Head(q)} /\ Head(q) \in Pids
  <2> SUFFICES ASSUME NEW z \in Seq(Pids), z = q
               PROVE  /\ Rest(z) \in Seq(Pids) /\ IsInjective(Rest(z))
                      /\ ToSet(Rest(z)) = ToSet(z) \ ToSet(ps) /\ ToSet(ps) \subseteq ToSet(z)
                      /\ IF z = <<>> THEN ps = <<>> /\ Rest(z) = <<>>
                         ELSE ToSet(ps) = {Head(z)} /\ Head(z) \in Pids
    BY <1>1
  <2>1. IsInjective(z) /\ ps = Front1(z)
    BY <1>1
  <2>2. /\ Rest(z) \in Seq(Pids) /\ IsInjective(Rest(z))
        /\ ToSet(Rest(z)) = ToSet(z) \ ToSet(Front1(z)) /\ ToSet(Front1(z)) \subseteq ToSet(z)
        /\ IF z = <<>> THEN Front1(z) = <<>> /\ Rest(z) = <<>>
           ELSE ToSet(Front1(z)) = {Head(z)} /\ Head(z) \in Pids
    BY <2>1, FrontAndRest
  <2> QED BY <2>1, <2>2
<1>3. \A r \in ToSet(ps) : goal[r] = x
  BY <1>1, <1>2
<1>4. /\ u \in LockRecords /\ u.inuse = L[l].inuse /\ u.waiting = Rest(q)
      /\ u.pid = IF q = <<>> THEN NoOwner ELSE Head(q)
  BY <1>1, <1>2 DEF LockRelease, LockRecords, NoOwner, INVALID_PROC
<1>5. M \in [Locks -> LockRecords] /\ M[l] = u /\ \A k \in Locks \ {l} : M[k] = L[k]
  <2> HIDE DEF u
  <2>1. M = [L EXCEPT ![l] = u]
    BY DEF u
  <2> QED BY <1>1, <1>4, <2>1, OneLock
<1> HIDE DEF u
<1>6. Queued(S, M, C, V, goal)
  <2>1. ASSUME NEW k \in Locks PROVE Line(M[k].waiting, V, goal, <<"lock", k>>)
    <3>1. CASE k # l
      <4>1. Line(L[k].waiting, W, goal, <<"lock", k>>) /\ x # <<"lock", k>>
        BY <3>1 DEF Waits, Queued
      <4> QED BY <1>3, <1>5, <3>1, <4>1, OthersLeave
    <3>2. CASE k = l
      <4>1. Line(Rest(q), V, goal, x)
        BY <1>1, <1>2, LineLeaves
      <4>2. M[k].waiting = Rest(q)
        BY <1>4, <1>5, <3>2
      <4> QED BY <3>2, <4>1, <4>2
    <3> QED BY <3>1, <3>2
  <2>2. \A s \in Sems : Line(S[s].waiting, V, goal, <<"sem", s>>)
    BY <1>3, OthersLeave DEF Waits, Queued
  <2>3. \A c \in Conds : Line(C[c].waiting, V, goal, <<"cond", c>>)
    BY <1>3, OthersLeave DEF Waits, Queued
  <2> QED BY <1>1, <2>1, <2>2, <2>3 DEF Waits, Queued
<1>7. Granted(M, V, goal)
  <2> SUFFICES ASSUME NEW r \in Pids, NEW k \in Locks, goal[r] = <<"lock", k>>
               PROVE  M[k].inuse /\ (r \notin V => M[k].pid = r)
    BY DEF Granted
  <2>1. L[k].inuse /\ (r \notin W => L[k].pid = r)
    BY DEF Waits, Granted
  <2>2. CASE k # l
    BY <1>3, <1>5, <2>1, <2>2
  <2>3. CASE k = l /\ r \notin W
    BY <2>1, <2>3
  <2>4. CASE k = l /\ r \in W
    BY <1>2, <1>4, <1>5, <2>1, <2>4 DEF ToSet
  <2> QED BY <2>2, <2>3, <2>4
<1>8. UnusedAreEmpty(S, M, C)
  BY <1>2, <1>4, <1>5 DEF Waits, UnusedAreEmpty
<1>9. LocksHeld(M)
  <2>1. Rest(q) # <<>> => /\ q # <<>> /\ u.pid \in Pids /\ u.pid \notin ToSet(Rest(q))
    BY <1>2, <1>4
  <2> QED BY <1>4, <1>5, <2>1 DEF Waits, LocksHeld
<1> QED BY <1>5, <1>6, <1>7, <1>8, <1>9 DEF Waits, Typed

-----------------------------------------------------------------------------
\* The condition variable c becomes u, the others stay.
LEMMA OneCond ==
  ASSUME NEW C \in [Conds -> CondRecords], NEW c \in Conds, NEW u \in CondRecords,
         NEW D, D = [C EXCEPT ![c] = u]
  PROVE  D \in [Conds -> CondRecords] /\ D[c] = u /\ \A k \in Conds \ {c} : D[k] = C[k]
OBVIOUS

\* cond_create.
LEMMA CondKeepsLine ==
  ASSUME NEW S, NEW L, NEW C, NEW W, NEW goal, Waits(S, L, C, W, goal),
         NEW c \in Conds, NEW D \in [Conds -> CondRecords],
         \A k \in Conds \ {c} : D[k] = C[k], D[c].inuse, D[c].waiting = C[c].waiting
  PROVE  Waits(S, L, D, W, goal)
<1>1. \A k \in Conds : D[k].waiting = C[k].waiting
  OBVIOUS
<1>2. Queued(S, L, D, W, goal)
  BY <1>1 DEF Waits, Queued
<1> QED BY <1>2 DEF Waits, Typed, UnusedAreEmpty

\* The first half of cond_wait.
LEMMA CondJoins ==
  ASSUME NEW S, NEW L, NEW C, NEW W, NEW goal, Waits(S, L, C, W, goal),
         NEW c \in Conds, C[c].inuse, NEW p \in Pids \ W,
         NEW D, D = [C EXCEPT ![c].waiting = Append(@, p)]
  PROVE  Waits(S, L, D, W \cup {p}, [goal EXCEPT ![p] = <<"cond", c>>])
<1> DEFINE V  == W \cup {p}
           x  == <<"cond", c>>
           to == [goal EXCEPT ![p] = x]
           u  == [C[c] EXCEPT !.waiting = Append(@, p)]
<1>1. /\ W \in SUBSET Pids /\ goal \in [Pids -> Places \cup {Nowhere}]
      /\ C \in [Conds -> CondRecords] /\ C[c] \in CondRecords /\ C[c].waiting \in Seq(Pids)
      /\ Line(C[c].waiting, W, goal, x)
  BY DEF Waits, Typed, Queued, CondRecords
<1>2. u \in CondRecords /\ u.inuse = C[c].inuse /\ u.waiting = Append(C[c].waiting, p)
  <2>1. Append(C[c].waiting, p) \in Seq(Pids)
    BY <1>1, AppendToQueue
  <2> QED BY <1>1, <2>1 DEF CondRecords
<1>3. D \in [Conds -> CondRecords] /\ D[c] = u /\ \A k \in Conds \ {c} : D[k] = C[k]
  <2>1. D = [C EXCEPT ![c] = u]
    BY <1>1
  <2> HIDE DEF u
  <2>2. u \in CondRecords
    BY <1>2
  <2> QED BY ONLY <1>1, <2>1, <2>2, OneCond, c \in Conds
<1>4. x \in Places /\ to \in [Pids -> Places \cup {Nowhere}]
  BY <1>1 DEF Places
<1> HIDE DEF u
<1>5. Queued(S, L, D, V, to)
  <2>1. ASSUME NEW k \in Conds PROVE Line(D[k].waiting, V, to, <<"cond", k>>)
    <3>1. CASE k # c
      <4>1. Line(C[k].waiting, W, goal, <<"cond", k>>) /\ x # <<"cond", k>>
        BY <3>1 DEF Waits, Queued
      <4> QED BY <1>1, <1>3, <3>1, <4>1, OthersJoin
    <3>2. CASE k = c
      <4>1. Line(Append(C[c].waiting, p), V, to, x)
        BY <1>1, <1>4, LineJoin
      <4>2. D[k].waiting = Append(C[c].waiting, p)
        BY <1>2, <1>3, <3>2
      <4> HIDE DEF V, to
      <4> QED BY <3>2, <4>1, <4>2
    <3> QED BY <3>1, <3>2
  <2>2. \A s \in Sems : Line(S[s].waiting, V, to, <<"sem", s>>)
    BY <1>1, OthersJoin DEF Waits, Queued
  <2>3. \A l \in Locks : Line(L[l].waiting, V, to, <<"lock", l>>)
    BY <1>1, OthersJoin DEF Waits, Queued
  <2>4. \A r \in V : to[r] # Nowhere
    BY <1>1 DEF Waits, Queued, Nowhere
  <2> QED BY <1>1, <1>4, <2>1, <2>2, <2>3, <2>4 DEF Queued
<1>6. Granted(L, V, to)
  BY <1>1, GrantedJoin DEF Waits
<1>7. Typed(S, L, D) /\ UnusedAreEmpty(S, L, D)
  BY <1>2, <1>3 DEF Waits, Typed, UnusedAreEmpty
<1> QED BY <1>5, <1>6, <1>7 DEF Waits

\* cond_signal and cond_broadcast: those of ps are woken, rest is left.
LEMMA CondLeaves ==
  ASSUME NEW S, NEW L, NEW C, NEW W, NEW goal, Waits(S, L, C, W, goal),
         NEW c \in Conds, C[c].inuse,
         NEW rest \in Seq(Pids), IsInjective(rest), NEW ps,
         ToSet(ps) \subseteq ToSet(C[c].waiting), ToSet(rest) = ToSet(C[c].waiting) \ ToSet(ps),
         NEW D, D = [C EXCEPT ![c].waiting = rest]
  PROVE  Waits(S, L, D, W \ ToSet(ps), goal)
<1> DEFINE V == W \ ToSet(ps)
           x == <<"cond", c>>
           u == [C[c] EXCEPT !.waiting = rest]
<1>1. /\ W \in SUBSET Pids /\ goal \in [Pids -> Places \cup {Nowhere}]
      /\ C \in [Conds -> CondRecords] /\ C[c] \in CondRecords
      /\ Line(C[c].waiting, W, goal, x)
  BY DEF Waits, Typed, Queued
<1>2. \A p \in ToSet(ps) : goal[p] = x
  BY <1>1 DEF Line
<1>3. u \in CondRecords /\ u.inuse = C[c].inuse /\ u.waiting = rest
  BY <1>1 DEF CondRecords
<1>4. D \in [Conds -> CondRecords] /\ D[c] = u /\ \A k \in Conds \ {c} : D[k] = C[k]
  <2>1. D = [C EXCEPT ![c] = u]
    BY <1>1
  <2> HIDE DEF u
  <2> QED BY <1>1, <1>3, <2>1, OneCond
<1> HIDE DEF u
<1>5. Queued(S, L, D, V, goal)
  <2>1. ASSUME NEW k \in Conds PROVE Line(D[k].waiting, V, goal, <<"cond", k>>)
    <3>1. CASE k # c
      <4>1. Line(C[k].waiting, W, goal, <<"cond", k>>) /\ x # <<"cond", k>>
        BY <3>1 DEF Waits, Queued
      <4> QED BY <1>2, <1>4, <3>1, <4>1, OthersLeave
    <3>2. CASE k = c
      <4>1. Line(rest, V, goal, x)
        BY <1>1, LineLeaves
      <4>2. D[k].waiting = rest
        BY <1>3, <1>4, <3>2
      <4> QED BY <3>2, <4>1, <4>2
    <3> QED BY <3>1, <3>2
  <2>2. \A s \in Sems : Line(S[s].waiting, V, goal, <<"sem", s>>)
    BY <1>2, OthersLeave DEF Waits, Queued
  <2>3. \A l \in Locks : Line(L[l].waiting, V, goal, <<"lock", l>>)
    BY <1>2, OthersLeave DEF Waits, Queued
  <2> QED BY <1>1, <2>1, <2>2, <2>3 DEF Waits, Queued
<1>6. Granted(L, V, goal)
  BY <1>2 DEF Waits, Granted
<1>7. Typed(S, L, D) /\ UnusedAreEmpty(S, L, D)
  BY <1>3, <1>4 DEF Waits, Typed, UnusedAreEmpty
<1> QED BY <1>5, <1>6, <1>7 DEF Waits

-----------------------------------------------------------------------------
\* The inductive invariant.

\* The table is sound and no link is lost.
TableHolds ==
  Sound(table) /\ table.exit # "noLinks" /\ freeLinks \in Nat /\ LinksAccounted

WaitsHold == Waits(sems, locks, conds, table.waitQueue, Goals(conds, call))

\* p, inside cond_wait, knows a condition variable that exists; if its lock does
\* not, nobody can have taken it from p.
Known(L, C, p, c) ==
  c.op \in {"CondWait", "CondReacquire"} =>
    /\ C[c.on].inuse
    /\ c.op = "CondWait" /\ ~L[C[c.on].lock].inuse => L[C[c.on].lock].pid = p

CallsKnown == call \in [Pids -> Calls] /\ \A p \in Pids : Known(locks, conds, p, call[p])

SynchInv == TableHolds /\ WaitsHold /\ CallsKnown

-----------------------------------------------------------------------------
\* The table and the links.

LEMMA SleepersFew ==
  ASSUME TableHolds, Running(table)
  PROVE  /\ me \in Pids \ table.waitQueue /\ table.waitQueue \in SUBSET Pids
         /\ IsFiniteSet(table.waitQueue) /\ Cardinality(table.waitQueue) \in Nat
         /\ Cardinality(table.waitQueue) < PROCESS_MAX_PROCS
<1>1. table \in Tables /\ me \in Pids /\ table.flags[me] = "RUNNABLE"
  BY CurrentLeaves DEF TableHolds, me
<1>2. me \notin table.waitQueue /\ table.waitQueue \in SUBSET Pids
  BY <1>1 DEF TableHolds, Sound, Consistent, QueuesMatch, WithStatus, Tables
<1>3. IsFiniteSet(Pids) /\ Cardinality(Pids) = PROCESS_MAX_PROCS
  BY ProcsAssumption, FS_Interval DEF Pids
<1>4. IsFiniteSet(table.waitQueue) /\ Cardinality(table.waitQueue) \in Nat
  BY <1>2, <1>3, FS_Subset, FS_CardinalityType
<1>5. Cardinality(table.waitQueue \cup {me}) = Cardinality(table.waitQueue) + 1
  BY <1>2, <1>4, FS_AddElement
<1>6. Cardinality(table.waitQueue \cup {me}) <= Cardinality(Pids)
  <2>1. table.waitQueue \cup {me} \in SUBSET Pids
    BY <1>1, <1>2
  <2> QED BY <1>3, <2>1, FS_Subset
<1> QED BY <1>1, <1>2, <1>3, <1>4, <1>5, <1>6, ProcsAssumption

\* How many are left when those of ps are woken.
LEMMA FewerSleepers ==
  ASSUME NEW W, IsFiniteSet(W), Cardinality(W) \in Nat,
         NEW ps \in Seq(W), IsInjective(ps)
  PROVE  /\ IsFiniteSet(W \ ToSet(ps)) /\ Len(ps) \in Nat
         /\ Cardinality(W \ ToSet(ps)) \in Nat
         /\ Cardinality(W \ ToSet(ps)) = Cardinality(W) - Len(ps)
<1>1. IsFiniteSet(ToSet(ps)) /\ Cardinality(ToSet(ps)) = Len(ps) /\ Len(ps) \in Nat
  BY QueueSize
<1>2. W \cap ToSet(ps) = ToSet(ps)
  BY DEF ToSet
<1>3. Cardinality(W \ ToSet(ps)) = Cardinality(W) - Cardinality(W \cap ToSet(ps))
  BY FS_Difference
<1>4. IsFiniteSet(W \ ToSet(ps))
  BY FS_Difference
<1> QED BY <1>1, <1>2, <1>3, <1>4, FS_CardinalityType

\* A handler that wakes and returns.
LEMMA WakeHolds ==
  ASSUME TableHolds, Running(table), NEW ps \in Seq(table.waitQueue), IsInjective(ps), Wake(ps)
  PROVE  TableHolds' /\ table'.waitQueue = table.waitQueue \ ToSet(ps) /\ call' = call
<1>1. /\ me \in Pids \ table.waitQueue /\ table.waitQueue \in SUBSET Pids
      /\ IsFiniteSet(table.waitQueue) /\ Cardinality(table.waitQueue) \in Nat
  BY SleepersFew
<1>2. ps \in Seq(Pids) /\ ToSet(ps) \subseteq table.waitQueue
  BY <1>1 DEF ToSet
<1>3. table' = AfterCall(table, ps, FALSE) /\ freeLinks' = freeLinks + Len(ps) /\ call' = call
  BY DEF Wake
<1>4. Sound(table')
  BY <1>2, <1>3, CallSound DEF TableHolds
<1>5. /\ table'.waitQueue = table.waitQueue \ ToSet(ps)
      /\ table'.exit \in {"none", "idle", "asleep"}
  <2> SUFFICES ASSUME NEW p, p = table.currentPCB
               PROVE  /\ table'.waitQueue = table.waitQueue \ ToSet(ps)
                      /\ table'.exit \in {"none", "idle", "asleep"}
    OBVIOUS
  <2>1. Sound(table) /\ FALSE \in BOOLEAN
    BY DEF TableHolds
  <2>2. /\ table'.waitQueue = (table.waitQueue \ ToSet(ps)) \cup (IF FALSE THEN {p} ELSE {})
        /\ table'.exit \in {"none", "idle", "asleep"}
    BY <1>2, <1>3, <2>1, CallSleepers, ZenonT(30)
  <2> QED BY <2>2
<1>6. Len(ps) \in Nat /\ Cardinality(table.waitQueue \ ToSet(ps)) = Cardinality(table.waitQueue) - Len(ps)
  BY <1>1, FewerSleepers
<1>7. LinksAccounted' /\ freeLinks' \in Nat
  <2>1. freeLinks' + PROCESS_MAX_PROCS + Cardinality(table.waitQueue \ ToSet(ps)) = QUEUE_MAX_LINKS
    BY <1>1, <1>3, <1>6, ProcsAssumption, LinksAssumption DEF TableHolds, LinksAccounted
  <2>2. LinksAccounted'
    BY <1>5, <2>1 DEF LinksAccounted
  <2>3. freeLinks' \in Nat
    BY <1>3, <1>6 DEF TableHolds
  <2> QED BY <2>2, <2>3
<1> QED BY <1>3, <1>4, <1>5, <1>7 DEF TableHolds

\* A handler that wakes and sleeps always finds a link.
LEMMA SleepHolds ==
  ASSUME TableHolds, Running(table), NEW ps \in Seq(table.waitQueue), IsInjective(ps),
         NEW c, WakeAndSleep(ps, c)
  PROVE  /\ TableHolds' /\ table'.waitQueue = (table.waitQueue \ ToSet(ps)) \cup {me}
         /\ call' = [call EXCEPT ![me] = c]
<1>1. /\ me \in Pids \ table.waitQueue /\ table.waitQueue \in SUBSET Pids
      /\ IsFiniteSet(table.waitQueue) /\ Cardinality(table.waitQueue) \in Nat
      /\ Cardinality(table.waitQueue) < PROCESS_MAX_PROCS
  BY SleepersFew
<1>2. ps \in Seq(Pids) /\ ToSet(ps) \subseteq table.waitQueue
  BY <1>1 DEF ToSet
<1>3. freeLinks # 0 /\ freeLinks \in Nat
  BY <1>1, ProcsAssumption, LinksAssumption DEF TableHolds, LinksAccounted
<1>4. /\ table' = AfterCall(table, ps, TRUE) /\ freeLinks' = freeLinks - 1 + Len(ps)
      /\ call' = [call EXCEPT ![me] = c]
  BY <1>3 DEF WakeAndSleep
<1>5. Sound(table')
  BY <1>2, <1>4, CallSound DEF TableHolds
<1>6. /\ table'.waitQueue = (table.waitQueue \ ToSet(ps)) \cup {me}
      /\ table'.exit \in {"none", "idle", "asleep"}
  <2>1. ASSUME NEW blocks \in BOOLEAN, NEW p, p = table.currentPCB, NEW u,
               u = AfterCall(table, ps, blocks)
        PROVE  /\ u.waitQueue = (table.waitQueue \ ToSet(ps)) \cup (IF blocks THEN {p} ELSE {})
               /\ u.exit \in {"none", "idle", "asleep"}
    BY <1>2, <2>1, CallSleepers DEF TableHolds
  <2> QED BY <1>4, <2>1 DEF me
<1>7. /\ Len(ps) \in Nat /\ IsFiniteSet(table.waitQueue \ ToSet(ps))
      /\ Cardinality(table.waitQueue \ ToSet(ps)) \in Nat
      /\ Cardinality(table.waitQueue \ ToSet(ps)) = Cardinality(table.waitQueue) - Len(ps)
  BY <1>1, FewerSleepers
<1>8. Cardinality((table.waitQueue \ ToSet(ps)) \cup {me}) =
        Cardinality(table.waitQueue) - Len(ps) + 1
  BY <1>1, <1>7, FS_AddElement
<1>9. LinksAccounted' /\ freeLinks' \in Nat
  <2>1. freeLinks' + PROCESS_MAX_PROCS + Cardinality((table.waitQueue \ ToSet(ps)) \cup {me})
          = QUEUE_MAX_LINKS
    BY <1>1, <1>3, <1>4, <1>7, <1>8, ProcsAssumption, LinksAssumption
       DEF TableHolds, LinksAccounted
  <2>2. LinksAccounted'
    BY <1>6, <2>1 DEF LinksAccounted
  <2>3. freeLinks' \in Nat
    BY <1>3, <1>4, <1>7
  <2> QED BY <2>2, <2>3
<1> QED BY <1>4, <1>5, <1>6, <1>9 DEF TableHolds

\* The handlers that leave the sleepers alone.
LEMMA OthersHold ==
  ASSUME TableHolds, Running(table), NEW loads \in BOOLEAN,
         \/ table' \in {TimerInterrupt(table), ProcessExit(table), ProcessFork(table, loads)}
         \/ table' = Exitsim(table, "notOwner"),
         UNCHANGED freeLinks
  PROVE  TableHolds' /\ table'.waitQueue = table.waitQueue
<1>1. Sound(table) /\ table \in Tables
  BY DEF TableHolds, Sound, Consistent
<1>2. /\ Sound(table') /\ table'.waitQueue = table.waitQueue /\ table'.exit # "noLinks"
  <2>1. CASE table' = TimerInterrupt(table)
    <3>1. /\ Consistent(table) /\ table.currentPCB \in Pids /\ table.exit = "none"
      BY <1>1 DEF Sound, Running
    <3>2. Sound(table')
      BY <2>1, <3>1, ScheduleSound DEF TimerInterrupt
    <3> QED BY <1>1, <2>1, <3>2, OtherSleepers
  <2>2. CASE table' = ProcessExit(table)
    BY <1>1, <2>2, ExitSound, OtherSleepers
  <2>3. CASE table' = ProcessFork(table, loads)
    BY <1>1, <2>3, ForkSound, OtherSleepers
  <2>4. CASE table' = Exitsim(table, "notOwner")
    <3>1. Sound(table')
      BY <1>1, <2>4, ExitsimSound DEF ExitReasons
    <3> QED BY <1>1, <2>4, <3>1 DEF Exitsim, Tables
  <2> QED BY <2>1, <2>2, <2>3, <2>4
<1>3. LinksAccounted' /\ freeLinks' \in Nat
  BY <1>2 DEF TableHolds, LinksAccounted
<1> QED BY <1>2, <1>3 DEF TableHolds

-----------------------------------------------------------------------------
\* Calls and where they take a process.

LEMMA GoalOfCall ==
  ASSUME NEW C, NEW calls \in [Pids -> Calls], NEW p \in Pids, NEW c
  PROVE  /\ Goals(C, [calls EXCEPT ![p] = c]) = [Goals(C, calls) EXCEPT ![p] = Goal(C, c)]
         /\ Goals(C, calls)[p] = Goal(C, calls[p])
BY DEF Goals

\* What each call waits for.
LEMMA GoalCases ==
  ASSUME NEW C
  PROVE  /\ Goal(C, NoCall) = Nowhere
         /\ \A s \in Sems : Goal(C, [op |-> "SemWait", on |-> s]) = <<"sem", s>>
         /\ \A l \in Locks : Goal(C, [op |-> "LockAcquire", on |-> l]) = <<"lock", l>>
         /\ \A c \in Conds : /\ Goal(C, [op |-> "CondWait", on |-> c]) = <<"cond", c>>
                             /\ Goal(C, [op |-> "CondReacquire", on |-> c]) = <<"lock", C[c].lock>>
BY DEF Goal, NoCall

\* Goals stay if the condition variables in use keep their locks.
LEMMA GoalsStay ==
  ASSUME CallsKnown, NEW D, \A c \in Conds : conds[c].inuse => D[c].lock = conds[c].lock
  PROVE  Goals(D, call) = Goals(conds, call)
<1> SUFFICES ASSUME NEW p \in Pids PROVE Goal(D, call[p]) = Goal(conds, call[p])
  BY DEF Goals
<1>1. call[p] \in Calls /\ Known(locks, conds, p, call[p])
  BY DEF CallsKnown
<1> QED BY <1>1 DEF Goal, Known, Calls, NoCall

\* What a process in cond_wait knows stays true.
LEMMA KnownStays ==
  ASSUME NEW L, NEW M, NEW C \in [Conds -> CondRecords], NEW D,
         NEW p \in Pids, NEW c \in Calls, Known(L, C, p, c),
         \A k \in Conds : C[k].inuse => D[k].inuse /\ D[k].lock = C[k].lock,
         \A l \in Locks : ~M[l].inuse => ~L[l].inuse /\ M[l].pid = L[l].pid
  PROVE  Known(M, D, p, c)
<1> SUFFICES ASSUME c.op \in {"CondWait", "CondReacquire"} PROVE Known(M, D, p, c)
  BY DEF Known
<1>1. c.on \in Conds
  BY DEF Calls, NoCall
<1>2. C[c.on].inuse /\ C[c.on].lock \in Locks
  BY <1>1 DEF Known, CondRecords
<1> QED BY <1>1, <1>2 DEF Known

-----------------------------------------------------------------------------
\* Every action keeps the invariant.

LEMMA Caller ==
  ASSUME SynchInv, Running(table)
  PROVE  /\ TableHolds /\ WaitsHold /\ call \in [Pids -> Calls]
         /\ Typed(sems, locks, conds)
         /\ me \in Pids \ table.waitQueue /\ table.waitQueue \in SUBSET Pids
         /\ call[me] = NoCall => Goals(conds, call)[me] = Nowhere
         /\ \A p \in Pids : Known(locks, conds, p, call[p])
<1>1. me \in Pids \ table.waitQueue /\ table.waitQueue \in SUBSET Pids
  BY SleepersFew DEF SynchInv
<1>2. call[me] = NoCall => Goals(conds, call)[me] = Nowhere
  BY <1>1, GoalCases DEF SynchInv, CallsKnown, Goals
<1> QED BY <1>1, <1>2 DEF SynchInv, CallsKnown, WaitsHold, Waits

LEMMA NobodyWoken ==
  <<>> \in Seq(table.waitQueue) /\ IsInjective(<<>>) /\ ToSet(<<>>) = {}
BY DEF ToSet, IsInjective

LEMMA SemCreateInv ==
  ASSUME SynchInv, NEW count \in SemCounts, SemCreate(count)
  PROVE  SynchInv'
<1>1. /\ Running(table) /\ HasFree(sems)
      /\ sems' = [sems EXCEPT ![FirstFree(sems)] = [inuse |-> TRUE, count |-> count, waiting |-> <<>>]]
      /\ UNCHANGED <<table, locks, conds, call, freeLinks>>
  BY DEF SemCreate, InUserMode
<1>2. Typed(sems, locks, conds) /\ WaitsHold
  BY <1>1, Caller
<1> SUFFICES ASSUME NEW h, h = FirstFree(sems) PROVE SynchInv'
  OBVIOUS
<1>3. h \in Sems /\ ~sems[h].inuse
  BY <1>1, <1>2, PoolsAssumption, FirstFreeEntry DEF Typed, Sems
<1> DEFINE u == [inuse |-> TRUE, count |-> count, waiting |-> <<>>]
<1>4. u \in SemRecords /\ u.waiting = <<>> /\ sems[h].waiting = <<>>
  BY <1>2, <1>3, CountsAssumption DEF SemRecords, WaitsHold, Waits, UnusedAreEmpty
<1>5. sems' = [sems EXCEPT ![h] = u]
  BY <1>1
<1> HIDE DEF u
<1>6. Waits(sems', locks, conds, table.waitQueue, Goals(conds, call))
  BY <1>2, <1>3, <1>4, <1>5, SemKeepsLine DEF WaitsHold
<1> QED BY <1>1, <1>6 DEF SynchInv, WaitsHold, TableHolds, LinksAccounted, CallsKnown

LEMMA SemWaitInv ==
  ASSUME SynchInv, NEW s \in Sems, SemHandleWait(s)
  PROVE  SynchInv'
<1> DEFINE W == table.waitQueue
           G == Goals(conds, call)
<1>1. /\ Running(table) /\ sems[s].inuse /\ sems' = [sems EXCEPT ![s] = SemWait(@, me)]
      /\ UNCHANGED <<locks, conds>>
  BY DEF SemHandleWait, InUserMode
<1>2. /\ TableHolds /\ Waits(sems, locks, conds, W, G) /\ call \in [Pids -> Calls]
      /\ Typed(sems, locks, conds) /\ me \in Pids \ W
      /\ \A p \in Pids : Known(locks, conds, p, call[p])
  BY <1>1, Caller DEF WaitsHold
<1>3. CASE ~SemBlocks(sems[s])
  <2> DEFINE u == SemWait(sems[s], me)
  <2>1. UNCHANGED <<table, call, freeLinks>>
    BY <1>3 DEF SemHandleWait
  <2>2. u \in SemRecords /\ u.waiting = sems[s].waiting /\ sems[s].waiting = <<>>
    <3>1. sems[s] \in SemRecords
      BY <1>2 DEF Typed
    <3>2. u = [sems[s] EXCEPT !.count = @ - 1]
      BY <1>3 DEF SemWait
    <3>3. sems[s].waiting = <<>>
      BY <1>2, <1>3 DEF Waits, SemsEmpty, SemBlocks
    <3> QED BY <3>1, <3>2, <3>3 DEF SemRecords
  <2>3. sems' = [sems EXCEPT ![s] = u]
    BY <1>1
  <2> HIDE DEF u
  <2>4. Waits(sems', locks, conds, W, G)
    BY <1>2, <2>2, <2>3, SemKeepsLine
  <2> QED BY <1>1, <2>1, <2>4 DEF SynchInv, WaitsHold, TableHolds, LinksAccounted, CallsKnown
<1>4. CASE SemBlocks(sems[s])
  <2> DEFINE c == [op |-> "SemWait", on |-> s]
  <2>1. WakeAndSleep(<<>>, c)
    BY <1>4 DEF SemHandleWait
  <2> HIDE DEF c
  <2>2. TableHolds' /\ table'.waitQueue = W \cup {me} /\ call' = [call EXCEPT ![me] = c]
    <3>1. TableHolds' /\ table'.waitQueue = (W \ ToSet(<<>>)) \cup {me} /\ call' = [call EXCEPT ![me] = c]
      BY <1>1, <1>2, <2>1, SleepHolds, NobodyWoken
    <3> QED BY <3>1, NobodyWoken
  <2>3. Goals(conds, call') = [G EXCEPT ![me] = <<"sem", s>>]
    <3>1. Goal(conds, c) = <<"sem", s>>
      BY GoalCases DEF c
    <3>2. Goals(conds, [call EXCEPT ![me] = c]) = [G EXCEPT ![me] = Goal(conds, c)]
      BY <1>2 DEF Goals
    <3> QED BY <2>2, <3>1, <3>2
  <2>4. Waits(sems', locks, conds, W \cup {me}, [G EXCEPT ![me] = <<"sem", s>>])
    BY <1>1, <1>2, <1>4, SemJoins
  <2>5. c \in Calls /\ \A p : Known(locks, conds, p, c)
    BY DEF c, Calls, Known
  <2>6. CallsKnown'
    BY <1>1, <1>2, <2>2, <2>5 DEF CallsKnown
  <2> QED BY <1>1, <2>2, <2>3, <2>4, <2>6 DEF SynchInv, WaitsHold
<1> QED BY <1>3, <1>4

LEMMA SemSignalInv ==
  ASSUME SynchInv, NEW s \in Sems, SemHandleSignal(s)
  PROVE  SynchInv'
<1> DEFINE W == table.waitQueue
           G == Goals(conds, call)
           ps == IF SemWakes(sems[s]) THEN <<Head(sems[s].waiting)>> ELSE <<>>
<1>1. /\ Running(table) /\ sems[s].inuse /\ sems' = [sems EXCEPT ![s] = SemSignal(@)]
      /\ UNCHANGED <<locks, conds>> /\ Wake(ps)
  BY DEF SemHandleSignal, InUserMode
<1>2. /\ TableHolds /\ Waits(sems, locks, conds, W, G) /\ call \in [Pids -> Calls]
      /\ sems \in [Sems -> SemRecords] /\ sems[s] \in SemRecords
      /\ Line(sems[s].waiting, W, G, <<"sem", s>>)
  BY <1>1, Caller DEF WaitsHold, Waits, Queued, Typed
<1>3. /\ ps \in Seq(W) /\ IsInjective(ps)
      /\ ToSet(ps) = IF SemWakes(sems[s]) THEN {Head(sems[s].waiting)} ELSE {}
  <2>1. CASE ~SemWakes(sems[s])
    BY <2>1, NobodyWoken
  <2>2. CASE SemWakes(sems[s])
    <3>1. Head(sems[s].waiting) \in W
      BY <1>2, <2>2, HeadTailProperties, ElementInSet DEF Line, SemWakes
    <3> QED BY <2>2, <3>1, Singleton
  <2> QED BY <2>1, <2>2
<1>4. Waits(sems', locks, conds, W \ ToSet(ps), G)
  <2>1. CASE ~SemWakes(sems[s])
    <3> DEFINE u == SemSignal(sems[s])
    <3>1. u \in SemRecords /\ u.waiting = sems[s].waiting
      BY <1>2, <2>1 DEF SemSignal, SemRecords
    <3>2. u.waiting # <<>> => u.inuse /\ u.count <= 0
      BY <1>1, <1>2, <2>1 DEF SemSignal, SemWakes, SemRecords
    <3>3. sems' = [sems EXCEPT ![s] = u]
      BY <1>1
    <3>4. W \ ToSet(ps) = W
      BY <1>3, <2>1
    <3> HIDE DEF u, W, ps, G
    <3> QED BY <1>2, <3>1, <3>2, <3>3, <3>4, SemKeepsLine
  <2>2. CASE SemWakes(sems[s])
    BY <1>1, <1>2, <1>3, <2>2, SemWakesFirst
  <2> QED BY <2>1, <2>2
<1> HIDE DEF ps, W, G
<1>5. TableHolds' /\ table'.waitQueue = W \ ToSet(ps) /\ call' = call
  BY <1>1, <1>2, <1>3, WakeHolds DEF W
<1>6. WaitsHold'
  BY <1>1, <1>4, <1>5 DEF WaitsHold, G
<1> QED BY <1>1, <1>5, <1>6 DEF SynchInv, CallsKnown

LEMMA LockCreateInv ==
  ASSUME SynchInv, LockCreate
  PROVE  SynchInv'
<1> DEFINE W == table.waitQueue
           G == Goals(conds, call)
           u == [inuse |-> TRUE, pid |-> NoOwner, waiting |-> <<>>]
<1> SUFFICES ASSUME NEW h, h = FirstFree(locks) PROVE SynchInv'
  OBVIOUS
<1>1. /\ Running(table) /\ HasFree(locks) /\ locks' = [locks EXCEPT ![h] = u]
      /\ UNCHANGED <<table, sems, conds, call, freeLinks>>
  BY DEF LockCreate, InUserMode
<1>2. /\ Waits(sems, locks, conds, W, G) /\ Typed(sems, locks, conds)
      /\ call \in [Pids -> Calls] /\ \A p \in Pids : Known(locks, conds, p, call[p])
  BY <1>1, Caller DEF WaitsHold
<1>3. h \in Locks /\ ~locks[h].inuse
  BY <1>1, <1>2, PoolsAssumption, FirstFreeEntry DEF Typed, Locks
<1>4. u \in LockRecords /\ u.inuse /\ u.waiting = <<>>
  BY DEF LockRecords, NoOwner, INVALID_PROC
<1> HIDE DEF u
<1>5. locks' \in [Locks -> LockRecords] /\ locks'[h] = u /\ \A k \in Locks \ {h} : locks'[k] = locks[k]
  BY <1>1, <1>2, <1>3, <1>4, OneLock DEF Typed
<1>6. locks[h].waiting = <<>> /\ \A p \in Pids : G[p] # <<"lock", h>>
  BY <1>2, <1>3 DEF Waits, UnusedAreEmpty, Granted
<1>7. Waits(sems, locks', conds, W, G)
  <2> SUFFICES ASSUME NEW M \in [Locks -> LockRecords], M[h].inuse, M[h].waiting = locks[h].waiting,
                      \A k \in Locks \ {h} : M[k] = locks[k]
               PROVE  Waits(sems, M, conds, W, G)
    BY <1>4, <1>5, <1>6
  <2>1. /\ locks[h].waiting # <<>> => M[h].pid \in Pids /\ M[h].pid \notin ToSet(locks[h].waiting)
        /\ \A p \in Pids \ W : G[p] = <<"lock", h>> => M[h].pid = p
    BY <1>6
  <2>2. Waits(sems, locks, conds, W, G)
    BY <1>2
  <2> HIDE DEF G, W
  <2> QED BY <1>3, <2>1, <2>2, LockKeepsLine, SMTT(60)
<1>8. CallsKnown'
  <2> SUFFICES ASSUME NEW p \in Pids, NEW c, c = call[p] PROVE Known(locks', conds, p, c)
    BY <1>1, <1>2 DEF CallsKnown
  <2>1. c \in Calls /\ Known(locks, conds, p, c)
    BY <1>2
  <2>2. \A l \in Locks : ~locks'[l].inuse => ~locks[l].inuse /\ locks'[l].pid = locks[l].pid
    BY <1>4, <1>5
  <2>3. conds \in [Conds -> CondRecords]
    BY <1>2 DEF Typed
  <2> QED BY <2>1, <2>2, <2>3, KnownStays
<1> QED BY <1>1, <1>7, <1>8 DEF SynchInv, WaitsHold, TableHolds, LinksAccounted

\* What LockAcquire and LockRelease do to a lock that exists is of no concern to
\* the calls of other processes.
LEMMA LocksChange ==
  ASSUME call \in [Pids -> Calls], \A p \in Pids : Known(locks, conds, p, call[p]),
         locks \in [Locks -> LockRecords], conds \in [Conds -> CondRecords],
         NEW l \in Locks, locks[l].inuse, NEW p \in Pids, NEW M,
         M \in {[locks EXCEPT ![l] = LockAcquire(@, p)], [locks EXCEPT ![l] = LockRelease(@)]},
         NEW D, \A c \in Conds : conds[c].inuse => D[c].inuse /\ D[c].lock = conds[c].lock
  PROVE  \A r \in Pids : Known(M, D, r, call[r])
<1>1. \A k \in Locks : ~M[k].inuse => ~locks[k].inuse /\ M[k].pid = locks[k].pid
  <2>1. locks[l] \in LockRecords
    OBVIOUS
  <2>2. M[l].inuse /\ \A k \in Locks \ {l} : M[k] = locks[k]
    BY <2>1, ZenonT(30) DEF LockAcquire, LockRelease, LockRecords
  <2> QED BY <2>2
<1> SUFFICES ASSUME NEW r \in Pids, NEW c, c = call[r] PROVE Known(M, D, r, c)
  OBVIOUS
<1>2. c \in Calls /\ Known(locks, conds, r, c)
  OBVIOUS
<1> QED BY <1>1, <1>2, KnownStays

\* lock_acquire, by itself or at the end of cond_wait.
LEMMA AcquireInv ==
  ASSUME SynchInv, Running(table), NEW l \in Locks, locks[l].inuse,
         NEW c \in Calls, Goal(conds, c) = <<"lock", l>>, \A L : Known(L, conds, me, c),
         AcquireOrSleep(l, c), UNCHANGED <<sems, conds>>
  PROVE  /\ SynchInv'
         /\ \/ call' = [call EXCEPT ![me] = c]
            \/ call' = [call EXCEPT ![me] = NoCall] /\ locks'[l].pid = me
<1> DEFINE W == table.waitQueue
           G == Goals(conds, call)
<1>1. locks' = [locks EXCEPT ![l] = LockAcquire(@, me)]
  BY DEF AcquireOrSleep
<1>2. /\ TableHolds /\ Waits(sems, locks, conds, W, G) /\ call \in [Pids -> Calls]
      /\ Typed(sems, locks, conds) /\ me \in Pids \ W
      /\ \A p \in Pids : Known(locks, conds, p, call[p])
  BY Caller DEF WaitsHold
<1>3. \A p \in Pids : Known(locks', conds, p, call[p])
  BY <1>1, <1>2, LocksChange DEF Typed
<1>4. CASE LockBlocks(locks[l], me)
  <2>1. WakeAndSleep(<<>>, c)
    BY <1>4 DEF AcquireOrSleep
  <2>2. TableHolds' /\ table'.waitQueue = W \cup {me} /\ call' = [call EXCEPT ![me] = c]
    <3>1. TableHolds' /\ table'.waitQueue = (W \ ToSet(<<>>)) \cup {me} /\ call' = [call EXCEPT ![me] = c]
      BY <1>2, <2>1, SleepHolds, NobodyWoken
    <3> QED BY <3>1, NobodyWoken
  <2>3. Goals(conds, call') = [G EXCEPT ![me] = <<"lock", l>>]
    <3>1. Goals(conds, [call EXCEPT ![me] = c]) = [G EXCEPT ![me] = Goal(conds, c)]
      BY <1>2 DEF Goals
    <3> QED BY <2>2, <3>1
  <2>4. Waits(sems, locks', conds, W \cup {me}, [G EXCEPT ![me] = <<"lock", l>>])
    BY <1>1, <1>2, <1>4, LockJoins
  <2>5. CallsKnown'
    BY <1>2, <1>3, <2>2 DEF CallsKnown
  <2> QED BY <2>2, <2>3, <2>4, <2>5 DEF SynchInv, WaitsHold
<1>5. CASE ~LockBlocks(locks[l], me)
  <2>1. call' = [call EXCEPT ![me] = NoCall] /\ UNCHANGED <<table, freeLinks>>
    BY <1>5 DEF AcquireOrSleep
  <2>2. Waits(sems, locks', conds, W, G) /\ locks'[l].pid = me
    <3>1. locks'[l].pid = me
      BY <1>1, <1>2, <1>5 DEF LockAcquire, Typed, LockRecords
    <3>2. Waits(sems, locks', conds, W, G)
      BY <1>1, <1>2, <1>5, LockTaken
    <3> QED BY <3>1, <3>2
  <2>3. Goals(conds, call') = [G EXCEPT ![me] = Nowhere]
    <3>1. Goals(conds, [call EXCEPT ![me] = NoCall]) = [G EXCEPT ![me] = Goal(conds, NoCall)]
      BY <1>2 DEF Goals
    <3> QED BY <2>1, <3>1, GoalCases
  <2>4. Waits(sems, locks', conds, W, [G EXCEPT ![me] = Nowhere])
    BY <1>2, <2>2, WaitsForget
  <2>5. CallsKnown'
    <3>1. NoCall \in Calls /\ \A p : Known(locks', conds, p, NoCall)
      BY DEF Calls, NoCall, Known
    <3> QED BY <1>2, <1>3, <2>1, <3>1 DEF CallsKnown
  <2> QED BY <1>2, <2>1, <2>2, <2>3, <2>4, <2>5 DEF SynchInv, WaitsHold, TableHolds, LinksAccounted
<1> QED BY <1>4, <1>5

LEMMA LockAcquireInv ==
  ASSUME SynchInv, NEW l \in Locks, LockHandleAcquire(l)
  PROVE  SynchInv'
<1> DEFINE c == [op |-> "LockAcquire", on |-> l]
<1>1. /\ Running(table) /\ locks[l].inuse /\ AcquireOrSleep(l, c) /\ UNCHANGED <<sems, conds>>
  BY DEF LockHandleAcquire, InUserMode
<1>2. c \in Calls /\ Goal(conds, c) = <<"lock", l>> /\ \A L : Known(L, conds, me, c)
  BY GoalCases DEF Calls, Known
<1> HIDE DEF c
<1> QED BY <1>1, <1>2, AcquireInv

LEMMA LockReleaseInv ==
  ASSUME SynchInv, NEW l \in Locks, LockHandleRelease(l)
  PROVE  SynchInv'
<1> DEFINE W == table.waitQueue
           G == Goals(conds, call)
<1>1. /\ Running(table) /\ locks[l].inuse /\ locks[l].pid = me /\ call[me] = NoCall
      /\ locks' = [locks EXCEPT ![l] = LockRelease(@)]
      /\ UNCHANGED <<sems, conds>> /\ Wake(Front1(locks[l].waiting))
  BY DEF LockHandleRelease, InUserMode
<1>2. /\ TableHolds /\ Waits(sems, locks, conds, W, G) /\ call \in [Pids -> Calls]
      /\ Typed(sems, locks, conds) /\ me \in Pids \ W /\ G[me] # <<"lock", l>>
      /\ \A p \in Pids : Known(locks, conds, p, call[p])
      /\ Line(locks[l].waiting, W, G, <<"lock", l>>)
  BY <1>1, Caller, PlacesDiffer DEF WaitsHold, Nowhere, Waits, Queued
<1> SUFFICES ASSUME NEW ps, ps = Front1(locks[l].waiting) PROVE SynchInv'
  OBVIOUS
<1>3. ps \in Seq(W) /\ IsInjective(ps)
  BY <1>2, FrontOfLine
<1> HIDE DEF W, G
<1>4. Waits(sems, locks', conds, W \ ToSet(ps), G)
  BY <1>1, <1>2, LockHandedOver
<1>5. TableHolds' /\ table'.waitQueue = W \ ToSet(ps) /\ call' = call
  BY <1>1, <1>2, <1>3, WakeHolds DEF W
<1>6. CallsKnown'
  BY <1>1, <1>2, <1>5, LocksChange DEF CallsKnown, Typed
<1> QED BY <1>1, <1>4, <1>5, <1>6 DEF SynchInv, WaitsHold, G

LEMMA CondCreateInv ==
  ASSUME SynchInv, NEW l \in Locks, CondCreate(l)
  PROVE  SynchInv'
<1> DEFINE W == table.waitQueue
           G == Goals(conds, call)
           u == [inuse |-> TRUE, lock |-> l, waiting |-> <<>>]
<1> SUFFICES ASSUME NEW h, h = FirstFree(conds) PROVE SynchInv'
  OBVIOUS
<1>1. /\ Running(table) /\ HasFree(conds) /\ conds' = [conds EXCEPT ![h] = u]
      /\ UNCHANGED <<table, sems, locks, call, freeLinks>>
  BY DEF CondCreate, InUserMode
<1>2. /\ Waits(sems, locks, conds, W, G) /\ Typed(sems, locks, conds)
      /\ call \in [Pids -> Calls] /\ \A p \in Pids : Known(locks, conds, p, call[p])
  BY <1>1, Caller DEF WaitsHold
<1>3. h \in Conds /\ ~conds[h].inuse
  BY <1>1, <1>2, PoolsAssumption, FirstFreeEntry DEF Typed, Conds
<1>4. u \in CondRecords /\ u.inuse /\ u.waiting = <<>>
  BY DEF CondRecords
<1> HIDE DEF u
<1>5. conds' \in [Conds -> CondRecords] /\ conds'[h] = u /\ \A k \in Conds \ {h} : conds'[k] = conds[k]
  BY <1>1, <1>2, <1>3, <1>4, OneCond DEF Typed
<1>6. conds'[h].inuse /\ conds'[h].waiting = conds[h].waiting
  BY <1>2, <1>3, <1>4, <1>5 DEF Waits, UnusedAreEmpty
<1>7. Waits(sems, locks, conds', W, G)
  BY <1>2, <1>3, <1>5, <1>6, CondKeepsLine
<1>8. \A c \in Conds : conds[c].inuse => conds'[c].inuse /\ conds'[c].lock = conds[c].lock
  BY <1>3, <1>5
<1>9. Goals(conds', call) = G
  BY <1>8, GoalsStay DEF SynchInv
<1>10. CallsKnown'
  <2> SUFFICES ASSUME NEW p \in Pids, NEW c, c = call[p] PROVE Known(locks, conds', p, c)
    BY <1>1, <1>2 DEF CallsKnown
  <2>1. c \in Calls /\ Known(locks, conds, p, c) /\ conds \in [Conds -> CondRecords]
    BY <1>2 DEF Typed
  <2> QED BY <1>8, <2>1, KnownStays
<1> QED BY <1>1, <1>7, <1>9, <1>10 DEF SynchInv, WaitsHold, TableHolds, LinksAccounted

\* cond_signal, which wakes one of those who wait, and cond_broadcast, all of them.
LEMMA CondWakesInv ==
  ASSUME SynchInv, Running(table), NEW c \in Conds, conds[c].inuse, NEW ps, NEW rest,
         \/ ps = Front1(conds[c].waiting) /\ rest = Rest(conds[c].waiting)
         \/ ps = conds[c].waiting /\ rest = <<>>,
         Wake(ps), conds' = [conds EXCEPT ![c].waiting = rest], UNCHANGED <<sems, locks>>
  PROVE  SynchInv'
<1> DEFINE W == table.waitQueue
           G == Goals(conds, call)
           q == conds[c].waiting
<1>1. ps \in {q, Front1(q)}
  OBVIOUS
<1>2. /\ TableHolds /\ Waits(sems, locks, conds, W, G) /\ call \in [Pids -> Calls]
      /\ Typed(sems, locks, conds) /\ \A p \in Pids : Known(locks, conds, p, call[p])
      /\ Line(q, W, G, <<"cond", c>>) /\ q \in Seq(Pids) /\ IsInjective(q)
  BY Caller DEF WaitsHold, Waits, Queued, Line
<1>3. ps \in Seq(W) /\ IsInjective(ps) /\ ToSet(ps) \subseteq ToSet(q)
  BY <1>1, <1>2, FrontOfLine
<1>4. rest \in Seq(Pids) /\ IsInjective(rest) /\ ToSet(rest) = ToSet(q) \ ToSet(ps)
  <2>1. CASE ps = Front1(q) /\ rest = Rest(q)
    <3> HIDE DEF q
    <3> QED BY <1>2, <2>1, FrontAndRest
  <2>2. CASE ps = q /\ rest = <<>>
    BY <1>2, <2>2, NobodyWoken
  <2> QED BY <2>1, <2>2
<1>5. /\ conds[c] \in CondRecords
      /\ \A k \in Conds : conds'[k].inuse = conds[k].inuse /\ conds'[k].lock = conds[k].lock
  BY <1>2 DEF Typed, CondRecords
<1>6. Waits(sems, locks, conds', W \ ToSet(ps), G)
  BY <1>2, <1>3, <1>4, CondLeaves
<1>7. TableHolds' /\ table'.waitQueue = W \ ToSet(ps) /\ call' = call
  BY <1>2, <1>3, WakeHolds
<1>8. Goals(conds', call) = G
  <2> SUFFICES ASSUME NEW D, \A k \in Conds : conds[k].inuse => D[k].lock = conds[k].lock
               PROVE  Goals(D, call) = Goals(conds, call)
    BY <1>5
  <2>1. CallsKnown
    BY DEF SynchInv
  <2> QED BY <2>1, GoalsStay
<1>9. CallsKnown'
  <2> SUFFICES ASSUME NEW p \in Pids, NEW d, d = call[p] PROVE Known(locks, conds', p, d)
    BY <1>1, <1>2, <1>7 DEF CallsKnown
  <2>1. d \in Calls /\ Known(locks, conds, p, d) /\ conds \in [Conds -> CondRecords]
    BY <1>2 DEF Typed
  <2> QED BY <1>5, <2>1, KnownStays
<1> HIDE DEF W, G, q
<1> QED BY <1>6, <1>7, <1>8, <1>9 DEF SynchInv, WaitsHold

\* The caller joins the queue of the condition, and then gives up the lock.
LEMMA CondWaitInv ==
  ASSUME SynchInv, NEW c \in Conds, CondHandleWait(c)
  PROVE  SynchInv'
<1> DEFINE W  == table.waitQueue
           G  == Goals(conds, call)
           l  == conds[c].lock
           x  == <<"cond", c>>
           d  == [op |-> "CondWait", on |-> c]
           ps == IF locks[l].inuse THEN Front1(locks[l].waiting) ELSE <<>>
<1>1. /\ Running(table) /\ conds[c].inuse /\ locks[l].pid = me
      /\ conds' = [conds EXCEPT ![c].waiting = Append(@, me)]
      /\ locks' = IF locks[l].inuse THEN [locks EXCEPT ![l] = LockRelease(@)] ELSE locks
      /\ WakeAndSleep(ps, d) /\ sems' = sems
  BY DEF CondHandleWait, InUserMode
<1>2. /\ TableHolds /\ Waits(sems, locks, conds, W, G) /\ call \in [Pids -> Calls]
      /\ Typed(sems, locks, conds) /\ me \in Pids \ W /\ W \in SUBSET Pids
      /\ \A p \in Pids : Known(locks, conds, p, call[p])
  BY <1>1, Caller DEF WaitsHold
<1>3. /\ l \in Locks
      /\ \A k \in Conds : conds'[k].inuse = conds[k].inuse /\ conds'[k].lock = conds[k].lock
  BY <1>1, <1>2 DEF Typed, CondRecords
<1>4. Line(locks[l].waiting, W, G, <<"lock", l>>)
  BY <1>2, <1>3 DEF Waits, Queued
<1>5. ps \in Seq(W) /\ IsInjective(ps)
  BY <1>4, FrontOfLine, NobodyWoken
<1>6. TableHolds' /\ table'.waitQueue = (W \ ToSet(ps)) \cup {me} /\ call' = [call EXCEPT ![me] = d]
  BY <1>1, <1>2, <1>5, SleepHolds
<1>7. Waits(sems, locks, conds', W \cup {me}, [G EXCEPT ![me] = x])
  BY <1>1, <1>2, CondJoins
<1>8. me \notin ToSet(ps)
  BY <1>2, <1>5 DEF ToSet
<1>9. Waits(sems, locks', conds', (W \cup {me}) \ ToSet(ps), [G EXCEPT ![me] = x])
  <2>1. CASE locks[l].inuse
    <3> DEFINE to == [G EXCEPT ![me] = x]
    <3>1. G \in [Pids -> Places \cup {Nowhere}]
      BY <1>2 DEF Waits, Queued
    <3>2. to[me] # <<"lock", l>> /\ me \in Pids /\ Waits(sems, locks, conds', W \cup {me}, to)
      BY <1>2, <1>7, <3>1
    <3>3. locks' = [locks EXCEPT ![l] = LockRelease(@)] /\ ps = Front1(locks[l].waiting)
      BY <1>1, <2>1
    <3> HIDE DEF to, ps, W, G, l
    <3> QED BY <1>1, <1>3, <3>2, <3>3, LockHandedOver, ZenonT(30) DEF to
  <2>2. CASE ~locks[l].inuse
    <3>1. locks' = locks /\ (W \cup {me}) \ ToSet(ps) = W \cup {me}
      BY <1>1, <2>2, NobodyWoken
    <3> HIDE DEF ps, W, G
    <3> QED BY <1>7, <3>1
  <2> QED BY <2>1, <2>2
<1>10. Goals(conds', call') = [G EXCEPT ![me] = x]
  <2>1. Goals(conds', call) = G
    BY <1>3, GoalsStay DEF SynchInv
  <2>2. Goals(conds', call') = [Goals(conds', call) EXCEPT ![me] = Goal(conds', d)]
    BY <1>2, <1>6 DEF Goals
  <2> QED BY <2>1, <2>2, GoalCases
<1>11. CallsKnown'
  <2>1. \A p \in Pids : Known(locks', conds', p, call[p])
    <3>1. CASE locks[l].inuse
      <4>1. locks' = [locks EXCEPT ![l] = LockRelease(@)]
        BY <1>1, <3>1
      <4> HIDE DEF l
      <4> QED BY <1>2, <1>3, <3>1, <4>1, LocksChange DEF Typed
    <3>2. CASE ~locks[l].inuse
      <4>1. locks' = locks
        BY <1>1, <3>2
      <4> SUFFICES ASSUME NEW p \in Pids, NEW b, b = call[p] PROVE Known(locks, conds', p, b)
        BY <4>1
      <4>2. b \in Calls /\ Known(locks, conds, p, b) /\ conds \in [Conds -> CondRecords]
        BY <1>2 DEF Typed
      <4> QED BY <1>3, <4>2, KnownStays
    <3> QED BY <3>1, <3>2
  <2>2. Known(locks', conds', me, d)
    <3>1. locks[l] \in LockRecords
      BY <1>2, <1>3 DEF Typed
    <3>2. locks'[l].inuse \/ locks' = locks
      BY <1>1, <1>2, <1>3, <3>1 DEF LockRelease, LockRecords, Typed
    <3> QED BY <1>1, <1>3, <3>2 DEF Known
  <2>3. d \in Calls
    BY DEF Calls
  <2> QED BY <1>2, <1>6, <2>1, <2>2, <2>3 DEF CallsKnown
<1>12. (W \cup {me}) \ ToSet(ps) = table'.waitQueue
  BY <1>6, <1>8
<1> HIDE DEF ps, W, G
<1> QED BY <1>1, <1>6, <1>9, <1>10, <1>11, <1>12 DEF SynchInv, WaitsHold

\* The lock that cond_wait asks for when it is woken.
LEMMA CondResumesInv ==
  ASSUME SynchInv, CondWaitResumes
  PROVE  /\ SynchInv'
         /\ call'[me] = NoCall => locks'[conds[call[me].on].lock].pid = me
<1> DEFINE W == table.waitQueue
           G == Goals(conds, call)
           c == call[me].on
           l == conds[c].lock
           d == [op |-> "CondReacquire", on |-> c]
<1>1. Running(table) /\ call[me].op = "CondWait" /\ UNCHANGED <<sems, conds>>
  BY DEF CondWaitResumes, WokenIn
<1>2. /\ Waits(sems, locks, conds, W, G) /\ call \in [Pids -> Calls]
      /\ Typed(sems, locks, conds) /\ me \in Pids \ W
      /\ \A p \in Pids : Known(locks, conds, p, call[p])
  BY <1>1, Caller DEF WaitsHold
<1>3. c \in Conds
  <2>1. call[me] \in Calls
    BY <1>2
  <2> QED BY <1>1, <2>1 DEF Calls, NoCall
<1>4. l \in Locks /\ conds[c].inuse /\ (~locks[l].inuse => locks[l].pid = me)
  BY <1>1, <1>2, <1>3 DEF Known, Typed, CondRecords
<1>5. CASE locks[l].inuse /\ AcquireOrSleep(l, d)
  <2>1. d \in Calls /\ Goal(conds, d) = <<"lock", l>> /\ \A L : Known(L, conds, me, d)
    BY <1>3, <1>4 DEF Calls, Goal, Known
  <2>2. d # NoCall
    BY DEF NoCall
  <2> HIDE DEF d, l
  <2>3. /\ SynchInv'
        /\ \/ call' = [call EXCEPT ![me] = d]
           \/ call' = [call EXCEPT ![me] = NoCall] /\ locks'[l].pid = me
    BY <1>1, <1>4, <1>5, <2>1, AcquireInv
  <2> QED BY <1>2, <2>2, <2>3 DEF l
<1>6. CASE /\ ~locks[l].inuse /\ call' = [call EXCEPT ![me] = NoCall]
           /\ UNCHANGED <<table, locks, freeLinks>>
  <2>1. Goals(conds, call') = [G EXCEPT ![me] = Nowhere]
    <3>1. Goals(conds, [call EXCEPT ![me] = NoCall]) = [G EXCEPT ![me] = Goal(conds, NoCall)]
      BY <1>2 DEF Goals
    <3> QED BY <1>6, <3>1, GoalCases
  <2>2. Waits(sems, locks, conds, W, [G EXCEPT ![me] = Nowhere])
    BY <1>2, WaitsForget
  <2>3. CallsKnown'
    <3>1. NoCall \in Calls /\ \A p : Known(locks, conds, p, NoCall)
      BY DEF Calls, NoCall, Known
    <3> QED BY <1>1, <1>2, <1>6, <3>1 DEF CallsKnown
  <2> QED BY <1>1, <1>4, <1>6, <2>1, <2>2, <2>3 DEF SynchInv, WaitsHold, TableHolds, LinksAccounted
<1> QED BY <1>5, <1>6 DEF CondWaitResumes

LEMMA WokenInv ==
  ASSUME SynchInv, WokenReturns
  PROVE  SynchInv'
<1> DEFINE W == table.waitQueue
           G == Goals(conds, call)
<1>1. /\ Running(table) /\ call' = [call EXCEPT ![me] = NoCall]
      /\ UNCHANGED <<table, sems, locks, conds, freeLinks>>
  BY DEF WokenReturns, WokenIn
<1>2. /\ Waits(sems, locks, conds, W, G) /\ call \in [Pids -> Calls] /\ me \in Pids \ W
      /\ \A p \in Pids : Known(locks, conds, p, call[p])
  BY <1>1, Caller DEF WaitsHold
<1>3. Goals(conds, call') = [G EXCEPT ![me] = Nowhere]
  <2>1. Goals(conds, [call EXCEPT ![me] = NoCall]) = [G EXCEPT ![me] = Goal(conds, NoCall)]
    BY <1>2 DEF Goals
  <2> QED BY <1>1, <2>1, GoalCases
<1>4. Waits(sems, locks, conds, W, [G EXCEPT ![me] = Nowhere])
  BY <1>2, WaitsForget
<1>5. CallsKnown'
  <2>1. NoCall \in Calls /\ \A p : Known(locks, conds, p, NoCall)
    BY DEF Calls, NoCall, Known
  <2> QED BY <1>1, <1>2, <2>1 DEF CallsKnown
<1> QED BY <1>1, <1>3, <1>4, <1>5 DEF SynchInv, WaitsHold, TableHolds, LinksAccounted

\* The handlers of Synch that only change the table.
LEMMA TableOnlyInv ==
  ASSUME SynchInv,
         \/ Timer \/ Exit \/ \E loads \in BOOLEAN : Fork(loads)
         \/ \E c \in Conds : CondHandleWaitNotOwner(c)
  PROVE  SynchInv'
<1>1. PICK loads \in BOOLEAN :
        /\ Running(table)
        /\ \/ table' \in {TimerInterrupt(table), ProcessExit(table), ProcessFork(table, loads)}
           \/ table' = Exitsim(table, "notOwner")
        /\ UNCHANGED <<sems, locks, conds, call, freeLinks>>
  BY DEF Timer, Exit, Fork, CondHandleWaitNotOwner, InUserMode
<1>2. TableHolds' /\ table'.waitQueue = table.waitQueue
  BY <1>1, OthersHold DEF SynchInv
<1> QED BY <1>1, <1>2 DEF SynchInv, WaitsHold, CallsKnown

LEMMA NextInv == SynchInv /\ [Next]_vars => SynchInv'
<1> SUFFICES ASSUME SynchInv, [Next]_vars PROVE SynchInv'
  OBVIOUS
<1>1. CASE Create
  BY <1>1, SemCreateInv, LockCreateInv, CondCreateInv DEF Create
<1>2. ASSUME NEW s \in Sems, SemHandleWait(s) \/ SemHandleSignal(s) PROVE SynchInv'
  BY <1>2, SemWaitInv, SemSignalInv
<1>3. ASSUME NEW l \in Locks, LockHandleAcquire(l) \/ LockHandleRelease(l) PROVE SynchInv'
  BY <1>3, LockAcquireInv, LockReleaseInv
<1>4. ASSUME NEW c \in Conds, CondHandleWait(c) PROVE SynchInv'
  BY <1>4, CondWaitInv
<1>5. ASSUME NEW c \in Conds, CondHandleSignal(c) PROVE SynchInv'
  BY <1>5, CondWakesInv DEF CondHandleSignal, InUserMode
<1>6. ASSUME NEW c \in Conds, CondHandleBroadcast(c) PROVE SynchInv'
  BY <1>6, CondWakesInv DEF CondHandleBroadcast, InUserMode
<1>7. ASSUME NEW c \in Conds, CondHandleWaitNotOwner(c) PROVE SynchInv'
  BY <1>7, TableOnlyInv
<1>8. CASE CondWaitResumes \/ WokenReturns
  BY <1>8, CondResumesInv, WokenInv
<1>9. CASE Timer \/ Exit \/ \E loads \in BOOLEAN : Fork(loads)
  BY <1>9, TableOnlyInv
<1>10. CASE UNCHANGED vars
  BY <1>10 DEF vars, SynchInv, TableHolds, LinksAccounted, WaitsHold, CallsKnown
<1> QED BY <1>1, <1>2, <1>3, <1>4, <1>5, <1>6, <1>7, <1>8, <1>9, <1>10 DEF Next

-----------------------------------------------------------------------------
\* The boot: nobody waits, and nothing has been created.

LEMMA NobodyInLine ==
  ASSUME NEW goal, NEW x
  PROVE  Line(<<>>, {}, goal, x)
<1>1. <<>> \in Seq(Pids) /\ IsInjective(<<>>) /\ ToSet(<<>>) = {}
  BY NobodyWoken
<1> QED BY <1>1 DEF Line

LEMMA InitInv == Init => SynchInv
<1> SUFFICES ASSUME Init PROVE SynchInv
  OBVIOUS
<1>1. Sound(table) /\ table.waitQueue = {} /\ table.exit # "noLinks"
  BY BootSound DEF Init
<1>2. TableHolds
  <2>1. Cardinality(table.waitQueue) = 0
    BY <1>1, FS_EmptySet
  <2>2. freeLinks = QUEUE_MAX_LINKS - PROCESS_MAX_PROCS
    BY DEF Init
  <2>3. freeLinks \in Nat /\ freeLinks + PROCESS_MAX_PROCS + 0 = QUEUE_MAX_LINKS
    BY <2>2, ProcsAssumption, LinksAssumption
  <2> QED BY <1>1, <2>1, <2>3 DEF TableHolds, LinksAccounted
<1>3. call = [p \in Pids |-> NoCall] /\ NoCall \in Calls /\ NoCall.op = "none"
  BY DEF Init, NoCall, Calls
<1>4. CallsKnown
  BY <1>3 DEF CallsKnown, Known
<1>5. Goals(conds, call) = [p \in Pids |-> Nowhere]
  BY <1>3, GoalCases DEF Goals
<1>6. Typed(sems, locks, conds)
  <2>1. <<>> \in Seq(Pids)
    OBVIOUS
  <2>2. 0 \in Pids /\ 0 \in Locks
    BY ProcsAssumption, PoolsAssumption DEF Pids, Locks
  <2> QED BY <2>1, <2>2 DEF Init, Typed, SemRecords, LockRecords, CondRecords
<1>7. /\ \A s \in Sems : sems[s].waiting = <<>>
      /\ \A l \in Locks : locks[l].waiting = <<>>
      /\ \A c \in Conds : conds[c].waiting = <<>>
  BY DEF Init
<1>8. UnusedAreEmpty(sems, locks, conds) /\ SemsEmpty(sems) /\ LocksHeld(locks)
  BY <1>7 DEF UnusedAreEmpty, SemsEmpty, LocksHeld
<1>9. ASSUME NEW goal, goal = [p \in Pids |-> Nowhere]
      PROVE  Queued(sems, locks, conds, {}, goal) /\ Granted(locks, {}, goal)
  <2>1. \A l \in Locks : <<"lock", l>> # Nowhere
    BY DEF Nowhere
  <2> QED BY <1>7, <1>9, <2>1, NobodyInLine DEF Queued, Granted
<1>10. Waits(sems, locks, conds, {}, Goals(conds, call))
  BY <1>5, <1>6, <1>8, <1>9 DEF Waits
<1> QED BY <1>1, <1>2, <1>4, <1>10 DEF SynchInv, WaitsHold

-----------------------------------------------------------------------------
\* The results.

\* Whatever the processes call, in whatever order, the table stays sound, no
\* link is lost, and everybody who sleeps stands in the line of its own call.
THEOREM SynchSound == Spec => []SynchInv
<1> QED BY InitInv, NextInv, PTL DEF Spec

\* Whatever calls the processes make, a process sleeps in a call on a handle of its pool,
\* queues hold processes, locks belong to a process or to nobody, and the pool of links
\* is not overdrawn (synch.c, queue.c).
THEOREM TypesHold == Spec => []TypeOK
<1>1. SynchInv => TypeOK
  BY DEF SynchInv, TableHolds, Sound, Consistent, WaitsHold, Waits, Typed, CallsKnown, TypeOK
<1> QED BY <1>1, SynchSound, PTL

\* No handler fails an assertion of process.c, and SemHandleWait, LockHandleAcquire
\* and CondHandleWait always find a link in the pool of queue.c.
THEOREM NothingFatal == Spec => []NoFatalError
<1>1. SynchInv => NoFatalError
  BY DEF SynchInv, TableHolds, Sound, NoFatalError
<1> QED BY <1>1, SynchSound, PTL

\* Links do not leak: a sleeper holds one link, and the wakeup returns it.
THEOREM LinksStayAccounted == Spec => []LinksAccounted
<1>1. SynchInv => LinksAccounted
  BY DEF SynchInv, TableHolds
<1> QED BY <1>1, SynchSound, PTL

\* LockRelease hands a lock over before it forgets the owner, so processes wait
\* only for a lock that somebody else has.
THEOREM WaitedLockHeld == Spec => []WaitedLockIsHeld
<1>1. SynchInv => WaitedLockIsHeld
  BY DEF SynchInv, WaitsHold, Waits, LocksHeld, WaitedLockIsHeld
<1> QED BY <1>1, SynchSound, PTL

\* sem_signal loses no wakeup: processes wait only on a semaphore without a unit.
THEOREM WaitedSemEmpty == Spec => []WaitedSemIsEmpty
<1>1. SynchInv => WaitedSemIsEmpty
  BY DEF SynchInv, WaitsHold, Waits, SemsEmpty, WaitedSemIsEmpty
<1> QED BY <1>1, SynchSound, PTL

\* The call of a process, from the place where it stands.
LEMMA CallOfGoal ==
  ASSUME NEW C, NEW c \in Calls
  PROVE  /\ \A s \in Sems : Goal(C, c) = <<"sem", s>> => c = [op |-> "SemWait", on |-> s]
         /\ \A l \in Locks : Goal(C, c) = <<"lock", l>> =>
              \/ c = [op |-> "LockAcquire", on |-> l]
              \/ c.op = "CondReacquire" /\ c.on \in Conds /\ C[c.on].lock = l
         /\ \A d \in Conds : Goal(C, c) = <<"cond", d>> => c = [op |-> "CondWait", on |-> d]
<1>1. CASE c = NoCall
  BY <1>1 DEF NoCall, Goal, Nowhere
<1>2. ASSUME NEW s \in Sems, c = [op |-> "SemWait", on |-> s]
      PROVE  Goal(C, c) = <<"sem", s>>
  BY <1>2 DEF Goal
<1>3. ASSUME NEW l \in Locks, c = [op |-> "LockAcquire", on |-> l]
      PROVE  Goal(C, c) = <<"lock", l>>
  BY <1>3 DEF Goal
<1>4. ASSUME NEW d \in Conds, c = [op |-> "CondWait", on |-> d]
      PROVE  Goal(C, c) = <<"cond", d>>
  BY <1>4 DEF Goal
<1>5. ASSUME NEW d \in Conds, c = [op |-> "CondReacquire", on |-> d]
      PROVE  Goal(C, c) = <<"lock", C[d].lock>> /\ c.op = "CondReacquire" /\ c.on = d
  BY <1>5 DEF Goal
<1>6. \/ c = NoCall
      \/ \E s \in Sems : c = [op |-> "SemWait", on |-> s]
      \/ \E l \in Locks : c = [op |-> "LockAcquire", on |-> l]
      \/ \E d \in Conds : c = [op |-> "CondWait", on |-> d]
      \/ \E d \in Conds : c = [op |-> "CondReacquire", on |-> d]
  BY DEF Calls
<1> QED BY <1>1, <1>2, <1>3, <1>4, <1>5, <1>6

\* A process sleeps exactly while it stands in the queue of its own call, so that
\* every sleeper can be woken and ProcessWakeup's assertion never fails.
THEOREM SleepersStandInLine == Spec => []SleepersQueued
<1>1. SynchInv => SleepersQueued
  <2> SUFFICES ASSUME SynchInv PROVE SleepersQueued
    OBVIOUS
  <2> DEFINE W == table.waitQueue
             G == Goals(conds, call)
  <2>1. /\ W \in SUBSET Pids /\ call \in [Pids -> Calls] /\ \A p \in W : G[p] # Nowhere
        /\ \A p \in Pids : G[p] = Goal(conds, call[p]) /\ call[p] \in Calls
    BY DEF SynchInv, WaitsHold, Waits, Queued, CallsKnown, Goals
  <2>2. \A p \in Pids : Asleep(p) <=> p \in W
    BY DEF SynchInv, TableHolds, Sound, Consistent, QueuesMatch, WithStatus, Asleep
  <2>3. /\ \A s \in Sems  : Line(sems[s].waiting, W, G, <<"sem", s>>)
        /\ \A l \in Locks : Line(locks[l].waiting, W, G, <<"lock", l>>)
        /\ \A c \in Conds : Line(conds[c].waiting, W, G, <<"cond", c>>)
        /\ conds \in [Conds -> CondRecords]
    BY DEF SynchInv, WaitsHold, Waits, Queued, Typed
  <2> HIDE DEF W, G
  <2>4. ASSUME NEW p \in Pids, Asleep(p) PROVE p \in ToSet(WaitsIn(call[p]))
    <3> SUFFICES ASSUME NEW c \in Calls, c = call[p], G[p] = Goal(conds, c)
                 PROVE  p \in ToSet(WaitsIn(c))
      BY <2>1
    <3>1. p \in W /\ G[p] # Nowhere
      BY <2>1, <2>2, <2>4
    <3>2. CASE c = NoCall
      BY <3>1, <3>2, GoalCases
    <3>3. ASSUME NEW s \in Sems, c = [op |-> "SemWait", on |-> s] PROVE p \in ToSet(WaitsIn(c))
      <4>1. G[p] = <<"sem", s>> /\ WaitsIn(c) = sems[s].waiting
        BY <3>3 DEF Goal, WaitsIn
      <4> QED BY <2>3, <3>1, <4>1 DEF Line
    <3>4. ASSUME NEW l \in Locks, c = [op |-> "LockAcquire", on |-> l] PROVE p \in ToSet(WaitsIn(c))
      <4>1. G[p] = <<"lock", l>> /\ WaitsIn(c) = locks[l].waiting
        BY <3>4 DEF Goal, WaitsIn
      <4> QED BY <2>3, <3>1, <4>1 DEF Line
    <3>5. ASSUME NEW d \in Conds, c = [op |-> "CondWait", on |-> d] PROVE p \in ToSet(WaitsIn(c))
      <4>1. G[p] = <<"cond", d>> /\ WaitsIn(c) = conds[d].waiting
        BY <3>5 DEF Goal, WaitsIn
      <4> QED BY <2>3, <3>1, <4>1 DEF Line
    <3>6. ASSUME NEW d \in Conds, c = [op |-> "CondReacquire", on |-> d]
          PROVE  p \in ToSet(WaitsIn(c))
      <4>1. G[p] = <<"lock", conds[d].lock>> /\ WaitsIn(c) = locks[conds[d].lock].waiting
        BY <3>6 DEF Goal, WaitsIn
      <4>2. conds[d].lock \in Locks
        BY <2>3 DEF CondRecords
      <4> QED BY <2>3, <3>1, <4>1, <4>2 DEF Line
    <3>7. \/ c = NoCall
          \/ \E s \in Sems : c = [op |-> "SemWait", on |-> s]
          \/ \E l \in Locks : c = [op |-> "LockAcquire", on |-> l]
          \/ \E d \in Conds : c = [op |-> "CondWait", on |-> d]
          \/ \E d \in Conds : c = [op |-> "CondReacquire", on |-> d]
      BY DEF Calls
    <3> QED BY <3>2, <3>3, <3>4, <3>5, <3>6, <3>7
  <2>5. ASSUME NEW q, NEW x, Line(q, W, G, x), NEW p \in ToSet(q)
        PROVE  p \in Pids /\ Asleep(p) /\ Goal(conds, call[p]) = x /\ call[p] \in Calls
    BY <2>1, <2>2, <2>5 DEF Line
  <2>6. ASSUME NEW s \in Sems
        PROVE  /\ IsInjective(sems[s].waiting)
               /\ \A p \in ToSet(sems[s].waiting) :
                    Asleep(p) /\ call[p] = [op |-> "SemWait", on |-> s]
    <3>1. Line(sems[s].waiting, W, G, <<"sem", s>>)
      BY <2>3
    <3>2. ASSUME NEW p \in ToSet(sems[s].waiting)
          PROVE  Asleep(p) /\ call[p] = [op |-> "SemWait", on |-> s]
      BY <2>5, <3>1, CallOfGoal
    <3> QED BY <3>1, <3>2 DEF Line
  <2>7. ASSUME NEW l \in Locks
        PROVE  /\ IsInjective(locks[l].waiting)
               /\ \A p \in ToSet(locks[l].waiting) :
                    /\ Asleep(p)
                    /\ \/ call[p] = [op |-> "LockAcquire", on |-> l]
                       \/ call[p].op = "CondReacquire" /\ conds[call[p].on].lock = l
    <3>1. Line(locks[l].waiting, W, G, <<"lock", l>>)
      BY <2>3
    <3>2. ASSUME NEW p \in ToSet(locks[l].waiting)
          PROVE  /\ Asleep(p)
                 /\ \/ call[p] = [op |-> "LockAcquire", on |-> l]
                    \/ call[p].op = "CondReacquire" /\ conds[call[p].on].lock = l
      BY <2>5, <3>1, CallOfGoal
    <3> QED BY <3>1, <3>2 DEF Line
  <2>8. ASSUME NEW c \in Conds
        PROVE  /\ IsInjective(conds[c].waiting)
               /\ \A p \in ToSet(conds[c].waiting) :
                    Asleep(p) /\ call[p] = [op |-> "CondWait", on |-> c]
    <3>1. Line(conds[c].waiting, W, G, <<"cond", c>>)
      BY <2>3
    <3>2. ASSUME NEW p \in ToSet(conds[c].waiting)
          PROVE  Asleep(p) /\ call[p] = [op |-> "CondWait", on |-> c]
      BY <2>5, <3>1, CallOfGoal
    <3> QED BY <3>1, <3>2 DEF Line
  <2> QED BY <2>4, <2>6, <2>7, <2>8 DEF SleepersQueued
<1> QED BY <1>1, SynchSound, PTL

-----------------------------------------------------------------------------
\* Who gets a lock, and when.

\* What the lock k becomes when the running process asks for the lock l.
LEMMA AskedLock ==
  ASSUME NEW l \in Locks, NEW k \in Locks, locks \in [Locks -> LockRecords],
         locks' = [locks EXCEPT ![l] = LockAcquire(@, me)], locks[k].pid \in Pids
  PROVE  locks'[k].pid = locks[k].pid
<1>1. CASE k # l
  BY <1>1
<1>2. CASE k = l
  <2>1. locks[l] \in LockRecords /\ locks'[l] = LockAcquire(locks[l], me)
    OBVIOUS
  <2>2. locks[l].pid >= 0
    BY <1>2, ProcsAssumption DEF Pids
  <2> QED BY <1>2, <2>1, <2>2 DEF LockAcquire, LockBlocks, LockRecords
<1> QED BY <1>1, <1>2

LEMMA GivenLock ==
  ASSUME NEW l \in Locks, NEW k \in Locks, locks \in [Locks -> LockRecords],
         locks' = [locks EXCEPT ![l] = LockRelease(@)], locks[l].pid = me,
         locks'[k].pid # locks[k].pid
  PROVE  /\ locks[k].pid = me
         /\ locks'[k].pid = IF locks[k].waiting = <<>> THEN -1 ELSE Head(locks[k].waiting)
<1>1. k = l
  OBVIOUS
<1>2. locks[l] \in LockRecords /\ locks'[l] = LockRelease(locks[l])
  OBVIOUS
<1> QED BY <1>1, <1>2 DEF LockRelease, LockRecords, NoOwner

\* A lock passes from its owner, by its own lock_release or cond_wait, to the
\* process that has waited longest, and nobody else can take it in between.
THEOREM LocksHandedOver == Spec => LockHandover
<1> DEFINE Passes(l) ==
      locks[l].inuse /\ locks[l].pid \in Pids /\ locks'[l].pid # locks[l].pid =>
        /\ locks[l].pid = me
        /\ locks'[l].pid = IF locks[l].waiting = <<>> THEN -1 ELSE Head(locks[l].waiting)
<1>1. ASSUME SynchInv, [Next]_vars, NEW l \in Locks PROVE Passes(l)
  <2> SUFFICES ASSUME locks[l].inuse, locks[l].pid \in Pids, locks'[l].pid # locks[l].pid
               PROVE  /\ locks[l].pid = me
                      /\ locks'[l].pid = IF locks[l].waiting = <<>> THEN -1
                                         ELSE Head(locks[l].waiting)
    OBVIOUS
  <2>1. locks \in [Locks -> LockRecords] /\ conds \in [Conds -> CondRecords] /\ CallsKnown
    BY <1>1 DEF SynchInv, WaitsHold, Waits, Typed
  <2>2. locks' # locks
    OBVIOUS
  <2>3. ~LockCreate
    <3> SUFFICES ASSUME LockCreate PROVE FALSE
      OBVIOUS
    <3> SUFFICES ASSUME NEW h, h = FirstFree(locks) PROVE FALSE
      OBVIOUS
    <3>1. HasFree(locks) /\ \E u : locks' = [locks EXCEPT ![h] = u]
      BY DEF LockCreate
    <3>2. h \in Locks /\ ~locks[h].inuse
      BY <2>1, <3>1, PoolsAssumption, FirstFreeEntry DEF Locks
    <3> QED BY <2>1, <3>1, <3>2
  <2>4. ASSUME NEW k \in Locks PROVE locks' # [locks EXCEPT ![k] = LockAcquire(@, me)]
    BY <2>1, AskedLock
  <2>5. ~CondWaitResumes
    <3> SUFFICES ASSUME CondWaitResumes, NEW c, c = call[me].on, NEW k, k = conds[c].lock
                 PROVE  FALSE
      OBVIOUS
    <3>1. k \in Locks
      <4>1. me \in Pids /\ call[me] \in Calls /\ call[me].op = "CondWait"
        BY <1>1, <2>1, Caller DEF CondWaitResumes, WokenIn, CallsKnown
      <4>2. c \in Conds
        BY <4>1 DEF Calls, NoCall
      <4> QED BY <2>1, <4>2 DEF CondRecords
    <3>2. locks' = [locks EXCEPT ![k] = LockAcquire(@, me)]
      BY <2>2 DEF CondWaitResumes, AcquireOrSleep
    <3> QED BY <2>4, <3>1, <3>2
  <2>6. PICK k \in Locks : locks[k].pid = me /\ locks' = [locks EXCEPT ![k] = LockRelease(@)]
    <3>1. ASSUME NEW k \in Locks, LockHandleAcquire(k) PROVE FALSE
      BY <2>4, <3>1 DEF LockHandleAcquire, AcquireOrSleep
    <3>2. ASSUME NEW k \in Locks, LockHandleRelease(k)
          PROVE  locks[k].pid = me /\ locks' = [locks EXCEPT ![k] = LockRelease(@)]
      BY <3>2 DEF LockHandleRelease
    <3>3. ASSUME NEW c \in Conds, NEW k, k = conds[c].lock, CondHandleWait(c)
          PROVE  /\ k \in Locks /\ locks[k].pid = me
                 /\ locks' = [locks EXCEPT ![k] = LockRelease(@)]
      BY <2>1, <2>2, <3>3 DEF CondHandleWait, CondRecords
    <3>4. \/ \E j \in Locks : LockHandleAcquire(j) \/ LockHandleRelease(j)
          \/ \E c \in Conds : CondHandleWait(c)
      BY <1>1, <2>2, <2>3, <2>5
         DEF Next, Create, SemCreate, CondCreate, SemHandleWait, SemHandleSignal,
             CondHandleWaitNotOwner, CondHandleSignal, CondHandleBroadcast, WokenReturns,
             Timer, Exit, Fork, vars
    <3> QED BY <3>1, <3>2, <3>3, <3>4
  <2> QED BY <2>1, <2>6, GivenLock
<1>2. SynchInv /\ [Next]_vars => \A l \in Locks : Passes(l)
  BY <1>1
<1> QED BY <1>2, SynchSound, PTL DEF Spec, LockHandover

\* Only the running process returns from a call it slept in, by one of two actions.
LEMMA WhoReturns ==
  ASSUME SynchInv, [Next]_vars, NEW p \in Pids,
         call[p].op \in {"LockAcquire", "CondWait", "CondReacquire"}, call'[p] = NoCall
  PROVE  p = me /\ (CondWaitResumes \/ WokenReturns)
<1>1. call \in [Pids -> Calls] /\ NoCall.op = "none"
  BY DEF SynchInv, CallsKnown, NoCall
<1>2. call' # call
  BY <1>1
<1>3. ASSUME NEW c, c.op # "none", NEW ps, WakeAndSleep(ps, c), call[me] = NoCall
      PROVE  FALSE
  <2>1. call' \in {call, [call EXCEPT ![me] = c]}
    BY <1>3 DEF WakeAndSleep
  <2> QED BY <1>1, <1>3, <2>1
<1>4. ASSUME call' = [call EXCEPT ![me] = NoCall]
      PROVE  p = me
  BY <1>1, <1>4
<1>5. ASSUME NEW l \in Locks, LockHandleAcquire(l) PROVE FALSE
  <2> DEFINE c == [op |-> "LockAcquire", on |-> l]
  <2>1. call[me] = NoCall /\ c.op # "none" /\ AcquireOrSleep(l, c)
    BY <1>5 DEF LockHandleAcquire, InUserMode
  <2> HIDE DEF c
  <2>2. CASE WakeAndSleep(<<>>, c)
    BY <1>3, <2>1, <2>2
  <2>3. CASE call' = [call EXCEPT ![me] = NoCall]
    BY <1>1, <1>4, <2>1, <2>3
  <2> QED BY <2>1, <2>2, <2>3 DEF AcquireOrSleep
<1>6. ASSUME NEW s \in Sems, SemHandleWait(s) PROVE FALSE
  <2> DEFINE c == [op |-> "SemWait", on |-> s]
  <2>1. /\ call[me] = NoCall /\ c.op # "none"
        /\ WakeAndSleep(<<>>, c) \/ call' = call
    BY <1>6 DEF SemHandleWait, InUserMode
  <2> HIDE DEF c
  <2> QED BY <1>2, <1>3, <2>1
<1>7. ASSUME NEW k \in Conds, CondHandleWait(k) PROVE FALSE
  <2> DEFINE c == [op |-> "CondWait", on |-> k]
  <2>1. call[me] = NoCall /\ c.op # "none" /\ \E ps : WakeAndSleep(ps, c)
    BY <1>7 DEF CondHandleWait, InUserMode
  <2> HIDE DEF c
  <2> QED BY <1>3, <2>1
<1>8. CondWaitResumes \/ WokenReturns
  BY <1>2, <1>5, <1>6, <1>7
     DEF Next, Create, SemCreate, LockCreate, CondCreate, SemHandleSignal, LockHandleRelease,
         CondHandleWaitNotOwner, CondHandleSignal, CondHandleBroadcast, Wake, Timer, Exit, Fork, vars
<1>9. ASSUME CondWaitResumes PROVE p = me
  <2> DEFINE c == [op |-> "CondReacquire", on |-> call[me].on]
  <2>1. CASE call' = [call EXCEPT ![me] = NoCall]
    BY <1>4, <2>1
  <2>2. ASSUME WakeAndSleep(<<>>, c) PROVE p = me
    <3>1. call' \in {call, [call EXCEPT ![me] = c]} /\ c # NoCall
      BY <2>2 DEF WakeAndSleep, NoCall
    <3> HIDE DEF c
    <3> QED BY <1>1, <1>2, <3>1
  <2>3. call' = [call EXCEPT ![me] = NoCall] \/ WakeAndSleep(<<>>, c)
    BY <1>9 DEF CondWaitResumes, AcquireOrSleep
  <2> QED BY <2>1, <2>2, <2>3
<1> QED BY <1>4, <1>8, <1>9 DEF WokenReturns

\* lock_acquire and cond_wait come back with the lock, although the process slept
\* and others took and released it meanwhile: a lock is granted before the wakeup,
\* and a process that is woken by a condition asks for it again.
THEOREM ReturnsLocked == Spec => ReturnsWithLock
<1> DEFINE Held(p) ==
      /\ Returns(p, {"LockAcquire"}) => locks'[call[p].on].pid = p
      /\ Returns(p, {"CondWait", "CondReacquire"}) =>
           locks'[conds[call[p].on].lock].pid = p
<1>1. ASSUME SynchInv, [Next]_vars, NEW p \in Pids PROVE Held(p)
  <2>1. ASSUME call[p].op \in {"LockAcquire", "CondWait", "CondReacquire"}, call'[p] = NoCall
        PROVE  p = me /\ (CondWaitResumes \/ WokenReturns)
    BY <1>1, <2>1, WhoReturns
  <2>2. ASSUME p = me, call'[p] = NoCall, CondWaitResumes
        PROVE  call[p].op = "CondWait" /\ locks'[conds[call[p].on].lock].pid = p
    <3>1. call[me].op = "CondWait" /\ locks'[conds[call[me].on].lock].pid = me
      BY <1>1, <2>2, CondResumesInv DEF CondWaitResumes, WokenIn
    <3> QED BY <2>2, <3>1
  <2>3. ASSUME p = me, WokenReturns
        PROVE  /\ call[p].op # "CondWait"
               /\ call[p].op = "LockAcquire" => locks'[call[p].on].pid = p
               /\ call[p].op = "CondReacquire" => locks'[conds[call[p].on].lock].pid = p
    <3> DEFINE W == table.waitQueue
               G == Goals(conds, call)
    <3>1. Running(table) /\ locks' = locks /\ call[p].op # "CondWait"
      BY <2>3 DEF WokenReturns, WokenIn
    <3>2. /\ p \in Pids \ W /\ call[p] \in Calls /\ Granted(locks, W, G)
          /\ conds \in [Conds -> CondRecords] /\ G[p] = Goal(conds, call[p])
      <4>1. /\ Waits(sems, locks, conds, W, G) /\ Typed(sems, locks, conds)
            /\ call \in [Pids -> Calls] /\ me \in Pids \ W
        BY <1>1, <3>1, Caller DEF WaitsHold, Waits
      <4>2. G[me] = Goal(conds, call[me])
        BY <4>1 DEF Goals
      <4> HIDE DEF W, G
      <4> QED BY <2>3, <4>1, <4>2 DEF Waits, Typed
    <3> HIDE DEF W, G
    <3>3. ASSUME NEW l \in Locks, G[p] = <<"lock", l>> PROVE locks'[l].pid = p
      BY <3>1, <3>2, <3>3 DEF Granted
    <3>4. ASSUME call[p].op = "LockAcquire" PROVE locks'[call[p].on].pid = p
      <4>1. call[p].on \in Locks /\ G[p] = <<"lock", call[p].on>>
        BY <3>2, <3>4 DEF Calls, NoCall, Goal
      <4> QED BY <3>3, <4>1
    <3>5. ASSUME call[p].op = "CondReacquire" PROVE locks'[conds[call[p].on].lock].pid = p
      <4>1. call[p].on \in Conds /\ G[p] = <<"lock", conds[call[p].on].lock>>
        BY <3>2, <3>5 DEF Calls, NoCall, Goal
      <4>2. conds[call[p].on].lock \in Locks
        BY <3>2, <4>1 DEF CondRecords
      <4> QED BY <3>3, <4>1, <4>2
    <3> QED BY <3>1, <3>4, <3>5
  <2> QED BY <2>1, <2>2, <2>3 DEF Returns
<1>2. SynchInv /\ [Next]_vars => \A p \in Pids : Held(p)
  BY <1>1
<1> QED BY <1>2, SynchSound, PTL DEF Spec, ReturnsWithLock

-----------------------------------------------------------------------------
\* The scheduler is the specification that the kernel calls implement.

\* The instance of the scheduler has the operators of this module.
LEMMA SameHelpers ==
  ASSUME NEW q, NEW p, NEW t, NEW why
  PROVE  /\ Sched!Exitsim(t, why) = Exitsim(t, why)
         /\ Sched!Running(t) = Running(t)
         /\ Sched!ToSet(q) = ToSet(q)
         /\ Sched!RemoveFirst(q, p) = RemoveFirst(q, p)
         /\ Sched!Rotate(q) = Rotate(q)
         /\ Sched!Pids = Pids /\ Sched!PagesPerProcess = PagesPerProcess
         /\ Sched!INVALID_PROC = INVALID_PROC
         /\ Sched!ProcessModuleInit = ProcessModuleInit
<1>1. Sched!Exitsim(t, why) = Exitsim(t, why) /\ Sched!Running(t) = Running(t)
  BY DEF Exitsim, Sched!Exitsim, Running, Sched!Running
<1>2. Sched!ToSet(q) = ToSet(q)
  BY DEF ToSet, Sched!ToSet
<1>4. Sched!RemoveFirst(q, p) = RemoveFirst(q, p)
  BY DEF RemoveFirst, RemoveAt, SelectInSeq, Min, Sched!RemoveFirst, Sched!RemoveAt,
         Sched!SelectInSeq, Sched!Min
<1>5. Sched!Rotate(q) = Rotate(q)
  BY DEF Rotate, Sched!Rotate
<1>6. /\ Sched!Pids = Pids /\ Sched!PagesPerProcess = PagesPerProcess
      /\ Sched!INVALID_PROC = INVALID_PROC
  BY DEF Pids, PagesPerProcess, INVALID_PROC, Sched!Pids, Sched!PagesPerProcess, Sched!INVALID_PROC
<1>7. Sched!ProcessModuleInit = ProcessModuleInit
  BY <1>6 DEF ProcessModuleInit, Sched!ProcessModuleInit
<1> QED BY <1>1, <1>2, <1>4, <1>5, <1>6, <1>7

LEMMA SameOrders ==
  ASSUME NEW S
  PROVE  Sched!SetToAllKPermutations(S) = SetToAllKPermutations(S)
BY DEF SetToAllKPermutations, SetToSeqs, Cardinality, Sched!SetToAllKPermutations,
       Sched!SetToSeqs, Sched!Cardinality

LEMMA SameRoutines ==
  ASSUME NEW t, NEW p, NEW ps, NEW flag
  PROVE  /\ Sched!ProcessFork(t, flag) = ProcessFork(t, flag)
         /\ Sched!TimerInterrupt(t) = TimerInterrupt(t)
         /\ Sched!ProcessExit(t) = ProcessExit(t)
         /\ Sched!AfterCall(t, ps, flag) = AfterCall(t, ps, flag)
<1>1. \A u, rs : Sched!ProcessFreeResources(u, rs) = ProcessFreeResources(u, rs)
  <2> SUFFICES ASSUME NEW u, NEW rs, NEW R, R = ToSet(rs)
               PROVE  Sched!ProcessFreeResources(u, rs) = ProcessFreeResources(u, rs)
    OBVIOUS
  <2>1. Sched!ToSet(rs) = R /\ Sched!Pids = Pids /\ Sched!PagesPerProcess = PagesPerProcess
    BY SameHelpers
  <2> QED BY <2>1 DEF ProcessFreeResources, Sched!ProcessFreeResources
<1>2. Sched!TakeFirst(t) = TakeFirst(t)
  BY SameHelpers DEF TakeFirst, Sched!TakeFirst
<1>3. Sched!ProcessFork(t, flag) = ProcessFork(t, flag)
  BY <1>1, <1>2, SameHelpers DEF ProcessFork, Sched!ProcessFork
<1>4. \A u, f : Sched!ProcessSchedule(u, f) = ProcessSchedule(u, f)
  BY <1>1, SameHelpers DEF ProcessSchedule, Sched!ProcessSchedule
<1>5. \A u, q : Sched!ProcessSuspend(u, q) = ProcessSuspend(u, q)
  BY SameHelpers DEF ProcessSuspend, Sched!ProcessSuspend
<1>6. Sched!ProcessWakeup(t, ps) = ProcessWakeup(t, ps)
  <2> SUFFICES ASSUME NEW R, R = ToSet(ps)
               PROVE  Sched!ProcessWakeup(t, ps) = ProcessWakeup(t, ps)
    OBVIOUS
  <2>1. Sched!ToSet(ps) = R /\ Sched!Pids = Pids /\ Sched!Exitsim(t, "assert") = Exitsim(t, "assert")
    BY SameHelpers
  <2> QED BY <2>1 DEF ProcessWakeup, Sched!ProcessWakeup
<1>7. \A q : Sched!ProcessDestroy(t, q) = ProcessDestroy(t, q)
  BY SameHelpers DEF ProcessDestroy, Sched!ProcessDestroy
<1>8. Sched!TimerInterrupt(t) = TimerInterrupt(t)
  BY <1>4 DEF TimerInterrupt, Sched!TimerInterrupt
<1>9. Sched!ProcessExit(t) = ProcessExit(t)
  BY <1>4, <1>7 DEF ProcessExit, Sched!ProcessExit
<1>10. \A u : Sched!ProcessSleep(u) = ProcessSleep(u)
  BY <1>4, <1>5, SameHelpers DEF ProcessSleep, Sched!ProcessSleep
<1>11. Sched!AfterCall(t, ps, flag) = AfterCall(t, ps, flag)
  BY <1>6, <1>10, SameHelpers DEF AfterCall, Sched!AfterCall
<1> QED BY <1>3, <1>8, <1>9, <1>11

\* A handler that wakes, and perhaps sleeps, is a kernel call of the scheduler.
LEMMA CallIsScheduled ==
  ASSUME TableHolds, Running(table), NEW ps \in Seq(table.waitQueue), IsInjective(ps),
         \/ Wake(ps) \/ \E c : WakeAndSleep(ps, c)
  PROVE  Sched!Next
<1>1. ps \in Sched!WakeOrders
  BY SleepersFew, OrdersOf, SameOrders DEF Sched!WakeOrders
<1>2. freeLinks # 0
  <2>1. /\ Cardinality(table.waitQueue) \in Nat
        /\ Cardinality(table.waitQueue) < PROCESS_MAX_PROCS
    BY SleepersFew
  <2> QED BY <2>1, ProcsAssumption, LinksAssumption DEF TableHolds, LinksAccounted
<1>3. PICK blocks \in BOOLEAN : table' = AfterCall(table, ps, blocks)
  BY <1>2 DEF Wake, WakeAndSleep
<1>4. Sched!KernelCall(ps, blocks)
  BY <1>3, SameRoutines, SameHelpers DEF Sched!KernelCall
<1> QED BY <1>1, <1>4 DEF Sched!Next

LEMMA StepIsScheduled == SynchInv /\ [Next]_vars => [Sched!Next]_table
<1> SUFFICES ASSUME SynchInv, [Next]_vars, table' # table PROVE Sched!Next
  OBVIOUS
<1>1. ASSUME Running(table), table' = TimerInterrupt(table) PROVE Sched!Next
  BY <1>1, SameRoutines, SameHelpers DEF Sched!Next, Sched!Timer
<1>2. ASSUME Running(table), table' = ProcessExit(table) PROVE Sched!Next
  BY <1>2, SameRoutines, SameHelpers DEF Sched!Next, Sched!Exit
<1>3. ASSUME Running(table), NEW loads \in BOOLEAN, table' = ProcessFork(table, loads)
      PROVE  Sched!Next
  BY <1>3, SameRoutines, SameHelpers DEF Sched!Next, Sched!Fork
<1>4. ASSUME Running(table), table' = Exitsim(table, "notOwner") PROVE Sched!Next
  BY <1>4, SameHelpers DEF Sched!Next, Sched!FatalCall
<1>5. ASSUME Running(table), NEW ps \in Seq(table.waitQueue), IsInjective(ps),
             Wake(ps) \/ \E c : WakeAndSleep(ps, c)
      PROVE  Sched!Next
  BY <1>5, CallIsScheduled DEF SynchInv
<1>6. Running(table)
  BY DEF Next, Create, SemCreate, LockCreate, CondCreate, SemHandleWait, SemHandleSignal,
         LockHandleAcquire, LockHandleRelease, CondHandleWaitNotOwner, CondHandleWait,
         CondHandleSignal, CondHandleBroadcast, CondWaitResumes, WokenReturns, Timer, Exit,
         Fork, InUserMode, WokenIn, vars
<1>7. ASSUME NEW q, NEW x, Line(q, table.waitQueue, Goals(conds, call), x)
      PROVE  /\ q \in Seq(table.waitQueue) /\ IsInjective(q)
             /\ Front1(q) \in Seq(table.waitQueue) /\ IsInjective(Front1(q))
  BY <1>7, FrontOfLine
<1>8. /\ \A s \in Sems  : \E x : Line(sems[s].waiting, table.waitQueue, Goals(conds, call), x)
      /\ \A l \in Locks : \E x : Line(locks[l].waiting, table.waitQueue, Goals(conds, call), x)
      /\ \A c \in Conds : \E x : Line(conds[c].waiting, table.waitQueue, Goals(conds, call), x)
      /\ conds \in [Conds -> CondRecords]
  BY DEF SynchInv, WaitsHold, Waits, Queued, Typed
<1>9. CASE \E s \in Sems : SemHandleWait(s) \/ SemHandleSignal(s)
  <2>1. ASSUME NEW s \in Sems, SemHandleWait(s) PROVE Sched!Next
    BY <1>5, <1>6, <2>1, NobodyWoken DEF SemHandleWait
  <2>2. ASSUME NEW s \in Sems, SemHandleSignal(s) PROVE Sched!Next
    <3>1. PICK ps \in {<<>>, Front1(sems[s].waiting)} : Wake(ps)
      BY <2>2 DEF SemHandleSignal, SemWakes, Front1
    <3> QED BY <1>5, <1>6, <1>7, <1>8, <3>1, NobodyWoken
  <2> QED BY <1>9, <2>1, <2>2
<1>10. CASE \E l \in Locks : LockHandleAcquire(l) \/ LockHandleRelease(l)
  <2>1. ASSUME NEW l \in Locks, LockHandleAcquire(l) PROVE Sched!Next
    BY <1>5, <1>6, <2>1, NobodyWoken DEF LockHandleAcquire, AcquireOrSleep
  <2>2. ASSUME NEW l \in Locks, LockHandleRelease(l) PROVE Sched!Next
    BY <1>5, <1>6, <1>7, <1>8, <2>2 DEF LockHandleRelease
  <2> QED BY <1>10, <2>1, <2>2
<1>11. ASSUME NEW c \in Conds,
              \/ CondHandleWaitNotOwner(c) \/ CondHandleWait(c)
              \/ CondHandleSignal(c) \/ CondHandleBroadcast(c)
       PROVE  Sched!Next
  <2>1. CASE CondHandleWaitNotOwner(c)
    BY <1>4, <1>6, <2>1 DEF CondHandleWaitNotOwner
  <2>2. CASE CondHandleSignal(c)
    BY <1>5, <1>6, <1>7, <1>8, <2>2 DEF CondHandleSignal
  <2>3. CASE CondHandleBroadcast(c)
    BY <1>5, <1>6, <1>7, <1>8, <2>3 DEF CondHandleBroadcast
  <2>4. CASE CondHandleWait(c)
    <3>1. conds[c].lock \in Locks
      BY <1>8 DEF CondRecords
    <3>2. PICK ps \in {<<>>, Front1(locks[conds[c].lock].waiting)} : \E d : WakeAndSleep(ps, d)
      BY <2>4 DEF CondHandleWait
    <3> QED BY <1>5, <1>6, <1>7, <1>8, <3>1, <3>2, NobodyWoken
  <2> QED BY <1>11, <2>1, <2>2, <2>3, <2>4
<1>12. CASE CondWaitResumes
  BY <1>5, <1>6, <1>12, NobodyWoken DEF CondWaitResumes, AcquireOrSleep
<1> QED BY <1>1, <1>2, <1>3, <1>6, <1>9, <1>10, <1>11, <1>12
        DEF Next, Create, SemCreate, LockCreate, CondCreate, WokenReturns, Timer, Exit, Fork, vars

\* Semaphores, locks and condition variables use the process table only as the
\* scheduler allows: each handler is one step of it, which wakes processes that
\* sleep and perhaps suspends the caller, or no step at all.  What is proved of the
\* scheduler therefore holds of the kernel.
THEOREM KernelImplementsScheduler == Spec => ImplementsScheduler
<1>1. Init => Sched!Init
  BY SameRoutines, SameHelpers DEF Init, Sched!Init
<1> QED BY <1>1, StepIsScheduled, SynchSound, PTL DEF Spec, ImplementsScheduler
=============================================================================
