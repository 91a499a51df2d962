------------------------------ MODULE Q5Proofs ------------------------------
(***************************************************************************)
(* What the reactions of q5 may rely on, for every number of atoms and     *)
(* every temperature: the lock keeps them out of each other's way, a       *)
(* reaction that was signalled still finds its molecules, none is lost,    *)
(* and no signal is missed (Q5Inv).  Hence none is left asleep, and all    *)
(* runs yield what krypton has estimated (EndInv).                         *)
(***************************************************************************)
EXTENDS Q5Atmosphere, QueueLemmas

Counters    == {"n", "o", "n2", "o2", "no2", "o3"}
InSection   == {"test", "load", "store"}
WorkerSteps == {"loop", "woken", "ended"} \cup InSection
MainSteps   == {"create", "wait", "ended"}

Typed ==
  /\ stat \in [Counters -> Int] /\ i \in [Workers -> Int]
  /\ seen = [p \in Workers |-> seen[p]]
  /\ pc \in [Procs -> WorkerSteps \cup MainSteps]

\* The processes in the critical section have the lock or wait for it, and the
\* one that stores has it.
Excluded ==
  /\ LockSound(lock, Workers)
  /\ \A p \in Workers : pc[p] \in InSection <=> p \in Inside(lock)
  /\ \A p \in Workers : pc[p] = "store" => lock.pid = p

\* Only p waits on the condition p.
OwnConditions ==
  /\ conds \in [Reactions -> Seq(Reactions)]
  /\ \A r \in Reactions : conds[r] = <<>> \/ (conds[r] = <<r>> /\ pc[r] = "woken")
  /\ \A p \in Workers : pc[p] = "woken" => p \in Reactions
  /\ \A p \in Workers : pc[p] = "load" => p \in {Reaction1, Reaction2}

\* What p has loaded is still there when it stores, and what it needs is there
\* from the moment it does not test it any more: the first two reactions when
\* they are signalled, since nobody else takes their atoms.
Prepared(p) ==
  /\ pc[p] = "store" => Ready(p) /\ seen[p] = [m \in DOMAIN Yields(p) |-> stat[m]]
  /\ pc[p] = "load" => Ready(p)
  /\ p \in {Reaction1, Reaction2} /\ pc[p] = "woken" /\ conds[p] = <<>> => Ready(p)

Q5Inv ==
  /\ Typed /\ Excluded /\ OwnConditions
  /\ \A p \in Workers : Prepared(p)
  /\ AtomsConserved /\ EnoughMolecules /\ NoMissedSignal

-----------------------------------------------------------------------------
\* The reactions, one by one.

LEMMA Names ==
  /\ ProducerN = 1 /\ ProducerO = 2 /\ Reaction1 = 3 /\ Reaction2 = 4
  /\ Reaction3 = 5 /\ Reaction4 = 6
  /\ Workers = {1, 2, 3, 4, 5, 6} /\ Reactions = {3, 4, 5, 6} /\ Main = 0
BY SixProcesses DEF ProducerN, ProducerO, Reaction1, Reaction2, Reaction3, Reaction4,
                    Workers, Reactions, Main

LEMMA ReadyMeans ==
  /\ Ready(1) /\ Ready(2)
  /\ Ready(3) <=> stat.n >= 2
  /\ Ready(4) <=> stat.o >= 2
  /\ Ready(5) <=> stat.n2 >= 1 /\ stat.o2 >= 2
  /\ Ready(6) <=> stat.o2 >= 3
BY Names DEF Ready

LEMMA ReadyMeansNext ==
  /\ Ready(1)' /\ Ready(2)'
  /\ Ready(3)' <=> stat'.n >= 2
  /\ Ready(4)' <=> stat'.o >= 2
  /\ Ready(5)' <=> stat'.n2 >= 1 /\ stat'.o2 >= 2
  /\ Ready(6)' <=> stat'.o2 >= 3
BY Names DEF Ready

LEMMA YieldsAre ==
  /\ Yields(1) = [n |-> 1]
  /\ Yields(2) = [o |-> 1]
  /\ Yields(3) = [n |-> -2, n2 |-> 1]
  /\ Yields(4) = [o |-> -2, o2 |-> 1]
  /\ Yields(5) = [n2 |-> -1, o2 |-> -2, no2 |-> 2]
  /\ Yields(6) = [o2 |-> -3, o3 |-> 2]
BY Names DEF Yields

LEMMA SignalsAre ==
  ASSUME NEW now
  PROVE  /\ Signals(1, now) = {r \in {3} : now.n > 1}
         /\ Signals(2, now) = {r \in {4} : now.o > 1}
         /\ Signals(3, now) = {r \in {5} : now.n2 > 0 /\ now.o2 > 1}
         /\ Signals(4, now) = {r \in {5} : now.n2 > 0 /\ now.o2 > 1} \cup {r \in {6} : now.o2 > 2}
         /\ Signals(5, now) = {} /\ Signals(6, now) = {}
BY Names DEF Signals

\* What one turn of p does to the counters.
LEMMA TurnCounts ==
  ASSUME NEW p \in Workers, Typed, StoreAndRelease(p), Prepared(p)
  PROVE  /\ stat' \in [Counters -> Int] /\ i' \in [Workers -> Int] /\ Ready(p)
         /\ i' = [i EXCEPT ![p] = @ + 1]
         /\ \A m \in Counters : stat'[m] = IF m \in DOMAIN Yields(p)
                                           THEN stat[m] + Yields(p)[m] ELSE stat[m]
<1>1. /\ stat \in [Counters -> Int] /\ i \in [Workers -> Int] /\ pc[p] = "store"
      /\ i' = [i EXCEPT ![p] = @ + 1]
      /\ stat' = [m \in DOMAIN stat |-> IF m \in DOMAIN Yields(p)
                                        THEN seen[p][m] + Yields(p)[m] ELSE stat[m]]
  BY DEF Typed, StoreAndRelease, At
<1>2. Ready(p) /\ seen[p] = [m \in DOMAIN Yields(p) |-> stat[m]]
  BY <1>1 DEF Prepared
<1>3. stat' = [m \in Counters |-> IF m \in DOMAIN Yields(p)
                                  THEN stat[m] + Yields(p)[m] ELSE stat[m]]
  BY <1>1, <1>2
<1>4. \A m \in Counters : m \in DOMAIN Yields(p) => Yields(p)[m] \in Int
  BY Names, YieldsAre
<1>5. stat' \in [Counters -> Int]
  BY <1>1, <1>3, <1>4
<1> QED BY <1>1, <1>2, <1>3, <1>5

\* A turn leaves no counter negative and loses no atom; those it makes ready it
\* signals, those it signals are ready, and it takes nothing from the first two
\* reactions that is not its own.
LEMMA TurnEffects ==
  ASSUME NEW p \in Workers, Typed, AtomsConserved, EnoughMolecules, StoreAndRelease(p), Prepared(p)
  PROVE  /\ AtomsConserved' /\ EnoughMolecules'
         /\ \A r \in Reactions : Ready(r)' /\ r \notin Signals(p, stat') => Ready(r)
         /\ \A r \in {Reaction1, Reaction2} :
              /\ r \in Signals(p, stat') => Ready(r)'
              /\ r # p /\ Ready(r) => Ready(r)'
<1>1. /\ stat' \in [Counters -> Int] /\ i' = [i EXCEPT ![p] = @ + 1] /\ Ready(p)
      /\ \A m \in Counters : stat'[m] = IF m \in DOMAIN Yields(p)
                                        THEN stat[m] + Yields(p)[m] ELSE stat[m]
      /\ stat \in [Counters -> Int] /\ i \in [Workers -> Int]
  BY TurnCounts DEF Typed
<1>2. /\ stat.n >= 0 /\ stat.o >= 0 /\ stat.n2 >= 0 /\ stat.o2 >= 0
      /\ stat.no2 >= 0 /\ stat.o3 >= 0
  BY <1>1 DEF EnoughMolecules, Counters
<1>3. /\ stat.n \in Int /\ stat.o \in Int /\ stat.n2 \in Int /\ stat.o2 \in Int
      /\ stat.no2 \in Int /\ stat.o3 \in Int
      /\ stat'.n \in Int /\ stat'.o \in Int /\ stat'.n2 \in Int /\ stat'.o2 \in Int
      /\ stat'.no2 \in Int /\ stat'.o3 \in Int
  BY <1>1 DEF Counters
<1>4. /\ i[1] = stat.n + 2 * stat.n2 + stat.no2
      /\ i[2] = stat.o + 2 * stat.o2 + 2 * stat.no2 + 3 * stat.o3
      /\ i[1] \in Int /\ i[2] \in Int
  BY <1>1, Names DEF AtomsConserved
<1>5. /\ i'[1] = IF p = 1 THEN i[1] + 1 ELSE i[1]
      /\ i'[2] = IF p = 2 THEN i[2] + 1 ELSE i[2]
  BY <1>1, Names
<1>6. \/ /\ p = 1 /\ stat'.n = stat.n + 1 /\ stat'.o = stat.o /\ stat'.n2 = stat.n2
         /\ stat'.o2 = stat.o2 /\ stat'.no2 = stat.no2 /\ stat'.o3 = stat.o3
      \/ /\ p = 2 /\ stat'.n = stat.n /\ stat'.o = stat.o + 1 /\ stat'.n2 = stat.n2
         /\ stat'.o2 = stat.o2 /\ stat'.no2 = stat.no2 /\ stat'.o3 = stat.o3
      \/ /\ p = 3 /\ stat'.n = stat.n - 2 /\ stat'.o = stat.o /\ stat'.n2 = stat.n2 + 1
         /\ stat'.o2 = stat.o2 /\ stat'.no2 = stat.no2 /\ stat'.o3 = stat.o3
      \/ /\ p = 4 /\ stat'.n = stat.n /\ stat'.o = stat.o - 2 /\ stat'.n2 = stat.n2
         /\ stat'.o2 = stat.o2 + 1 /\ stat'.no2 = stat.no2 /\ stat'.o3 = stat.o3
      \/ /\ p = 5 /\ stat'.n = stat.n /\ stat'.o = stat.o /\ stat'.n2 = stat.n2 - 1
         /\ stat'.o2 = stat.o2 - 2 /\ stat'.no2 = stat.no2 + 2 /\ stat'.o3 = stat.o3
      \/ /\ p = 6 /\ stat'.n = stat.n /\ stat'.o = stat.o /\ stat'.n2 = stat.n2
         /\ stat'.o2 = stat.o2 - 3 /\ stat'.no2 = stat.no2 /\ stat'.o3 = stat.o3 + 2
  BY <1>1, <1>3, Names, YieldsAre DEF Counters
<1>7. /\ p = 3 => stat.n >= 2
      /\ p = 4 => stat.o >= 2
      /\ p = 5 => stat.n2 >= 1 /\ stat.o2 >= 2
      /\ p = 6 => stat.o2 >= 3
  BY <1>1, ReadyMeans
<1>8. EnoughMolecules'
  <2>1. /\ stat'.n >= 0 /\ stat'.o >= 0 /\ stat'.n2 >= 0 /\ stat'.o2 >= 0
        /\ stat'.no2 >= 0 /\ stat'.o3 >= 0
    BY <1>2, <1>3, <1>6, <1>7
  <2> QED BY <1>1, <2>1 DEF EnoughMolecules, Counters
<1>9. AtomsConserved'
  <2> SUFFICES ASSUME NEW n \in Int, NEW o \in Int, NEW n2 \in Int, NEW o2 \in Int,
                      NEW no2 \in Int, NEW o3 \in Int,
                      stat.n = n, stat.o = o, stat.n2 = n2, stat.o2 = o2, stat.no2 = no2,
                      stat.o3 = o3
               PROVE  AtomsConserved'
    BY <1>3
  <2>1. i[1] = n + 2 * n2 + no2 /\ i[2] = o + 2 * o2 + 2 * no2 + 3 * o3
    BY <1>4
  <2>2. i'[1] = stat'.n + 2 * stat'.n2 + stat'.no2
    BY <1>5, <1>6, <2>1
  <2>3. \/ /\ i'[2] = i[2] + 1 /\ stat'.o = o + 1 /\ stat'.o2 = o2
           /\ stat'.no2 = no2 /\ stat'.o3 = o3
        \/ /\ i'[2] = i[2] /\ stat'.o = o /\ stat'.o2 = o2 /\ stat'.no2 = no2 /\ stat'.o3 = o3
        \/ /\ i'[2] = i[2] /\ stat'.o = o - 2 /\ stat'.o2 = o2 + 1
           /\ stat'.no2 = no2 /\ stat'.o3 = o3
        \/ /\ i'[2] = i[2] /\ stat'.o = o /\ stat'.o2 = o2 - 2
           /\ stat'.no2 = no2 + 2 /\ stat'.o3 = o3
        \/ /\ i'[2] = i[2] /\ stat'.o = o /\ stat'.o2 = o2 - 3
           /\ stat'.no2 = no2 /\ stat'.o3 = o3 + 2
    BY <1>5, <1>6
  <2>4. i'[2] = stat'.o + 2 * stat'.o2 + 2 * stat'.no2 + 3 * stat'.o3
    BY <2>1, <2>3
  <2> QED BY <2>2, <2>4, Names DEF AtomsConserved
<1>10. ASSUME NEW r \in Reactions, Ready(r)', r \notin Signals(p, stat') PROVE Ready(r)
  BY <1>3, <1>6, <1>10, Names, ReadyMeans, ReadyMeansNext, SignalsAre
<1>11. ASSUME NEW r \in {Reaction1, Reaction2}, r \in Signals(p, stat') PROVE Ready(r)'
  BY <1>3, <1>6, <1>11, Names, ReadyMeansNext, SignalsAre
<1>12. ASSUME NEW r \in {Reaction1, Reaction2}, r # p, Ready(r) PROVE Ready(r)'
  BY <1>3, <1>6, <1>12, Names, ReadyMeans, ReadyMeansNext
<1> QED BY <1>8, <1>9, <1>10, <1>11, <1>12

-----------------------------------------------------------------------------
\* The lock.

\* A process that takes a step is not in any queue; in the section it has the lock.
LEMMA AtMeans ==
  ASSUME Excluded, OwnConditions, NEW p \in Workers, NEW w, At(p, w)
  PROVE  /\ pc[p] = w /\ p \notin ToSet(lock.waiting)
         /\ p \in Reactions => conds[p] = <<>>
         /\ w \in InSection => lock.pid = p
<1>1. pc[p] = w /\ ~Contains(lock.waiting, p) /\ \A c \in DOMAIN conds : ~Contains(conds[c], p)
  BY DEF At, Asleep
<1>2. lock.waiting \in Seq(Workers)
  BY DEF Excluded, LockSound
<1>3. p \notin ToSet(lock.waiting)
  BY <1>1, <1>2 DEF Contains, ToSet
<1>4. ASSUME p \in Reactions PROVE conds[p] = <<>>
  <2>1. ~Contains(conds[p], p)
    BY <1>1, <1>4 DEF OwnConditions
  <2>2. Contains(<<p>>, p)
    BY DEF Contains
  <2> QED BY <1>4, <2>1, <2>2 DEF OwnConditions
<1>5. w \in InSection => lock.pid = p
  BY <1>1, <1>3 DEF Excluded, Inside
<1> QED BY <1>1, <1>3, <1>4, <1>5

\* p enters the section, or waits to enter it.
LEMMA SectionEntered ==
  ASSUME Typed, Excluded, NEW p \in Workers, pc[p] \notin InSection,
         NEW w \in {"test", "load"}, Acquire(p), Goto(p, w)
  PROVE  Excluded'
<1>1. /\ LockSound(lock, Workers) /\ lock' = LockAcquire(lock, p)
      /\ p \in Workers \ Inside(lock) /\ Workers \in SUBSET Nat
  BY Names DEF Excluded, Acquire
<1>2. /\ LockSound(lock', Workers) /\ Inside(lock') = Inside(lock) \cup {p}
      /\ lock.pid \in Workers => lock'.pid = lock.pid
  BY <1>1, LockAsked
<1>3. pc' = [pc EXCEPT ![p] = w] /\ pc \in [Procs -> WorkerSteps \cup MainSteps] /\ p \in Procs
  BY DEF Goto, Typed, Procs
<1>4. \A q \in Workers : pc'[q] = IF q = p THEN w ELSE pc[q]
  BY <1>3 DEF Procs
<1> QED BY <1>2, <1>4 DEF Excluded, InSection

\* The owner leaves the section.
LEMMA SectionLeft ==
  ASSUME Typed, Excluded, NEW p \in Workers, lock.pid = p,
         NEW w \in {"loop", "woken"}, Release(p), Goto(p, w)
  PROVE  Excluded'
<1>1. LockSound(lock, Workers) /\ lock' = LockRelease(lock) /\ Workers \in SUBSET Nat
  BY Names DEF Excluded, Release
<1>2. LockSound(lock', Workers) /\ Inside(lock') = Inside(lock) \ {p}
  BY <1>1, LockLeft
<1>3. pc' = [pc EXCEPT ![p] = w] /\ pc \in [Procs -> WorkerSteps \cup MainSteps] /\ p \in Procs
  BY DEF Goto, Typed, Procs
<1>4. \A q \in Workers : pc'[q] = IF q = p THEN w ELSE pc[q]
  BY <1>3 DEF Procs
<1> QED BY <1>2, <1>4 DEF Excluded, InSection

\* p stays where it is.
LEMMA SectionKept ==
  ASSUME Typed, Excluded, NEW p \in Workers, UNCHANGED lock, NEW w, Goto(p, w),
         pc[p] \in InSection <=> w \in InSection, w = "store" => lock.pid = p
  PROVE  Excluded'
<1>1. pc' = [pc EXCEPT ![p] = w] /\ pc \in [Procs -> WorkerSteps \cup MainSteps] /\ p \in Procs
  BY DEF Goto, Typed, Procs
<1>2. \A q \in Workers : pc'[q] = IF q = p THEN w ELSE pc[q]
  BY <1>1 DEF Procs
<1> QED BY <1>2 DEF Excluded

-----------------------------------------------------------------------------
\* Every action keeps the invariant.

\* What becomes of the program counters.
LEMMA Gone ==
  ASSUME Typed, NEW p \in Workers, NEW w \in WorkerSteps, Goto(p, w)
  PROVE  /\ pc' \in [Procs -> WorkerSteps \cup MainSteps]
         /\ pc'[p] = w /\ \A q \in Workers \ {p} : pc'[q] = pc[q]
BY DEF Goto, Typed, Procs

LEMMA FirstInv ==
  ASSUME Q5Inv, First
  PROVE  Q5Inv'
<1>1. PICK w \in MainSteps : Goto(Main, w) /\ UNCHANGED <<lock, conds, reactionVars>>
  <2>1. CASE CreateNext
    <3>1. /\ Goto(Main, IF created + 1 = NumProcs THEN "wait" ELSE "create")
          /\ UNCHANGED <<lock, conds, reactionVars>>
      BY <2>1 DEF First, CreateNext
    <3> QED BY <3>1 DEF MainSteps
  <2>2. CASE FinalWait
    BY <2>2 DEF First, FinalWait, MainSteps
  <2> QED BY <2>1, <2>2 DEF First, MainStep
<1>2. Main \notin Workers /\ pc \in [Procs -> WorkerSteps \cup MainSteps]
  BY Names DEF Q5Inv, Typed
<1>3. /\ pc' \in [Procs -> WorkerSteps \cup MainSteps]
      /\ \A q \in Workers : pc'[q] = pc[q]
  BY <1>1, <1>2 DEF Goto, Procs
<1>4. UNCHANGED <<stat, seen, i, conds, lock>>
  BY <1>1 DEF reactionVars
<1>5. Typed' /\ Excluded'
  BY <1>3, <1>4 DEF Q5Inv, Typed, Excluded
<1>6. Reactions \subseteq Workers
  BY Names
<1>7. OwnConditions'
  BY <1>3, <1>4, <1>6 DEF Q5Inv, OwnConditions
<1>8. \A q \in Workers : Prepared(q)'
  BY <1>3, <1>4 DEF Q5Inv, Prepared, Ready
<1> QED BY <1>4, <1>5, <1>7, <1>8 DEF Q5Inv, AtomsConserved, EnoughMolecules, NoMissedSignal, Ready

\* A step of p that changes no counter: it has to see to p only.
LEMMA CalmInv ==
  ASSUME Q5Inv, NEW p \in Workers, NEW w \in WorkerSteps, Goto(p, w),
         UNCHANGED <<stat, i>>, seen' = [q \in Workers |-> seen'[q]],
         \A q \in Workers \ {p} : seen'[q] = seen[q],
         \A r \in Reactions \ {p} : conds'[r] = conds[r],
         Excluded', OwnConditions', Prepared(p)',
         p \in Reactions /\ conds'[p] # <<>> => ~Ready(p)
  PROVE  Q5Inv'
<1>1. /\ pc' \in [Procs -> WorkerSteps \cup MainSteps]
      /\ pc'[p] = w /\ \A q \in Workers \ {p} : pc'[q] = pc[q]
  BY Gone DEF Q5Inv
<1>2. Typed'
  BY <1>1 DEF Q5Inv, Typed
<1>3. {Reaction1, Reaction2} \subseteq Reactions /\ Reactions \subseteq Workers
  BY Names
<1>4. ASSUME NEW q \in Workers PROVE Prepared(q)'
  <2>1. CASE q = p
    BY <2>1
  <2>2. CASE q # p
    <3>1. pc'[q] = pc[q] /\ seen'[q] = seen[q] /\ (Ready(q)' <=> Ready(q))
      BY <1>1, <2>2 DEF Ready
    <3>2. q \in {Reaction1, Reaction2} => conds'[q] = conds[q]
      BY <1>3, <2>2
    <3>3. Prepared(q)
      BY DEF Q5Inv
    <3> QED BY <3>1, <3>2, <3>3 DEF Prepared
  <2> QED BY <2>1, <2>2
<1>5. AtomsConserved' /\ EnoughMolecules'
  BY DEF Q5Inv, AtomsConserved, EnoughMolecules
<1>6. NoMissedSignal'
  <2> SUFFICES ASSUME NEW r \in Reactions, conds'[r] # <<>> PROVE ~Ready(r)'
    BY DEF NoMissedSignal
  <2>1. Ready(r)' <=> Ready(r)
    BY DEF Ready
  <2>2. CASE r = p
    BY <2>1, <2>2
  <2>3. CASE r # p
    BY <2>1, <2>3 DEF Q5Inv, NoMissedSignal
  <2> QED BY <2>2, <2>3
<1> QED BY <1>2, <1>4, <1>5, <1>6 DEF Q5Inv

\* The queues of the conditions if none of them changes.
LEMMA ConditionsKept ==
  ASSUME Q5Inv, NEW p \in Workers, p \in Reactions => conds[p] = <<>>,
         NEW w \in WorkerSteps, Goto(p, w), UNCHANGED conds,
         w # "woken", w = "load" => p \in {Reaction1, Reaction2}
  PROVE  OwnConditions'
<1>1. pc'[p] = w /\ \A q \in Workers \ {p} : pc'[q] = pc[q]
  BY Gone DEF Q5Inv
<1>2. Reactions \subseteq Workers /\ Q5Inv /\ OwnConditions
  BY Names DEF Q5Inv
<1>3. ASSUME NEW r \in Reactions PROVE conds[r] = <<>> \/ (conds[r] = <<r>> /\ pc'[r] = "woken")
  BY <1>1, <1>2 DEF OwnConditions
<1> QED BY <1>1, <1>2, <1>3 DEF OwnConditions

LEMMA EnterInv ==
  ASSUME Q5Inv, NEW p \in Workers, Enter(p)
  PROVE  Q5Inv'
<1>1. /\ At(p, "loop") /\ Acquire(p) /\ Goto(p, "test")
      /\ UNCHANGED <<conds, stat, seen, i>>
  BY DEF Enter, reactionVars
<1>2. pc[p] = "loop" /\ "test" \in WorkerSteps /\ "loop" \notin InSection
  BY <1>1, AtMeans DEF Q5Inv, WorkerSteps, InSection
<1>3. Excluded'
  BY <1>1, <1>2, SectionEntered DEF Q5Inv
<1>4. p \in Reactions => conds[p] = <<>>
  BY <1>1, AtMeans DEF Q5Inv
<1>5. OwnConditions'
  BY <1>1, <1>2, <1>4, ConditionsKept
<1>6. pc'[p] = "test"
  BY <1>1, <1>2, Gone DEF Q5Inv
<1>7. Prepared(p)'
  BY <1>6 DEF Prepared
<1> QED BY <1>1, <1>2, <1>3, <1>4, <1>5, <1>7, CalmInv DEF Q5Inv, Typed

LEMMA WaitInv ==
  ASSUME Q5Inv, NEW p \in Workers, WaitUntilReady(p)
  PROVE  Q5Inv'
<1>1. /\ At(p, "test") /\ ~Ready(p) /\ Release(p) /\ Goto(p, "woken")
      /\ conds' = [conds EXCEPT ![p] = Append(@, p)] /\ UNCHANGED <<stat, seen, i>>
  BY DEF WaitUntilReady, reactionVars, CondWait
<1>2. "woken" \in WorkerSteps /\ "test" \in InSection
  BY DEF WorkerSteps, InSection
<1>3. pc[p] = "test" /\ lock.pid = p /\ (p \in Reactions => conds[p] = <<>>)
  BY <1>1, <1>2, AtMeans DEF Q5Inv
<1>4. p \in Reactions
  BY <1>1, Names, ReadyMeans
<1>5. Excluded'
  BY <1>1, <1>3, SectionLeft DEF Q5Inv
<1>6. pc'[p] = "woken" /\ \A q \in Workers \ {p} : pc'[q] = pc[q]
  BY <1>1, <1>2, Gone DEF Q5Inv
<1>7. /\ conds \in [Reactions -> Seq(Reactions)] /\ conds'[p] = <<p>>
      /\ conds' \in [Reactions -> Seq(Reactions)]
      /\ \A r \in Reactions \ {p} : conds'[r] = conds[r]
  <2>1. conds \in [Reactions -> Seq(Reactions)] /\ conds[p] = <<>>
    BY <1>3, <1>4 DEF Q5Inv, OwnConditions
  <2>2. Append(conds[p], p) = <<p>> /\ <<p>> \in Seq(Reactions)
    BY <1>4, <2>1
  <2> QED BY <1>1, <1>4, <2>1, <2>2
<1>8. OwnConditions'
  <2>1. Reactions \subseteq Workers /\ OwnConditions
    BY Names DEF Q5Inv
  <2>2. ASSUME NEW r \in Reactions
        PROVE  conds'[r] = <<>> \/ (conds'[r] = <<r>> /\ pc'[r] = "woken")
    BY <1>6, <1>7, <2>1 DEF OwnConditions
  <2> QED BY <1>4, <1>6, <1>7, <2>1, <2>2 DEF OwnConditions
<1>9. Prepared(p)'
  BY <1>6, <1>7 DEF Prepared
<1> QED BY <1>1, <1>2, <1>5, <1>7, <1>8, <1>9, CalmInv DEF Q5Inv, Typed

LEMMA WokenUpInv ==
  ASSUME Q5Inv, NEW p \in Workers, WokenUp(p)
  PROVE  Q5Inv'
<1> DEFINE w == IF p \in {Reaction3, Reaction4} THEN "test" ELSE "load"
<1>1. At(p, "woken") /\ Acquire(p) /\ Goto(p, w) /\ UNCHANGED <<conds, stat, seen, i>>
  BY DEF WokenUp, CondResume, reactionVars
<1>2. w \in {"test", "load"} /\ w \in WorkerSteps /\ "woken" \notin InSection
  BY DEF WorkerSteps, InSection
<1>3. pc[p] = "woken" /\ p \in Reactions /\ conds[p] = <<>>
  BY <1>1, AtMeans DEF Q5Inv, OwnConditions
<1>4. w = "load" => p \in {Reaction1, Reaction2}
  BY <1>3, Names
<1> HIDE DEF w
<1>5. Excluded'
  BY <1>1, <1>2, <1>3, SectionEntered DEF Q5Inv
<1>6. OwnConditions'
  BY <1>1, <1>2, <1>3, <1>4, ConditionsKept
<1>7. pc'[p] = w
  BY <1>1, <1>2, Gone DEF Q5Inv
<1>8. Prepared(p)'
  <2>1. p \in {Reaction1, Reaction2} => Ready(p)
    BY <1>3 DEF Q5Inv, Prepared
  <2>2. Ready(p)' <=> Ready(p)
    BY <1>1 DEF Ready
  <2> QED BY <1>2, <1>4, <1>7, <2>1, <2>2 DEF Prepared
<1> QED BY <1>1, <1>2, <1>3, <1>5, <1>6, <1>8, CalmInv DEF Q5Inv, Typed

LEMMA LoadInv ==
  ASSUME Q5Inv, NEW p \in Workers, Load(p)
  PROVE  Q5Inv'
<1>1. /\ At(p, "load") \/ (At(p, "test") /\ Ready(p))
      /\ seen' = [seen EXCEPT ![p] = [m \in DOMAIN Yields(p) |-> stat[m]]]
      /\ Goto(p, "store") /\ UNCHANGED <<lock, conds, stat, i>>
  BY DEF Load
<1>2. "store" \in WorkerSteps /\ {"load", "test", "store"} \subseteq InSection
      /\ "store" # "woken" /\ "store" # "load"
  BY DEF WorkerSteps, InSection
<1>3. /\ pc[p] \in {"load", "test"} /\ lock.pid = p /\ (p \in Reactions => conds[p] = <<>>)
      /\ Ready(p)
  <2>1. CASE At(p, "load")
    BY <1>2, <2>1, AtMeans DEF Q5Inv, Prepared
  <2>2. CASE At(p, "test") /\ Ready(p)
    BY <1>2, <2>2, AtMeans DEF Q5Inv
  <2> QED BY <1>1, <2>1, <2>2
<1>4. Excluded'
  BY <1>1, <1>2, <1>3, SectionKept DEF Q5Inv
<1>5. OwnConditions'
  BY <1>1, <1>2, <1>3, ConditionsKept
<1>6. pc'[p] = "store"
  BY <1>1, <1>2, Gone DEF Q5Inv
<1>7. /\ seen' = [q \in Workers |-> seen'[q]]
      /\ seen'[p] = [m \in DOMAIN Yields(p) |-> stat[m]]
      /\ \A q \in Workers \ {p} : seen'[q] = seen[q]
  <2>1. seen = [q \in Workers |-> seen[q]]
    BY DEF Q5Inv, Typed
  <2> DEFINE v == [m \in DOMAIN Yields(p) |-> stat[m]]
  <2>2. seen' = [seen EXCEPT ![p] = v]
    BY <1>1
  <2> HIDE DEF v
  <2>3. seen'[p] = v /\ \A q \in Workers \ {p} : seen'[q] = seen[q]
    BY <2>1, <2>2
  <2>4. seen' = [q \in Workers |-> seen'[q]]
    BY <2>1, <2>2
  <2> QED BY <2>3, <2>4 DEF v
<1>8. Prepared(p)'
  <2>1. (Ready(p)' <=> Ready(p)) /\ stat' = stat /\ Yields(p)' = Yields(p)
    BY <1>1 DEF Ready, Yields
  <2> QED BY <1>3, <1>6, <1>7, <2>1 DEF Prepared
<1> QED BY <1>1, <1>2, <1>3, <1>4, <1>5, <1>7, <1>8, CalmInv

LEMMA CompleteInv ==
  ASSUME Q5Inv, NEW p \in Workers, Complete(p)
  PROVE  Q5Inv'
<1>1. At(p, "loop") /\ Goto(p, "ended") /\ UNCHANGED <<lock, conds, stat, seen, i>>
  BY DEF Complete, SignalCompletion, reactionVars
<1>2. /\ pc[p] = "loop" /\ "ended" \in WorkerSteps /\ {"loop", "ended"} \cap InSection = {}
      /\ p \in Reactions => conds[p] = <<>>
  BY <1>1, AtMeans DEF Q5Inv, WorkerSteps, InSection
<1>3. Excluded'
  BY <1>1, <1>2, SectionKept DEF Q5Inv
<1>4. OwnConditions'
  BY <1>1, <1>2, ConditionsKept
<1>5. pc'[p] = "ended"
  BY <1>1, <1>2, Gone DEF Q5Inv
<1>6. Prepared(p)'
  BY <1>5 DEF Prepared
<1> QED BY <1>1, <1>2, <1>3, <1>4, <1>6, CalmInv DEF Q5Inv, Typed

LEMMA StoreInv ==
  ASSUME Q5Inv, NEW p \in Workers, StoreAndRelease(p)
  PROVE  Q5Inv'
<1>1. /\ At(p, "store") /\ Release(p) /\ Goto(p, "loop")
      /\ seen' = [seen EXCEPT ![p] = <<>>]
      /\ conds' = [r \in Reactions |-> IF r \in Signals(p, stat') THEN Rest(conds[r])
                                                                  ELSE conds[r]]
  BY DEF StoreAndRelease
<1>2. "loop" \in WorkerSteps /\ "store" \in InSection
  BY DEF WorkerSteps, InSection
<1>3. pc[p] = "store" /\ lock.pid = p /\ (p \in Reactions => conds[p] = <<>>)
  BY <1>1, <1>2, AtMeans DEF Q5Inv
<1>4. pc' \in [Procs -> WorkerSteps \cup MainSteps]
      /\ pc'[p] = "loop" /\ \A q \in Workers \ {p} : pc'[q] = pc[q]
  BY <1>1, <1>2, Gone DEF Q5Inv
<1>5. Excluded'
  BY <1>1, <1>3, SectionLeft DEF Q5Inv
<1>6. Typed /\ Prepared(p) /\ AtomsConserved /\ EnoughMolecules /\ StoreAndRelease(p)
  BY DEF Q5Inv
<1>7. stat' \in [Counters -> Int] /\ i' \in [Workers -> Int]
  BY <1>6, TurnCounts
<1>8. /\ AtomsConserved' /\ EnoughMolecules'
      /\ \A r \in Reactions : Ready(r)' /\ r \notin Signals(p, stat') => Ready(r)
      /\ \A r \in {Reaction1, Reaction2} :
           /\ r \in Signals(p, stat') => Ready(r)'
           /\ r # p /\ Ready(r) => Ready(r)'
  BY <1>6, TurnEffects
<1>9. seen' = [q \in Workers |-> seen'[q]] /\ \A q \in Workers \ {p} : seen'[q] = seen[q]
  <2>1. seen = [q \in Workers |-> seen[q]]
    BY <1>6 DEF Typed
  <2> QED BY <1>1, <2>1
<1>10. Typed'
  BY <1>4, <1>7, <1>9 DEF Typed
<1>11. /\ Reactions \subseteq Workers /\ {Reaction1, Reaction2} \subseteq Reactions
       /\ OwnConditions /\ Excluded
  BY Names DEF Q5Inv
<1>12. \A r \in Reactions : conds'[r] = IF r \in Signals(p, stat') THEN <<>> ELSE conds[r]
  <2> SUFFICES ASSUME NEW r \in Reactions, r \in Signals(p, stat') PROVE Rest(conds[r]) = <<>>
    BY <1>1
  <2>1. Rest(<<>>) = <<>> /\ Rest(<<r>>) = <<>>
    BY DEF Rest
  <2> QED BY <2>1, <1>11 DEF OwnConditions
<1>13. OwnConditions'
  <2>1. conds' \in [Reactions -> Seq(Reactions)]
    <3>1. \A r \in Reactions : conds[r] \in Seq(Reactions) /\ <<>> \in Seq(Reactions)
      BY <1>11 DEF OwnConditions
    <3>2. conds' = [r \in Reactions |-> conds'[r]]
      BY <1>1
    <3>3. \A r \in Reactions : conds'[r] \in Seq(Reactions)
      BY <1>12, <3>1
    <3> QED BY <3>2, <3>3
  <2>2. \A r \in Reactions : conds'[r] = <<>> \/ (conds'[r] = <<r>> /\ pc'[r] = "woken")
    BY <1>3, <1>4, <1>11, <1>12 DEF OwnConditions
  <2>3. \A q \in Workers : pc'[q] = "woken" => q \in Reactions
    BY <1>4, <1>11 DEF OwnConditions
  <2>4. \A q \in Workers : pc'[q] = "load" => q \in {Reaction1, Reaction2}
    BY <1>4, <1>11 DEF OwnConditions
  <2> QED BY <2>1, <2>2, <2>3, <2>4 DEF OwnConditions
<1>14. ASSUME NEW q \in Workers PROVE Prepared(q)'
  <2>1. CASE q = p
    <3>1. pc'[q] = "loop"
      BY <1>4, <2>1
    <3> QED BY <3>1 DEF Prepared
  <2>2. CASE q # p
    <3>1. pc'[q] = pc[q] /\ Prepared(q)
      BY <1>4, <2>2 DEF Q5Inv
    <3>2. pc'[q] # "store"
      BY <1>3, <1>11, <2>2, <3>1 DEF Excluded
    <3>3. pc'[q] = "load" => Ready(q)'
      BY <1>8, <1>11, <2>2, <3>1 DEF OwnConditions, Prepared
    <3>4. q \in {Reaction1, Reaction2} /\ pc'[q] = "woken" /\ conds'[q] = <<>> => Ready(q)'
      BY <1>8, <1>11, <1>12, <2>2, <3>1 DEF Prepared
    <3> QED BY <3>2, <3>3, <3>4 DEF Prepared
  <2> QED BY <2>1, <2>2
<1>15. NoMissedSignal'
  BY <1>6, <1>8, <1>12 DEF Q5Inv, NoMissedSignal
<1> QED BY <1>5, <1>8, <1>10, <1>13, <1>14, <1>15 DEF Q5Inv

LEMMA NextInv == Q5Inv /\ [Next]_vars => Q5Inv'
<1> SUFFICES ASSUME Q5Inv, [Next]_vars PROVE Q5Inv'
  OBVIOUS
<1>1. CASE First
  BY <1>1, FirstInv
<1>2. CASE \E p \in Workers : Worker(p)
  <2>1. PICK p \in Workers : Worker(p)
    BY <1>2
  <2> QED BY <2>1, EnterInv, WaitInv, WokenUpInv, LoadInv, StoreInv, CompleteInv DEF Worker
<1>3. CASE UNCHANGED vars
  <2>1. UNCHANGED <<stat, seen, i, pc, conds, lock>>
    BY <1>3 DEF vars, appVars, reactionVars
  <2>2. (Typed /\ Excluded /\ OwnConditions)'
    BY <2>1 DEF Q5Inv, Typed, Excluded, OwnConditions
  <2>3. \A p \in Workers : (Ready(p)' <=> Ready(p)) /\ Yields(p)' = Yields(p)
    BY <2>1 DEF Ready, Yields
  <2>4. \A p \in Workers : Prepared(p)'
    BY <2>1, <2>3 DEF Q5Inv, Prepared
  <2>5. (AtomsConserved /\ EnoughMolecules /\ NoMissedSignal)'
    BY <2>1 DEF Q5Inv, AtomsConserved, EnoughMolecules, NoMissedSignal, Ready
  <2> QED BY <2>2, <2>4, <2>5 DEF Q5Inv
<1> QED BY <1>1, <1>2, <1>3 DEF Next

LEMMA InitInv == Init => Q5Inv
<1> SUFFICES ASSUME Init PROVE Q5Inv
  OBVIOUS
<1>1. /\ stat = [n |-> 0, o |-> 0, n2 |-> 0, o2 |-> 0, no2 |-> 0, o3 |-> 0]
      /\ seen = [p \in Workers |-> <<>>] /\ i = [p \in Workers |-> 0]
      /\ InitApp(<<>>, Reactions, "loop")
  BY DEF Init
<1>2. /\ lock = [pid |-> NoOwner, waiting |-> <<>>] /\ conds = [c \in Reactions |-> <<>>]
      /\ pc = [p \in Procs |-> IF p = Main THEN "create" ELSE "loop"]
  BY <1>1 DEF InitApp
<1>3. Typed
  BY <1>1, <1>2, Names DEF Typed, Counters, WorkerSteps, MainSteps
<1>4. \A p \in Workers : pc[p] = "loop"
  BY <1>2, Names DEF Procs
<1>5. Excluded
  <2>1. ToSet(<<>>) = {} /\ NoOwner \notin Workers
    BY Names DEF ToSet, NoOwner
  <2>2. IsInjective(<<>>) /\ <<>> \in Seq(Workers)
    BY DEF IsInjective
  <2>3. lock \in [pid : Workers \cup {NoOwner}, waiting : Seq(Workers)]
    BY <1>2, <2>2
  <2>4. LockSound(lock, Workers) /\ Inside(lock) \cap Workers = {}
    BY <1>2, <2>1, <2>2, <2>3 DEF LockSound, Inside
  <2> QED BY <1>4, <2>4 DEF Excluded, InSection
<1>6. OwnConditions
  BY <1>2, <1>4 DEF OwnConditions
<1>7. \A p \in Workers : Prepared(p)
  BY <1>4 DEF Prepared
<1>8. AtomsConserved /\ EnoughMolecules
  BY <1>1, Names DEF AtomsConserved, EnoughMolecules
<1>9. NoMissedSignal
  BY <1>2 DEF NoMissedSignal
<1> QED BY <1>3, <1>5, <1>6, <1>7, <1>8, <1>9 DEF Q5Inv

-----------------------------------------------------------------------------
\* krypton's estimate.

\* One turn of krypton's loop.
LEMMA EstimateTurn ==
  ASSUME NEW e \in Estimates, NEW t \in Int, CanMakeNO2(e, t) \/ CanMakeO3(e, t),
         NEW d, d = MakeO3(MakeNO2(e, t), t)
  PROVE  /\ d \in Estimates /\ d.o2 < e.o2
         /\ d.n2 + d.no2 = e.n2 + e.no2
         /\ d.o2 + 2 * d.no2 + 3 * d.o3 = e.o2 + 2 * e.no2 + 3 * e.o3
         /\ t > 120 => d.no2 = e.no2
         /\ t < 60 => d.o3 = e.o3
<1> DEFINE m == MakeNO2(e, t)
<1>1. /\ e.n2 \in Nat /\ e.o2 \in Nat /\ e.no2 \in Nat /\ e.o3 \in Nat
      /\ e = [n2 |-> e.n2, o2 |-> e.o2, no2 |-> e.no2, o3 |-> e.o3]
  BY DEF Estimates
<1>2. /\ m \in Estimates
      /\ \/ CanMakeNO2(e, t) /\ m.n2 = e.n2 - 1 /\ m.o2 = e.o2 - 2 /\ m.no2 = e.no2 + 1 /\ m.o3 = e.o3
         \/ ~CanMakeNO2(e, t) /\ m = e
  <2>1. CASE CanMakeNO2(e, t)
    <3>1. m = [n2 |-> e.n2 - 1, o2 |-> e.o2 - 2, no2 |-> e.no2 + 1, o3 |-> e.o3]
      BY <1>1, <2>1 DEF MakeNO2
    <3>2. e.n2 - 1 \in Nat /\ e.o2 - 2 \in Nat /\ e.no2 + 1 \in Nat
      BY <1>1, <2>1 DEF CanMakeNO2
    <3> HIDE DEF m
    <3> QED BY <1>1, <2>1, <3>1, <3>2 DEF Estimates
  <2>2. CASE ~CanMakeNO2(e, t)
    BY <2>2 DEF MakeNO2
  <2> QED BY <2>1, <2>2
<1> HIDE DEF m
<1>3. /\ m.n2 \in Nat /\ m.o2 \in Nat /\ m.no2 \in Nat /\ m.o3 \in Nat
      /\ m = [n2 |-> m.n2, o2 |-> m.o2, no2 |-> m.no2, o3 |-> m.o3]
  BY <1>2 DEF Estimates
<1>4. /\ d \in Estimates
      /\ \/ CanMakeO3(m, t) /\ d.n2 = m.n2 /\ d.o2 = m.o2 - 3 /\ d.no2 = m.no2 /\ d.o3 = m.o3 + 1
         \/ ~CanMakeO3(m, t) /\ d = m
  <2>1. CASE CanMakeO3(m, t)
    <3>1. d = [n2 |-> m.n2, o2 |-> m.o2 - 3, no2 |-> m.no2, o3 |-> m.o3 + 1]
      BY <1>3, <2>1 DEF MakeO3, m
    <3>2. m.o2 - 3 \in Nat /\ m.o3 + 1 \in Nat
      BY <1>3, <2>1 DEF CanMakeO3
    <3> QED BY <1>3, <2>1, <3>1, <3>2 DEF Estimates
  <2>2. CASE ~CanMakeO3(m, t)
    BY <1>2, <2>2 DEF MakeO3, m
  <2> QED BY <2>1, <2>2
<1>5. /\ d.n2 + d.no2 = m.n2 + m.no2
      /\ d.o2 + 2 * d.no2 + 3 * d.o3 = m.o2 + 2 * m.no2 + 3 * m.o3
      /\ d.no2 = m.no2 /\ d.o2 =< m.o2
      /\ t < 60 => d.o3 = m.o3
  BY <1>3, <1>4 DEF CanMakeO3
<1>6. /\ m.n2 + m.no2 = e.n2 + e.no2
      /\ m.o2 + 2 * m.no2 + 3 * m.o3 = e.o2 + 2 * e.no2 + 3 * e.o3
      /\ m.o3 = e.o3 /\ m.o2 =< e.o2
      /\ t > 120 => m.no2 = e.no2
  BY <1>1, <1>2 DEF CanMakeNO2
<1>7. d.o2 < e.o2
  <2>1. d.o2 \in Nat
    BY <1>4 DEF Estimates
  <2>2. CASE CanMakeNO2(e, t)
    BY <1>1, <1>2, <1>3, <1>5, <2>1, <2>2
  <2>3. CASE ~CanMakeNO2(e, t)
    <3>1. m = e /\ CanMakeO3(m, t)
      BY <1>2, <2>3
    <3> QED BY <1>3, <1>4, <2>1, <3>1
  <2> QED BY <2>2, <2>3
<1> QED BY <1>4, <1>5, <1>6, <1>7

\* What it comes to: the reactions krypton counts use no more molecules than there
\* are, and none takes place at a temperature at which it does not.
LEMMA EstimateFits ==
  ASSUME NEW a \in Nat, NEW b \in Nat, NEW t \in Int, NEW e, e = Estimate(a, b, t)
  PROVE  /\ e.no2 \in Nat /\ e.o3 \in Nat
         /\ e.no2 =< a \div 2 /\ 2 * e.no2 + 3 * e.o3 =< b \div 2
         /\ t > 120 => e.no2 = 0
         /\ t < 60 => e.o3 = 0
<1> DEFINE D       == Estimates
           turn(d) == MakeO3(MakeNO2(d, t), t)
           more    == {d \in D : CanMakeNO2(d, t) \/ CanMakeO3(d, t)}
           next    == [d \in more |-> turn(d)]
           size    == [d \in D |-> d.o2]
           P(f)    == f = [d \in D |-> IF CanMakeNO2(d, t) \/ CanMakeO3(d, t) THEN f[turn(d)] ELSE d]
           loop    == CHOOSE f : P(f)
           start   == [n2 |-> a \div 2, o2 |-> b \div 2, no2 |-> 0, o3 |-> 0]
           Kept(d, r) == /\ r \in Estimates
                         /\ r.n2 + r.no2 = d.n2 + d.no2
                         /\ r.o2 + 2 * r.no2 + 3 * r.o3 = d.o2 + 2 * d.no2 + 3 * d.o3
                         /\ t > 120 => r.no2 = d.no2
                         /\ t < 60 => r.o3 = d.o3
           S == {d \in D : Kept(d, loop[d])}
<1>1. \A d \in more : turn(d) \in D /\ turn(d).o2 < d.o2 /\ Kept(d, turn(d))
  <2> HIDE DEF turn
  <2> SUFFICES ASSUME NEW d \in more PROVE turn(d) \in D /\ turn(d).o2 < d.o2 /\ Kept(d, turn(d))
    OBVIOUS
  <2>1. turn(d) = MakeO3(MakeNO2(d, t), t)
    BY DEF turn
  <2> QED BY <2>1, EstimateTurn
<1>2. \A d \in D : d.o2 \in Nat
  BY DEF Estimates
<1> HIDE DEF turn, D
<1>3. /\ more \in SUBSET D /\ next \in [more -> D] /\ size \in [D -> Nat]
      /\ \A d \in more : size[next[d]] < size[d]
  <2>1. \A d \in more : next[d] = turn(d) /\ size[d] = d.o2 /\ size[turn(d)] = turn(d).o2
    BY <1>1
  <2> QED BY <1>1, <1>2, <2>1
<1>4. P(loop)
  <2>1. \E f : P(f)
    <3>1. \A d \in D : (d \in more <=> CanMakeNO2(d, t) \/ CanMakeO3(d, t))
      OBVIOUS
    <3>2. \A d \in more : next[d] = turn(d)
      OBVIOUS
    <3> HIDE DEF next, size, more
    <3>3. PICK f : f = [d \in D |-> IF d \in more THEN f[next[d]] ELSE d]
      BY <1>3, LoopEnds
    <3>4. P(f)
      BY <3>1, <3>2, <3>3
    <3> QED BY <3>4
  <2> HIDE DEF P
  <2> QED BY <2>1
<1>5. Estimate(a, b, t) = loop[start]
  BY DEF Estimate, D, turn
<1>6. \A d \in D : loop[d] = IF d \in more THEN loop[turn(d)] ELSE d
  <2> HIDE DEF loop
  <2> QED BY <1>4
<1> HIDE DEF loop
<1>7. S = D
  <2>1. D \ more \subseteq S
    <3> SUFFICES ASSUME NEW d \in D \ more PROVE Kept(d, loop[d])
      OBVIOUS
    <3>1. loop[d] = d
      BY <1>6
    <3> QED BY <3>1 DEF D
  <2>2. ASSUME NEW d \in more, turn(d) \in S PROVE d \in S
    <3> DEFINE m == turn(d)
               r == loop[m]
    <3>1. loop[d] = r /\ Kept(d, m) /\ Kept(m, r)
      BY <1>1, <1>6, <2>2
    <3> HIDE DEF m, r
    <3>2. Kept(d, r)
      BY <3>1
    <3> QED BY <3>1, <3>2
  <2>3. \A d \in more : next[d] = turn(d)
    OBVIOUS
  <2>4. S \in SUBSET D
    OBVIOUS
  <2> HIDE DEF S, more, next, size
  <2> QED BY <1>3, <2>1, <2>2, <2>3, <2>4, LoopInduction
<1>8. a \div 2 \in Nat /\ b \div 2 \in Nat
  OBVIOUS
<1>9. start \in D
  BY <1>8 DEF D, Estimates
<1>10. Kept(start, e)
  BY <1>5, <1>7, <1>9
<1>11. e.n2 \in Nat /\ e.o2 \in Nat /\ e.no2 \in Nat /\ e.o3 \in Nat
  BY <1>10 DEF Estimates
<1>12. start.n2 = a \div 2 /\ start.o2 = b \div 2 /\ start.no2 = 0 /\ start.o3 = 0
  OBVIOUS
<1> HIDE DEF start
<1>13. e.n2 + e.no2 = a \div 2 /\ e.o2 + 2 * e.no2 + 3 * e.o3 = b \div 2
  BY <1>8, <1>10, <1>12
<1> DEFINE x == a \div 2
           y == b \div 2
<1> HIDE DEF x, y
<1>14. e.no2 =< x /\ 2 * e.no2 + 3 * e.o3 =< y
  BY <1>8, <1>11, <1>13 DEF x, y
<1> QED BY <1>10, <1>11, <1>12, <1>14 DEF x, y

-----------------------------------------------------------------------------
\* That all processes end, and what is left then, needs more: what krypton was
\* given, what the turns have made of the counters, that a process goes on while
\* it has turns left, and how many have signalled that they are done.

Argued ==
  /\ args.num_n \in Nat /\ args.num_o \in Nat /\ args.temperature \in Int
  /\ args.est = Estimate(args.num_n, args.num_o, args.temperature)

Balanced ==
  /\ stat.n = i[ProducerN] - 2 * i[Reaction1]
  /\ stat.o = i[ProducerO] - 2 * i[Reaction2]
  /\ stat.n2 = i[Reaction1] - i[Reaction3]
  /\ stat.o2 = i[Reaction2] - 2 * i[Reaction3] - 3 * i[Reaction4]
  /\ stat.no2 = 2 * i[Reaction3] /\ stat.o3 = 2 * i[Reaction4]

Looping ==
  \A p \in Workers :
    /\ i[p] =< Times(p)
    /\ pc[p] \in InSection \cup {"woken"} => i[p] < Times(p)
    /\ pc[p] = "ended" => i[p] = Times(p)

Done(p)   == IF pc[p] = "ended" THEN 1 ELSE 0
Signalled == Done(1) + Done(2) + Done(3) + Done(4) + Done(5) + Done(6)

Awaited ==
  LET completed == sems["completed"]
  IN  /\ sems = [s \in {"completed"} |-> completed]
      /\ completed \in [count : Int, waiting : {<<>>, <<Main>>}]
      /\ created \in 0 .. NumProcs /\ (pc[Main] = "create" <=> created # NumProcs)
      /\ pc[Main] # "ended" => completed.waiting = <<>>
      /\ completed.waiting = <<>> /\ pc[Main] = "ended" => Signalled = 6
      /\ completed.waiting = <<>> /\ pc[Main] # "ended" => completed.count = Signalled - 5
      /\ completed.waiting = <<Main>> => completed.count = Signalled - 5 /\ Signalled < 6

EndInv == Argued /\ Balanced /\ Looping /\ Awaited

\* What depends on the variables krypton and the loops leave alone.
LEMMA TimesAre ==
  ASSUME Argued
  PROVE  /\ \A p \in Workers : Times(p) \in Nat
         /\ Times(1) = args.num_n /\ Times(2) = args.num_o
         /\ Times(3) = args.num_n \div 2 /\ Times(4) = args.num_o \div 2
         /\ Times(5) = args.est.no2 /\ Times(6) = args.est.o3
         /\ args.est.no2 =< args.num_n \div 2
         /\ 2 * args.est.no2 + 3 * args.est.o3 =< args.num_o \div 2
<1>1. /\ args.num_n \in Nat /\ args.num_o \in Nat /\ args.temperature \in Int
      /\ args.est.no2 \in Nat /\ args.est.o3 \in Nat
      /\ args.est.no2 =< args.num_n \div 2
      /\ 2 * args.est.no2 + 3 * args.est.o3 =< args.num_o \div 2
      /\ args.temperature > 120 => args.est.no2 = 0
      /\ args.temperature < 60 => args.est.o3 = 0
  <2> DEFINE a == args.num_n
             b == args.num_o
             t == args.temperature
             e == args.est
  <2>1. a \in Nat /\ b \in Nat /\ t \in Int /\ e = Estimate(a, b, t)
    BY DEF Argued
  <2> HIDE DEF a, b, t, e
  <2>2. /\ e.no2 \in Nat /\ e.o3 \in Nat
        /\ e.no2 =< a \div 2 /\ 2 * e.no2 + 3 * e.o3 =< b \div 2
        /\ t > 120 => e.no2 = 0
        /\ t < 60 => e.o3 = 0
    BY <2>1, EstimateFits
  <2> QED BY <2>1, <2>2 DEF a, b, t, e
<1>2. /\ Times(1) = args.num_n /\ Times(2) = args.num_o
      /\ Times(3) = args.num_n \div 2 /\ Times(4) = args.num_o \div 2
      /\ Times(5) = args.est.no2 /\ Times(6) = args.est.o3
  <2>1. /\ Times(1) = args.num_n /\ Times(2) = args.num_o
        /\ Times(3) = args.num_n \div 2 /\ Times(4) = args.num_o \div 2
        /\ Times(5) = IF args.temperature > 120 THEN 0 ELSE args.est.no2
        /\ Times(6) = IF args.temperature < 60 THEN 0 ELSE args.est.o3
    BY Names DEF Times
  <2> QED BY <1>1, <2>1
<1>3. args.num_n \div 2 \in Nat /\ args.num_o \div 2 \in Nat
  BY <1>1
<1>4. \A p \in Workers : Times(p) \in Nat
  BY <1>1, <1>2, <1>3, Names
<1> QED BY <1>1, <1>2, <1>4

LEMMA DoneKept ==
  ASSUME \A p \in Workers : pc'[p] = "ended" <=> pc[p] = "ended"
  PROVE  Signalled' = Signalled
BY Names DEF Signalled, Done

\* One more has signalled.
LEMMA OneMoreDone ==
  ASSUME NEW p \in Workers, pc[p] # "ended", pc'[p] = "ended",
         \A q \in Workers \ {p} : pc'[q] = pc[q]
  PROVE  Signalled' = Signalled + 1 /\ Signalled \in 0 .. 5
<1>1. /\ \A q \in Workers : Done(q) \in {0, 1}
      /\ Done(p) = 0 /\ Done(p)' = 1 /\ \A q \in Workers \ {p} : Done(q)' = Done(q)
  BY DEF Done
<1>2. Workers = {1, 2, 3, 4, 5, 6}
  BY Names
<1> QED BY <1>1, <1>2 DEF Signalled

LEMMA SignalledAll ==
  /\ Signalled \in 0 .. 6
  /\ Signalled = 6 <=> \A p \in Workers : pc[p] = "ended"
<1>1. \A q \in Workers : Done(q) \in {0, 1} /\ (Done(q) = 1 <=> pc[q] = "ended")
  BY DEF Done
<1>2. Workers = {1, 2, 3, 4, 5, 6}
  BY Names
<1> QED BY <1>1, <1>2 DEF Signalled

\* A step of p in its loop that changes no counter.
LEMMA TurnGoesOn ==
  ASSUME Q5Inv, EndInv, NEW p \in Workers, NEW w \in InSection \cup {"woken"}, Goto(p, w),
         pc[p] # "ended", i[p] < Times(p), UNCHANGED <<sems, created, args, stat, i>>
  PROVE  EndInv'
<1>1. w \in WorkerSteps /\ w # "ended"
  BY DEF WorkerSteps, InSection
<1>2. pc'[p] = w /\ (\A q \in Workers \ {p} : pc'[q] = pc[q]) /\ pc'[Main] = pc[Main]
  <2>1. Main \notin Workers /\ Main \in Procs /\ pc \in [Procs -> WorkerSteps \cup MainSteps]
    BY Names DEF Q5Inv, Typed, Procs
  <2>2. pc' = [pc EXCEPT ![p] = w]
    BY DEF Goto
  <2> QED BY <1>1, <2>1, <2>2, Gone DEF Q5Inv
<1>3. Argued' /\ Balanced'
  BY DEF EndInv, Argued, Balanced
<1>4. Looping'
  <2> SUFFICES ASSUME NEW q \in Workers
               PROVE  /\ i'[q] =< Times(q)'
                      /\ pc'[q] \in InSection \cup {"woken"} => i'[q] < Times(q)'
                      /\ pc'[q] = "ended" => i'[q] = Times(q)'
    BY DEF Looping, InSection
  <2>1. Times(q)' = Times(q) /\ i'[q] = i[q]
    BY DEF Times
  <2> QED BY <1>1, <1>2, <2>1 DEF EndInv, Looping
<1>5. Awaited'
  <2>1. Signalled' = Signalled
    BY <1>1, <1>2, DoneKept
  <2> QED BY <1>2, <2>1 DEF EndInv, Awaited
<1> QED BY <1>3, <1>4, <1>5 DEF EndInv

\* Where p is in its loop.
LEMMA EnterEnd ==
  ASSUME Q5Inv, EndInv, NEW p \in Workers,
         Enter(p) \/ WaitUntilReady(p) \/ WokenUp(p) \/ Load(p)
  PROVE  EndInv'
<1>1. CASE Enter(p)
  <2>1. /\ At(p, "loop") /\ i[p] < Times(p) /\ Goto(p, "test")
        /\ UNCHANGED <<sems, created, args, stat, i>>
    BY <1>1 DEF Enter, reactionVars
  <2>2. pc[p] = "loop" /\ "test" \in InSection
    BY <2>1 DEF At, InSection
  <2> QED BY <2>1, <2>2, TurnGoesOn
<1>2. CASE WaitUntilReady(p)
  <2>1. At(p, "test") /\ Goto(p, "woken") /\ UNCHANGED <<sems, created, args, stat, i>>
    BY <1>2 DEF WaitUntilReady, reactionVars
  <2>2. pc[p] = "test" /\ i[p] < Times(p)
    BY <2>1 DEF At, EndInv, Looping, InSection
  <2> QED BY <2>1, <2>2, TurnGoesOn
<1>3. CASE WokenUp(p)
  <2>1. PICK w \in {"test", "load"} :
          At(p, "woken") /\ Goto(p, w) /\ UNCHANGED <<sems, created, args, stat, i>>
    BY <1>3 DEF WokenUp, reactionVars
  <2>2. pc[p] = "woken" /\ i[p] < Times(p) /\ w \in InSection
    BY <2>1 DEF At, EndInv, Looping, InSection
  <2> QED BY <2>1, <2>2, TurnGoesOn
<1>4. CASE Load(p)
  <2>1. /\ At(p, "load") \/ At(p, "test")
        /\ Goto(p, "store") /\ UNCHANGED <<sems, created, args, stat, i>>
    BY <1>4 DEF Load
  <2>2. pc[p] \in {"load", "test"} /\ i[p] < Times(p) /\ "store" \in InSection
    BY <2>1 DEF At, EndInv, Looping, InSection
  <2> QED BY <2>1, <2>2, TurnGoesOn
<1> QED BY <1>1, <1>2, <1>3, <1>4

LEMMA StoreEnd ==
  ASSUME Q5Inv, EndInv, NEW p \in Workers, StoreAndRelease(p)
  PROVE  EndInv'
<1>1. /\ pc[p] = "store" /\ Goto(p, "loop") /\ UNCHANGED <<sems, created, args>>
  BY DEF StoreAndRelease, At
<1>2. pc'[p] = "loop" /\ (\A q \in Workers \ {p} : pc'[q] = pc[q]) /\ pc'[Main] = pc[Main]
  <2>1. Main \notin Workers /\ Main \in Procs /\ pc \in [Procs -> WorkerSteps \cup MainSteps]
    BY Names DEF Q5Inv, Typed, Procs
  <2>2. pc' = [pc EXCEPT ![p] = "loop"] /\ "loop" \in WorkerSteps
    BY <1>1 DEF Goto, WorkerSteps
  <2> QED BY <1>1, <2>1, <2>2, Gone DEF Q5Inv
<1>3. /\ stat' \in [Counters -> Int] /\ i' = [i EXCEPT ![p] = @ + 1]
      /\ \A m \in Counters : stat'[m] = IF m \in DOMAIN Yields(p)
                                        THEN stat[m] + Yields(p)[m] ELSE stat[m]
      /\ stat \in [Counters -> Int] /\ i \in [Workers -> Int]
  BY TurnCounts DEF Q5Inv, Typed
<1>4. Argued'
  BY <1>1 DEF EndInv, Argued
<1>5. Balanced'
  <2>1. /\ stat.n \in Int /\ stat.o \in Int /\ stat.n2 \in Int /\ stat.o2 \in Int
        /\ stat.no2 \in Int /\ stat.o3 \in Int
        /\ i[1] \in Int /\ i[2] \in Int /\ i[3] \in Int /\ i[4] \in Int /\ i[5] \in Int /\ i[6] \in Int
    BY <1>3, Names DEF Counters
  <2>2. /\ i'[1] = (IF p = 1 THEN i[1] + 1 ELSE i[1]) /\ i'[2] = (IF p = 2 THEN i[2] + 1 ELSE i[2])
        /\ i'[3] = (IF p = 3 THEN i[3] + 1 ELSE i[3]) /\ i'[4] = (IF p = 4 THEN i[4] + 1 ELSE i[4])
        /\ i'[5] = (IF p = 5 THEN i[5] + 1 ELSE i[5]) /\ i'[6] = (IF p = 6 THEN i[6] + 1 ELSE i[6])
    BY <1>3, Names
  <2>3. \/ /\ p = 1 /\ stat'.n = stat.n + 1 /\ stat'.o = stat.o /\ stat'.n2 = stat.n2
           /\ stat'.o2 = stat.o2 /\ stat'.no2 = stat.no2 /\ stat'.o3 = stat.o3
        \/ /\ p = 2 /\ stat'.n = stat.n /\ stat'.o = stat.o + 1 /\ stat'.n2 = stat.n2
           /\ stat'.o2 = stat.o2 /\ stat'.no2 = stat.no2 /\ stat'.o3 = stat.o3
        \/ /\ p = 3 /\ stat'.n = stat.n - 2 /\ stat'.o = stat.o /\ stat'.n2 = stat.n2 + 1
           /\ stat'.o2 = stat.o2 /\ stat'.no2 = stat.no2 /\ stat'.o3 = stat.o3
        \/ /\ p = 4 /\ stat'.n = stat.n /\ stat'.o = stat.o - 2 /\ stat'.n2 = stat.n2
           /\ stat'.o2 = stat.o2 + 1 /\ stat'.no2 = stat.no2 /\ stat'.o3 = stat.o3
        \/ /\ p = 5 /\ stat'.n = stat.n /\ stat'.o = stat.o /\ stat'.n2 = stat.n2 - 1
           /\ stat'.o2 = stat.o2 - 2 /\ stat'.no2 = stat.no2 + 2 /\ stat'.o3 = stat.o3
        \/ /\ p = 6 /\ stat'.n = stat.n /\ stat'.o = stat.o /\ stat'.n2 = stat.n2
           /\ stat'.o2 = stat.o2 - 3 /\ stat'.no2 = stat.no2 /\ stat'.o3 = stat.o3 + 2
    BY <1>3, <2>1, Names, YieldsAre DEF Counters
  <2>4. /\ stat.n = i[1] - 2 * i[3] /\ stat.o = i[2] - 2 * i[4] /\ stat.n2 = i[3] - i[5]
        /\ stat.o2 = i[4] - 2 * i[5] - 3 * i[6] /\ stat.no2 = 2 * i[5] /\ stat.o3 = 2 * i[6]
    BY Names DEF EndInv, Balanced
  <2>5. stat'.n = i'[1] - 2 * i'[3] /\ stat'.o = i'[2] - 2 * i'[4]
    BY <2>1, <2>2, <2>3, <2>4
  <2>6. stat'.n2 = i'[3] - i'[5] /\ stat'.no2 = 2 * i'[5] /\ stat'.o3 = 2 * i'[6]
    BY <2>1, <2>2, <2>3, <2>4
  <2>7. stat'.o2 = i'[4] - 2 * i'[5] - 3 * i'[6]
    <3>1. CASE p \in {1, 2, 3}
      BY <2>1, <2>2, <2>3, <2>4, <3>1
    <3>2. CASE p = 4
      <4>1. stat'.o2 = stat.o2 + 1 /\ i'[4] = i[4] + 1 /\ i'[5] = i[5] /\ i'[6] = i[6]
        BY <2>2, <2>3, <3>2
      <4> QED BY <2>1, <2>4, <4>1
    <3>3. CASE p = 5
      <4>1. stat'.o2 = stat.o2 - 2 /\ i'[4] = i[4] /\ i'[5] = i[5] + 1 /\ i'[6] = i[6]
        BY <2>2, <2>3, <3>3
      <4> QED BY <2>1, <2>4, <4>1
    <3>4. CASE p = 6
      <4>1. stat'.o2 = stat.o2 - 3 /\ i'[4] = i[4] /\ i'[5] = i[5] /\ i'[6] = i[6] + 1
        BY <2>2, <2>3, <3>4
      <4> QED BY <2>1, <2>4, <4>1
    <3> QED BY <2>3, <3>1, <3>2, <3>3, <3>4
  <2> QED BY <2>5, <2>6, <2>7, Names DEF Balanced
<1>6. Looping'
  <2> SUFFICES ASSUME NEW q \in Workers
               PROVE  /\ i'[q] =< Times(q)'
                      /\ pc'[q] \in InSection \cup {"woken"} => i'[q] < Times(q)'
                      /\ pc'[q] = "ended" => i'[q] = Times(q)'
    BY DEF Looping, InSection
  <2>1. Times(q)' = Times(q) /\ Times(q) \in Nat
    BY <1>1, TimesAre DEF Times, EndInv
  <2>2. CASE q = p
    <3>1. i[p] < Times(p) /\ i'[p] = i[p] + 1 /\ i[p] \in Int
      BY <1>1, <1>3 DEF EndInv, Looping, InSection
    <3> QED BY <1>2, <2>1, <2>2, <3>1 DEF InSection
  <2>3. CASE q # p
    BY <1>2, <1>3, <2>1, <2>3 DEF EndInv, Looping
  <2> QED BY <2>2, <2>3
<1>7. Awaited'
  <2>1. Signalled' = Signalled
    BY <1>1, <1>2, DoneKept
  <2> QED BY <1>1, <1>2, <2>1 DEF EndInv, Awaited
<1> QED BY <1>4, <1>5, <1>6, <1>7 DEF EndInv

LEMMA CompleteEnd ==
  ASSUME Q5Inv, EndInv, NEW p \in Workers, Complete(p)
  PROVE  EndInv'
<1>1. /\ pc[p] = "loop" /\ i[p] >= Times(p) /\ Goto(p, "ended")
      /\ sems' = [sems EXCEPT !["completed"] = SemSignal(@)]
      /\ UNCHANGED <<created, args, stat, i>>
  BY DEF Complete, SignalCompletion, At, Signal, reactionVars
<1>2. pc'[p] = "ended" /\ (\A q \in Workers \ {p} : pc'[q] = pc[q]) /\ pc'[Main] = pc[Main]
  <2>1. Main \notin Workers /\ Main \in Procs /\ pc \in [Procs -> WorkerSteps \cup MainSteps]
    BY Names DEF Q5Inv, Typed, Procs
  <2>2. pc' = [pc EXCEPT ![p] = "ended"] /\ "ended" \in WorkerSteps
    BY <1>1 DEF Goto, WorkerSteps
  <2> QED BY <1>1, <2>1, <2>2, Gone DEF Q5Inv
<1>3. Argued' /\ Balanced'
  BY <1>1 DEF EndInv, Argued, Balanced
<1>4. Looping'
  <2> SUFFICES ASSUME NEW q \in Workers
               PROVE  /\ i'[q] =< Times(q)'
                      /\ pc'[q] \in InSection \cup {"woken"} => i'[q] < Times(q)'
                      /\ pc'[q] = "ended" => i'[q] = Times(q)'
    BY DEF Looping, InSection
  <2>1. Times(q)' = Times(q) /\ i'[q] = i[q] /\ Times(q) \in Nat /\ i[q] \in Int
    BY <1>1, TimesAre DEF Times, EndInv, Q5Inv, Typed
  <2>2. i[q] =< Times(q) /\ (q # p => pc'[q] = pc[q])
    BY <1>2 DEF EndInv, Looping
  <2>3. CASE q = p
    BY <1>1, <1>2, <2>1, <2>2, <2>3 DEF InSection
  <2>4. CASE q # p
    BY <2>1, <2>2, <2>4 DEF EndInv, Looping
  <2> QED BY <2>3, <2>4
<1>5. Awaited'
  <2> DEFINE c == sems["completed"]
             d == SemSignal(c)
  <2>1. Signalled' = Signalled + 1 /\ Signalled \in 0 .. 5
    BY <1>1, <1>2, OneMoreDone
  <2>2. /\ sems' = [s \in {"completed"} |-> d] /\ c.count \in Int
        /\ c.waiting \in {<<>>, <<Main>>} /\ c = [count |-> c.count, waiting |-> c.waiting]
    <3>1. sems = [s \in {"completed"} |-> c] /\ c \in [count : Int, waiting : {<<>>, <<Main>>}]
      BY DEF EndInv, Awaited
    <3> QED BY <1>1, <3>1
  <2>3. sems'["completed"] = d
    BY <2>2
  <2>4. /\ created' \in 0 .. NumProcs /\ (pc'[Main] = "create" <=> created' # NumProcs)
        /\ pc[Main] # "ended" => c.waiting = <<>>
        /\ c.waiting = <<>> /\ pc[Main] = "ended" => Signalled = 6
        /\ c.waiting = <<>> /\ pc[Main] # "ended" => c.count = Signalled - 5
        /\ c.waiting = <<Main>> => c.count = Signalled - 5 /\ Signalled < 6
    BY <1>1, <1>2 DEF EndInv, Awaited
  <2>5. CASE c.waiting = <<>>
    <3>1. d = [count |-> c.count + 1, waiting |-> <<>>]
      BY <2>2, <2>5 DEF SemSignal, SemWakes
    <3>2. pc[Main] # "ended" /\ c.count = Signalled - 5
      BY <2>1, <2>4, <2>5
    <3>3. <<Main>> # <<>>
      OBVIOUS
    <3> HIDE DEF c, d
    <3>4. d \in [count : Int, waiting : {<<>>, <<Main>>}] /\ d.count = Signalled' - 5
      BY <2>1, <2>2, <3>1, <3>2
    <3> QED BY <1>2, <2>2, <2>3, <2>4, <3>1, <3>2, <3>3, <3>4 DEF Awaited
  <2>6. CASE c.waiting = <<Main>>
    <3>1. /\ c.count = Signalled - 5 /\ <<Main>> # <<>> /\ Tail(<<Main>>) = <<>>
          /\ pc[Main] = "ended"
      BY <2>4, <2>6
    <3>2. CASE Signalled = 5
      <4>1. d = [count |-> c.count, waiting |-> <<>>]
        BY <2>2, <2>6, <3>1, <3>2 DEF SemSignal, SemWakes
      <4> HIDE DEF c, d
      <4>2. d \in [count : Int, waiting : {<<>>, <<Main>>}] /\ d.waiting = <<>> /\ Signalled' = 6
        BY <2>1, <2>2, <3>2, <4>1
      <4> QED BY <1>2, <2>2, <2>3, <2>4, <3>1, <4>2 DEF Awaited
    <3>3. CASE Signalled < 5
      <4>1. ~SemWakes(c)
        BY <2>1, <2>2, <3>1, <3>3 DEF SemWakes
      <4>2. d = [count |-> c.count + 1, waiting |-> <<Main>>]
        BY <2>2, <2>6, <4>1 DEF SemSignal
      <4> HIDE DEF c, d
      <4>3. /\ d \in [count : Int, waiting : {<<>>, <<Main>>}] /\ d.waiting = <<Main>>
            /\ d.count = Signalled' - 5 /\ Signalled' < 6
        BY <2>1, <2>2, <3>1, <3>3, <4>2
      <4> QED BY <1>2, <2>2, <2>3, <2>4, <3>1, <4>3 DEF Awaited
    <3> QED BY <2>1, <3>2, <3>3
  <2> QED BY <2>2, <2>5, <2>6
<1> QED BY <1>3, <1>4, <1>5 DEF EndInv

LEMMA FirstEnd ==
  ASSUME Q5Inv, EndInv, First
  PROVE  EndInv'
<1>1. UNCHANGED <<args, stat, i>>
  BY DEF First, reactionVars
<1>2. /\ Main \notin Workers /\ Main \in Procs /\ pc \in [Procs -> WorkerSteps \cup MainSteps]
      /\ NumProcs = 6 /\ Workers \subseteq Procs
  BY Names, SixProcesses DEF Q5Inv, Typed, Procs
<1>3. \A q \in Workers : pc'[q] = pc[q]
  <2>1. PICK w : pc' = [pc EXCEPT ![Main] = w]
    BY DEF First, MainStep, CreateNext, FinalWait, Goto
  <2> QED BY <1>2, <2>1
<1>4. Argued' /\ Balanced'
  BY <1>1 DEF EndInv, Argued, Balanced
<1>5. Looping'
  <2>1. \A q \in Workers : Times(q)' = Times(q)
    BY <1>1 DEF Times
  <2> QED BY <1>1, <1>3, <2>1 DEF EndInv, Looping
<1>6. Signalled' = Signalled
  BY <1>3, DoneKept
<1>7. Awaited'
  <2> DEFINE c == sems["completed"]
  <2>1. /\ sems = [s \in {"completed"} |-> c] /\ c \in [count : Int, waiting : {<<>>, <<Main>>}]
        /\ created \in 0 .. NumProcs /\ (pc[Main] = "create" <=> created # NumProcs)
        /\ pc[Main] # "ended" => c.waiting = <<>> /\ c.count = Signalled - 5
    BY DEF EndInv, Awaited
  <2>2. CASE CreateNext
    <3>1. /\ pc[Main] = "create" /\ created < NumProcs /\ created' = created + 1
          /\ pc' = [pc EXCEPT ![Main] = IF created + 1 = NumProcs THEN "wait" ELSE "create"]
          /\ UNCHANGED sems
      BY <2>2 DEF CreateNext, At, Goto
    <3>2. /\ created' \in 0 .. NumProcs
          /\ pc'[Main] = IF created' = NumProcs THEN "wait" ELSE "create"
      BY <1>2, <2>1, <3>1
    <3>3. <<Main>> # <<>>
      OBVIOUS
    <3> QED BY <1>6, <2>1, <3>1, <3>2, <3>3 DEF Awaited
  <2>3. CASE FinalWait
    <3>1. /\ pc[Main] = "wait" /\ UNCHANGED created /\ pc' = [pc EXCEPT ![Main] = "ended"]
          /\ sems' = [sems EXCEPT !["completed"] = SemWait(@, Main)]
      BY <2>3 DEF FinalWait, At, Goto, Wait
    <3> DEFINE d == SemWait(c, Main)
    <3>2. /\ sems' = [s \in {"completed"} |-> d] /\ c.count \in Int /\ c.waiting = <<>>
          /\ c = [count |-> c.count, waiting |-> <<>>] /\ c.count = Signalled - 5
      BY <2>1, <3>1
    <3>3. sems'["completed"] = d /\ pc'[Main] = "ended" /\ created = NumProcs
      BY <1>2, <2>1, <3>1, <3>2
    <3>4. Signalled \in 0 .. 6
      BY SignalledAll
    <3>5. Append(<<>>, Main) = <<Main>> /\ <<Main>> # <<>>
      OBVIOUS
    <3>6. CASE c.count <= 0
      <4>1. d = [count |-> c.count, waiting |-> <<Main>>]
        BY <3>2, <3>5, <3>6 DEF SemWait, SemBlocks
      <4> HIDE DEF c, d
      <4>2. /\ d \in [count : Int, waiting : {<<>>, <<Main>>}] /\ d.waiting = <<Main>>
            /\ d.count = Signalled' - 5 /\ Signalled' < 6
        BY <1>6, <3>2, <3>4, <3>6, <4>1
      <4> QED BY <2>1, <3>1, <3>2, <3>3, <3>5, <4>2 DEF Awaited
    <3>7. CASE c.count > 0
      <4>1. d = [count |-> c.count - 1, waiting |-> <<>>]
        BY <3>2, <3>7 DEF SemWait, SemBlocks
      <4> HIDE DEF c, d
      <4>2. d \in [count : Int, waiting : {<<>>, <<Main>>}] /\ d.waiting = <<>> /\ Signalled' = 6
        BY <1>6, <3>2, <3>4, <3>7, <4>1
      <4> QED BY <2>1, <3>1, <3>2, <3>3, <3>5, <4>2 DEF Awaited
    <3> QED BY <3>2, <3>6, <3>7
  <2> QED BY <2>2, <2>3 DEF First, MainStep
<1> QED BY <1>4, <1>5, <1>7 DEF EndInv

LEMMA NextEnd == Q5Inv /\ EndInv /\ [Next]_vars => EndInv'
<1> SUFFICES ASSUME Q5Inv, EndInv, [Next]_vars PROVE EndInv'
  OBVIOUS
<1>1. CASE First
  BY <1>1, FirstEnd
<1>2. CASE \E p \in Workers : Worker(p)
  <2>1. PICK p \in Workers : Worker(p)
    BY <1>2
  <2> QED BY <2>1, EnterEnd, StoreEnd, CompleteEnd DEF Worker
<1>3. CASE UNCHANGED vars
  <2>1. UNCHANGED <<args, stat, i, pc, sems, created>>
    BY <1>3 DEF vars, appVars, reactionVars
  <2>2. \A q \in Workers : Times(q)' = Times(q)
    BY <2>1 DEF Times
  <2>3. Signalled' = Signalled
    BY <2>1, DoneKept
  <2>4. Argued' /\ Balanced'
    BY <2>1 DEF EndInv, Argued, Balanced
  <2>5. Looping'
    BY <2>1, <2>2 DEF EndInv, Looping
  <2>6. Awaited'
    BY <2>1, <2>3 DEF EndInv, Awaited
  <2> QED BY <2>4, <2>5, <2>6 DEF EndInv
<1> QED BY <1>1, <1>2, <1>3 DEF Next

LEMMA InitEnd == Init => EndInv
<1> SUFFICES ASSUME Init PROVE EndInv
  OBVIOUS
<1>1. /\ stat = [n |-> 0, o |-> 0, n2 |-> 0, o2 |-> 0, no2 |-> 0, o3 |-> 0]
      /\ i = [p \in Workers |-> 0] /\ InitApp(<<>>, Reactions, "loop")
  BY DEF Init
<1>2. PICK num_n \in NumNs, num_o \in NumOs, temperature \in Temperatures :
        args = [num_n |-> num_n, num_o |-> num_o, temperature |-> temperature,
                est |-> Estimate(num_n, num_o, temperature)]
  BY DEF Init
<1>3. Argued
  BY <1>2, ArgsAssumption DEF Argued
<1>4. Balanced
  BY <1>1, Names DEF Balanced
<1>5. /\ sems = [s \in {"completed"} |-> Completed] /\ created = 0
      /\ pc = [p \in Procs |-> IF p = Main THEN "create" ELSE "loop"]
  BY <1>1 DEF InitApp
<1>6. pc[Main] = "create" /\ \A p \in Workers : pc[p] = "loop"
  BY <1>5, Names DEF Procs
<1>7. Looping
  <2>1. \A p \in Workers : Times(p) \in Nat /\ i[p] = 0
    BY <1>1, <1>3, TimesAre
  <2> QED BY <1>6, <2>1 DEF Looping, InSection
<1>8. Awaited
  <2>1. Completed = [count |-> -5, waiting |-> <<>>]
    BY SixProcesses DEF Completed, NewSem
  <2>2. Signalled = 0
    BY <1>6, Names DEF Signalled, Done
  <2>3. <<Main>> # <<>>
    OBVIOUS
  <2> QED BY <1>5, <1>6, <2>1, <2>2, <2>3, SixProcesses DEF Awaited
<1> QED BY <1>3, <1>4, <1>7, <1>8 DEF EndInv

-----------------------------------------------------------------------------
\* What is left when nobody can go on.

\* Who stands in which queue.
LEMMA AsleepMeans ==
  ASSUME Q5Inv, EndInv
  PROVE  /\ Asleep(Main) => sems["completed"].waiting = <<Main>>
         /\ \A p \in Workers : Asleep(p) => \/ p \in ToSet(lock.waiting)
                                            \/ p \in Reactions /\ conds[p] = <<p>>
         /\ sems["completed"].waiting = <<>> => ~Asleep(Main)
<1>1. lock.waiting \in Seq(Workers) /\ DOMAIN conds = Reactions /\ DOMAIN sems = {"completed"}
  BY DEF Q5Inv, EndInv, Excluded, LockSound, OwnConditions, Awaited
<1>2. sems["completed"].waiting \in {<<>>, <<Main>>} /\ \A q : ~Contains(<<>>, q)
  BY DEF EndInv, Awaited, Contains
<1>3. \A q, r : Contains(<<q>>, r) => r = q
  BY DEF Contains
<1>4. Main \notin Workers /\ Main \notin Reactions
  BY Names
<1>5. \A q : Contains(lock.waiting, q) => q \in ToSet(lock.waiting)
  BY <1>1 DEF Contains, ToSet
<1>6. ToSet(lock.waiting) \subseteq Workers
  BY <1>1 DEF ToSet
<1>7. \A r \in Reactions : conds[r] = <<>> \/ conds[r] = <<r>>
  BY DEF Q5Inv, OwnConditions
<1>8. Asleep(Main) => sems["completed"].waiting = <<Main>>
  <2>1. ~Contains(lock.waiting, Main) /\ \A c \in DOMAIN conds : ~Contains(conds[c], Main)
    <3>1. Main \notin ToSet(lock.waiting)
      BY <1>4, <1>6
    <3>2. \A r \in Reactions : ~Contains(conds[r], Main)
      BY <1>2, <1>3, <1>4, <1>7
    <3> QED BY <1>1, <1>5, <3>1, <3>2
  <2> QED BY <1>1, <1>2, <2>1 DEF Asleep
<1>9. ASSUME NEW p \in Workers, Asleep(p)
      PROVE  p \in ToSet(lock.waiting) \/ (p \in Reactions /\ conds[p] = <<p>>)
  <2>1. ~Contains(sems["completed"].waiting, p)
    BY <1>2, <1>3, <1>4
  <2>2. Contains(lock.waiting, p) \/ \E c \in Reactions : Contains(conds[c], p)
    BY <1>1, <1>9, <2>1 DEF Asleep
  <2>3. ASSUME NEW c \in Reactions, Contains(conds[c], p) PROVE p = c /\ conds[p] = <<p>>
    BY <1>2, <1>3, <1>7, <2>3
  <2> QED BY <1>5, <2>2, <2>3
<1>10. <<Main>> # <<>>
  OBVIOUS
<1> QED BY <1>8, <1>9, <1>10

\* When no process can go on, all have been created and nobody has the lock: those
\* that have not ended are reactions that wait for molecules that are not there.
LEMMA Stuck ==
  ASSUME Q5Inv, EndInv, \A p \in Procs : Ended(p) \/ Asleep(p) \/ p > created
  PROVE  /\ created = NumProcs
         /\ \A p \in Workers :
              \/ pc[p] = "ended" /\ i[p] = Times(p)
              \/ p \in Reactions /\ i[p] < Times(p) /\ ~Ready(p)
<1>1. /\ Main \in Procs /\ Workers \subseteq Procs /\ Main = 0 /\ NumProcs = 6
      /\ Workers = {1, 2, 3, 4, 5, 6} /\ <<Main>> # <<>>
  BY Names, SixProcesses DEF Procs
<1>2. created = NumProcs
  <2>1. /\ created \in 0 .. NumProcs /\ (pc[Main] = "create" <=> created # NumProcs)
        /\ pc[Main] # "ended" => sems["completed"].waiting = <<>>
    BY DEF EndInv, Awaited
  <2>2. ASSUME pc[Main] = "create" PROVE FALSE
    <3>1. ~Ended(Main) /\ ~(Main > created)
      BY <1>1, <2>1, <2>2 DEF Ended, At
    <3>2. ~Asleep(Main)
      BY <2>1, <2>2, AsleepMeans
    <3> QED BY <1>1, <3>1, <3>2
  <2> QED BY <2>1, <2>2
<1>3. \A p \in Workers : pc[p] = "ended" \/ Asleep(p)
  <2>1. \A p \in Workers : ~(p > created)
    BY <1>1, <1>2
  <2> QED BY <1>1, <2>1 DEF Ended, At
<1>4. /\ lock.waiting \in Seq(Workers) /\ lock.pid \notin ToSet(lock.waiting)
      /\ lock.waiting # <<>> => lock.pid \in Workers
      /\ \A p \in Workers : pc[p] \in InSection <=> p \in Inside(lock)
  BY DEF Q5Inv, Excluded, LockSound
<1>5. \A p \in Reactions : conds[p] = <<p>> => pc[p] = "woken" /\ conds[p] # <<>>
  <2>1. \A p \in Reactions : <<p>> # <<>>
    OBVIOUS
  <2> QED BY <2>1 DEF Q5Inv, OwnConditions
<1>6. lock.pid \notin Workers
  <2> SUFFICES ASSUME lock.pid \in Workers PROVE FALSE
    OBVIOUS
  <2>1. pc[lock.pid] \in InSection
    BY <1>1, <1>4 DEF Inside, NoOwner
  <2>2. pc[lock.pid] \notin {"ended", "woken"}
    BY <2>1 DEF InSection
  <2> QED BY <1>3, <1>4, <1>5, <2>2, AsleepMeans
<1>7. ToSet(lock.waiting) = {}
  BY <1>4, <1>6 DEF ToSet
<1>8. ASSUME NEW p \in Workers
      PROVE  \/ pc[p] = "ended" /\ i[p] = Times(p)
             \/ p \in Reactions /\ i[p] < Times(p) /\ ~Ready(p)
  <2>1. CASE pc[p] = "ended"
    BY <2>1 DEF EndInv, Looping
  <2>2. CASE pc[p] # "ended"
    <3>1. p \in Reactions /\ pc[p] = "woken" /\ conds[p] # <<>>
      BY <1>3, <1>5, <1>7, <2>2, AsleepMeans
    <3>2. ~Ready(p)
      BY <3>1 DEF Q5Inv, NoMissedSignal
    <3> QED BY <3>1, <3>2 DEF EndInv, Looping
  <2> QED BY <2>1, <2>2
<1> QED BY <1>2, <1>8

\* But the molecules are there, since the estimate fits.
LEMMA NotStuck ==
  ASSUME Q5Inv, EndInv, \A p \in Procs : Ended(p) \/ Asleep(p) \/ p > created
  PROVE  \A p \in Workers : pc[p] = "ended"
<1> DEFINE a == args.num_n
           b == args.num_o
           no2 == args.est.no2
           o3 == args.est.o3
<1>1. /\ Times(1) = a /\ Times(2) = b /\ Times(3) = a \div 2 /\ Times(4) = b \div 2
      /\ Times(5) = no2 /\ Times(6) = o3
      /\ no2 =< a \div 2 /\ 2 * no2 + 3 * o3 =< b \div 2
      /\ \A p \in Workers : Times(p) \in Nat
  BY TimesAre DEF EndInv
<1>2. /\ i[1] \in Int /\ i[2] \in Int /\ i[3] \in Int /\ i[4] \in Int /\ i[5] \in Int /\ i[6] \in Int
  BY Names DEF Q5Inv, Typed
<1>3. /\ stat.n = i[1] - 2 * i[3] /\ stat.o = i[2] - 2 * i[4] /\ stat.n2 = i[3] - i[5]
      /\ stat.o2 = i[4] - 2 * i[5] - 3 * i[6]
  BY Names DEF EndInv, Balanced
<1>4. a \in Nat /\ b \in Nat /\ no2 \in Nat /\ o3 \in Nat
  BY <1>1, Names
<1> HIDE DEF a, b, no2, o3
<1>5. \A p \in Workers : pc[p] # "ended" => p \in Reactions /\ i[p] < Times(p) /\ ~Ready(p)
  BY Stuck
<1>6. \A p \in Workers : pc[p] = "ended" => i[p] = Times(p)
  BY Stuck DEF EndInv, Looping
<1>7. pc[1] = "ended" /\ pc[2] = "ended" /\ i[1] = a /\ i[2] = b
  BY <1>1, <1>5, <1>6, Names
<1>8. \A k \in Nat, m \in Int : m < k \div 2 => k - 2 * m >= 2
  OBVIOUS
<1>9. pc[3] = "ended" /\ i[3] = a \div 2
  <2>1. ~(i[3] < a \div 2) \/ Ready(3)
    BY <1>2, <1>3, <1>4, <1>7, <1>8, ReadyMeans
  <2>2. pc[3] = "ended"
    BY <1>1, <1>5, <2>1, Names
  <2> QED BY <1>1, <1>6, <2>2, Names
<1>10. pc[4] = "ended" /\ i[4] = b \div 2
  <2>1. ~(i[4] < b \div 2) \/ Ready(4)
    BY <1>2, <1>3, <1>4, <1>7, <1>8, ReadyMeans
  <2>2. pc[4] = "ended"
    BY <1>1, <1>5, <2>1, Names
  <2> QED BY <1>1, <1>6, <2>2, Names
<1>11. i[5] =< no2 /\ i[6] =< o3
  BY <1>1, Names DEF EndInv, Looping
<1>12. /\ stat.n2 = a \div 2 - i[5] /\ stat.o2 = b \div 2 - 2 * i[5] - 3 * i[6]
       /\ stat.n2 \in Int /\ stat.o2 \in Int
  BY <1>2, <1>3, <1>4, <1>9, <1>10
<1> DEFINE x == a \div 2
           y == b \div 2
<1>13. /\ x \in Int /\ y \in Int /\ no2 =< x /\ 2 * no2 + 3 * o3 =< y
       /\ stat.n2 = x - i[5] /\ stat.o2 = y - 2 * i[5] - 3 * i[6]
  BY <1>1, <1>4, <1>12
<1> HIDE DEF x, y
<1>14. pc[5] = "ended"
  <2>1. i[5] < no2 => stat.n2 >= 1 /\ stat.o2 >= 2
    BY <1>2, <1>4, <1>11, <1>13
  <2> QED BY <1>1, <1>5, <2>1, Names, ReadyMeans
<1>15. pc[6] = "ended"
  <2>1. i[6] < o3 => stat.o2 >= 3
    BY <1>2, <1>4, <1>11, <1>13
  <2> QED BY <1>1, <1>5, <2>1, Names, ReadyMeans
<1> QED BY <1>7, <1>9, <1>10, <1>14, <1>15, Names

LEMMA NobodyAsleep == Q5Inv /\ EndInv => NoneLeftAsleep
<1> SUFFICES ASSUME Q5Inv, EndInv, \A p \in Procs : Ended(p) \/ Asleep(p) \/ p > created,
                    NEW p \in Procs
             PROVE  Ended(p)
  BY DEF NoneLeftAsleep
<1>1. created = NumProcs /\ \A q \in Workers : pc[q] = "ended"
  BY Stuck, NotStuck
<1>2. NumProcs = 6 /\ Workers = {1, 2, 3, 4, 5, 6} /\ Main = 0 /\ p \in {Main} \cup Workers
  BY Names, SixProcesses DEF Procs
<1>3. ~(p > created)
  BY <1>1, <1>2
<1>4. CASE p \in Workers
  <2>1. pc[p] \notin InSection \cup {"woken"}
    BY <1>1, <1>4 DEF InSection
  <2>2. p \notin ToSet(lock.waiting)
    BY <1>4, <2>1 DEF Q5Inv, Excluded, Inside
  <2>3. ~(p \in Reactions /\ conds[p] = <<p>>)
    <3>1. <<p>> # <<>>
      OBVIOUS
    <3> QED BY <2>1, <3>1 DEF Q5Inv, OwnConditions
  <2> QED BY <1>3, <1>4, <2>2, <2>3, AsleepMeans
<1>5. CASE p = Main
  <2>1. Signalled = 6
    BY <1>1, SignalledAll
  <2>2. sems["completed"].waiting # <<Main>>
    BY <2>1 DEF EndInv, Awaited
  <2> QED BY <1>3, <1>5, <2>2, AsleepMeans
<1> QED BY <1>2, <1>4, <1>5

LEMMA YieldReached == Q5Inv /\ EndInv => YieldAsEstimated
<1> SUFFICES ASSUME EndInv, \A p \in Procs : Ended(p)
             PROVE  stat.no2 = 2 * args.est.no2 /\ stat.o3 = 2 * args.est.o3
  BY DEF YieldAsEstimated
<1>1. pc[5] = "ended" /\ pc[6] = "ended" /\ {5, 6} \subseteq Workers
  BY Names DEF Procs, Ended, At
<1>2. i[5] = Times(5) /\ i[6] = Times(6)
  BY <1>1 DEF EndInv, Looping
<1>3. i[5] = args.est.no2 /\ i[6] = args.est.o3
  BY <1>2, TimesAre DEF EndInv
<1> QED BY <1>3, Names DEF EndInv, Balanced

-----------------------------------------------------------------------------
\* In every state of q5, for all arguments of krypton: producer.c's and reaction.c's
\* critical sections exclude each other, only reaction r waits on condition r, and
\* what a reaction of the first two was woken for is still there.
THEOREM Q5Sound == Spec => []Q5Inv
BY InitInv, NextInv, PTL DEF Spec

\* No run of q5 loses or makes atoms, though a counter is loaded in one step and
\* stored in another.
THEOREM AtomsStay == Spec => []AtomsConserved
<1>1. Q5Inv => AtomsConserved
  BY DEF Q5Inv
<1> QED BY <1>1, Q5Sound, PTL

\* No counter of q5 becomes negative, though the first two reactions do not test
\* again after cond_wait.
THEOREM MoleculesSuffice == Spec => []EnoughMolecules
<1>1. Q5Inv => EnoughMolecules
  BY DEF Q5Inv
<1> QED BY <1>1, Q5Sound, PTL

\* No reaction of q5 sleeps on a condition that holds: each turn that makes one
\* ready signals its condition.
THEOREM SignalsArrive == Spec => []NoMissedSignal
<1>1. Q5Inv => NoMissedSignal
  BY DEF Q5Inv
<1> QED BY <1>1, Q5Sound, PTL

\* The loops of all processes of q5 end together: no counter differs from what the
\* turns so far have made of it, a process in its loop has turns left, and the
\* first one waits for exactly those that have not signalled yet.
THEOREM LoopsBalance == Spec => [](Q5Inv /\ EndInv)
<1>1. Init => Q5Inv /\ EndInv
  BY InitInv, InitEnd
<1>2. Q5Inv /\ EndInv /\ [Next]_vars => (Q5Inv /\ EndInv)'
  BY NextInv, NextEnd
<1> QED BY <1>1, <1>2, PTL DEF Spec

\* For all arguments of krypton, no run of q5 ends with a reaction asleep for want
\* of molecules, whichever order the last two reactions take their turns in.
THEOREM NobodyLeftAsleep == Spec => []NoneLeftAsleep
BY LoopsBalance, NobodyAsleep, PTL

\* What all runs of q5 leave is what krypton estimated.
THEOREM YieldIsReached == Spec => []YieldAsEstimated
BY LoopsBalance, YieldReached, PTL
=============================================================================
