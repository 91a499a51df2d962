---------------------------- MODULE Q5Atmosphere ----------------------------
(***************************************************************************)
(* src/apps/q5: two producers of atoms and four reactions on counters in a *)
(* shared page, each reaction waiting on a condition variable of its own.  *)
(*                                                                         *)
(*   reaction 1: N + N -> N2         reaction 3: N2 + 2 O2 -> 2 NO2        *)
(*   reaction 2: O + O -> O2         reaction 4: 3 O2 -> 2 O3              *)
(***************************************************************************)
EXTENDS AppProcess

CONSTANTS NumNs, NumOs, Temperatures   \* the arguments krypton may be given

ASSUME SixProcesses == NumProcs = 6
ASSUME ArgsAssumption == NumNs \cup NumOs \subseteq Nat /\ Temperatures \subseteq Int

VARIABLES args,   \* the arguments of this run, and what krypton makes of them
          stat,   \* the shared atmosphere_stat
          seen,   \* the counters as the process that changes them has loaded them
          i       \* the loop variable of each process

reactionVars == <<args, stat, seen, i>>
vars == <<appVars, reactionVars>>

\* In the order in which krypton creates them.
ProducerN == 1
ProducerO == 2
Reaction1 == 3
Reaction2 == 4
Reaction3 == 5
Reaction4 == 6
Reactions == Reaction1 .. Reaction4

\* krypton's estimate: how often reactions 3 and 4 take place, when they take turns
\* as long as they can.
Estimates == [n2 : Nat, o2 : Nat, no2 : Nat, o3 : Nat]

CanMakeNO2(e, temperature) == e.n2 > 0 /\ e.o2 > 1 /\ temperature <= 120
CanMakeO3(e, temperature)  == e.o2 > 2 /\ temperature >= 60

MakeNO2(e, temperature) ==
  IF CanMakeNO2(e, temperature)
  THEN [e EXCEPT !.n2 = @ - 1, !.o2 = @ - 2, !.no2 = @ + 1] ELSE e
MakeO3(e, temperature) ==
  IF CanMakeO3(e, temperature) THEN [e EXCEPT !.o2 = @ - 3, !.o3 = @ + 1] ELSE e

Estimate(num_n, num_o, temperature) ==
  LET loop[e \in Estimates] ==
        IF CanMakeNO2(e, temperature) \/ CanMakeO3(e, temperature)
        THEN loop[MakeO3(MakeNO2(e, temperature), temperature)] ELSE e
  IN  loop[[n2 |-> num_n \div 2, o2 |-> num_o \div 2, no2 |-> 0, o3 |-> 0]]

Init ==
  /\ \E num_n \in NumNs, num_o \in NumOs, temperature \in Temperatures :
       args = [num_n |-> num_n, num_o |-> num_o, temperature |-> temperature,
               est |-> Estimate(num_n, num_o, temperature)]
  /\ stat = [n |-> 0, o |-> 0, n2 |-> 0, o2 |-> 0, no2 |-> 0, o3 |-> 0]
  /\ seen = [p \in Workers |-> <<>>]
  /\ i = [p \in Workers |-> 0]
  /\ InitApp(<<>>, Reactions, "loop")

\* How often a process goes through its loop.
Times(p) ==
  CASE p = ProducerN -> args.num_n
    [] p = ProducerO -> args.num_o
    [] p = Reaction1 -> args.num_n \div 2
    [] p = Reaction2 -> args.num_o \div 2
    [] p = Reaction3 -> IF args.temperature > 120 THEN 0 ELSE args.est.no2
    [] p = Reaction4 -> IF args.temperature < 60 THEN 0 ELSE args.est.o3

\* What a process must find before it goes on without waiting.
Ready(p) ==
  CASE p = Reaction1 -> stat.n >= 2
    [] p = Reaction2 -> stat.o >= 2
    [] p = Reaction3 -> stat.n2 >= 1 /\ stat.o2 >= 2
    [] p = Reaction4 -> stat.o2 >= 3
    [] OTHER         -> TRUE

\* Mutant: reaction 3 makes one molecule of NO2 only.
YieldsTooLittle(p) ==
  CASE p = ProducerN -> [n |-> 1]
    [] p = ProducerO -> [o |-> 1]
    [] p = Reaction1 -> [n |-> -2, n2 |-> 1]
    [] p = Reaction2 -> [o |-> -2, o2 |-> 1]
    [] p = Reaction3 -> [n2 |-> -1, o2 |-> -2, no2 |-> 1]
    [] p = Reaction4 -> [o2 |-> -3, o3 |-> 2]

\* What a process adds to the counters in one turn.
Yields(p) ==
  CASE p = ProducerN -> [n |-> 1]
    [] p = ProducerO -> [o |-> 1]
    [] p = Reaction1 -> [n |-> -2, n2 |-> 1]
    [] p = Reaction2 -> [o |-> -2, o2 |-> 1]
    [] p = Reaction3 -> [n2 |-> -1, o2 |-> -2, no2 |-> 2]
    [] p = Reaction4 -> [o2 |-> -3, o3 |-> 2]

\* Mutant: the second reaction does not tell the fourth.
SignalsForgetO3(p, now) ==
  CASE p = ProducerN -> {r \in {Reaction1} : now.n > 1}
    [] p = ProducerO -> {r \in {Reaction2} : now.o > 1}
    [] p \in {Reaction1, Reaction2} -> {r \in {Reaction3} : now.n2 > 0 /\ now.o2 > 1}
    [] OTHER -> {}

\* The conditions a process signals before it releases the lock, by what the
\* counters are then.
Signals(p, now) ==
  CASE p = ProducerN -> {r \in {Reaction1} : now.n > 1}
    [] p = ProducerO -> {r \in {Reaction2} : now.o > 1}
    [] p = Reaction1 -> {r \in {Reaction3} : now.n2 > 0 /\ now.o2 > 1}
    [] p = Reaction2 -> {r \in {Reaction3} : now.n2 > 0 /\ now.o2 > 1}
                          \cup {r \in {Reaction4} : now.o2 > 2}
    [] OTHER -> {}

-----------------------------------------------------------------------------
Enter(p) ==
  /\ At(p, "loop") /\ i[p] < Times(p)
  /\ Acquire(p)
  /\ Goto(p, "test")
  /\ UNCHANGED <<sems, conds, created, reactionVars>>

WaitUntilReady(p) ==
  /\ At(p, "test") /\ ~Ready(p)
  /\ CondWait(p, p)
  /\ Goto(p, "woken")
  /\ UNCHANGED <<sems, created, reactionVars>>

\* Mutant: the last two reactions do not test again either.
WokenUpTrusts(p) ==
  /\ At(p, "woken")
  /\ CondResume(p)
  /\ Goto(p, "load")
  /\ UNCHANGED <<sems, conds, created, reactionVars>>

\* The last two reactions test again after they were woken, the first two do not.
WokenUp(p) ==
  /\ At(p, "woken")
  /\ CondResume(p)
  /\ Goto(p, IF p \in {Reaction3, Reaction4} THEN "test" ELSE "load")
  /\ UNCHANGED <<sems, conds, created, reactionVars>>

\* A counter is loaded in one step and stored in the next; only the lock keeps
\* the others from coming in between.
Load(p) ==
  /\ \/ At(p, "load")
     \/ At(p, "test") /\ Ready(p)
  /\ seen' = [seen EXCEPT ![p] = [m \in DOMAIN Yields(p) |-> stat[m]]]
  /\ Goto(p, "store")
  /\ UNCHANGED <<lock, sems, conds, created, args, stat, i>>

\* The store, the signals and the release are one step: while a process has the
\* lock, the others can only join its waiting queue.
StoreAndRelease(p) ==
  /\ At(p, "store")
  /\ stat' = [m \in DOMAIN stat |-> IF m \in DOMAIN Yields(p)
                                   THEN seen[p][m] + Yields(p)[m] ELSE stat[m]]
  /\ seen' = [seen EXCEPT ![p] = <<>>]
  /\ i' = [i EXCEPT ![p] = @ + 1]
  /\ conds' = [r \in Reactions |-> IF r \in Signals(p, stat') THEN Rest(conds[r])
                                                              ELSE conds[r]]
  /\ Release(p)
  /\ Goto(p, "loop")
  /\ UNCHANGED <<sems, created, args>>

Complete(p) ==
  /\ i[p] >= Times(p)
  /\ SignalCompletion(p, "loop")
  /\ UNCHANGED reactionVars

Worker(p) ==
  \/ Enter(p) \/ WaitUntilReady(p) \/ WokenUp(p) \/ Load(p)
  \/ StoreAndRelease(p) \/ Complete(p)

First == MainStep /\ UNCHANGED reactionVars

Next == First \/ \E p \in Workers : Worker(p)

Spec == Init /\ [][Next]_vars

-----------------------------------------------------------------------------
\* Atoms are neither lost nor made by reactions that compete for molecules.
AtomsConserved ==
  /\ i[ProducerN] = stat.n + 2 * stat.n2 + stat.no2
  /\ i[ProducerO] = stat.o + 2 * stat.o2 + 2 * stat.no2 + 3 * stat.o3

\* No reaction uses molecules that are not there, although what it was woken for
\* may be gone when it has the lock again.
EnoughMolecules == \A m \in DOMAIN stat : stat[m] >= 0

\* No signal is missed: a reaction that waits on its condition does not find it
\* true, whichever of the others made it so, and whoever waited when it did.
NoMissedSignal == \A r \in Reactions : conds[r] # <<>> => ~Ready(r)

\* As long as not all have ended, some process can go on; since loops are bounded
\* and nobody polls, all end.  It needs the estimate to be reached in every order
\* in which the last two reactions take their turns.
NoneLeftAsleep ==
  (\A p \in Procs : Ended(p) \/ Asleep(p) \/ p > created) => \A p \in Procs : Ended(p)

\* What is left when all processes have ended is what krypton estimated.
YieldAsEstimated ==
  (\A p \in Procs : Ended(p)) =>
     stat.no2 = 2 * args.est.no2 /\ stat.o3 = 2 * args.est.o3
=============================================================================
