---------------------------- MODULE MCInterrupts ----------------------------
(***************************************************************************)
(* Interrupts, and with it Scheduler, for TLC, with the number of forks    *)
(* bounded by MaxForks.                                                    *)
(***************************************************************************)
EXTENDS Interrupts

CONSTANT MaxForks

VARIABLE forks

MCInit == InitMachine /\ forks = 0

MCNext ==
  \/ forks < MaxForks /\ forks' = forks + 1 /\ \E loads \in BOOLEAN : CreateTrap(loads)
  \/ /\ UNCHANGED forks
     /\ \/ TimerHandler
        \/ KeyboardHandler
        \/ PrintfTrap
        \/ ExitTrap
        \/ \E ps \in WakeOrders : SleepingCall(ps) \/ \E v \in Values : PlainCall(ps, v)
        \/ \E v \in Values : EndOfCall(v) \/ EndOfFileTrap(v)
        \/ SleepAgain
        \/ FileTrap
        \/ FaultHandler

\* The timer takes the processor from a process that keeps it, and a kernel
\* call that has slept goes on when its process runs again.
KeptTooLong(p) == Current = p /\ TimerHandler /\ UNCHANGED forks
CallGoesOn(p)  ==
  Current = p /\ (SleepAgain \/ \E v \in Values : EndOfCall(v)) /\ UNCHANGED forks

MCSpec ==
  /\ MCInit /\ [][MCNext]_<<allVars, forks>>
  /\ \A p \in Pids : WF_<<allVars, forks>>(KeptTooLong(p))
  /\ \A p \in Pids : WF_<<allVars, forks>>(CallGoesOn(p))

\* A runnable process runs, whatever the others do, unless the system stops:
\* the timer takes the processor from each of those before it.  The bound on
\* forks is needed: see OnlyRunningOvertaken.
EveryReadyProcessRuns ==
  \A p \in Pids :
    table.flags[p] = "RUNNABLE" ~> (table.currentPCB = p \/ ~Running(table))
=============================================================================
