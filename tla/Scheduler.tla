------------------------------ MODULE Scheduler ------------------------------
(***************************************************************************)
(* The scheduler as a state machine over the process table.  One step is   *)
(* one trap or interrupt handler, from entry to intrreturn(): handlers run *)
(* with interrupts off.  What the synchronization primitives do to the     *)
(* table is abstracted to KernelCall: any of the sleeping processes are    *)
(* woken, in any order, and the caller may then block.  Module Synch has   *)
(* the real calls, and every step of it is a step of this module.          *)
(***************************************************************************)
EXTENDS ProcessTable

VARIABLE table

\* main() creates the first process from the command line.
Init == table = ProcessFork(ProcessModuleInit, TRUE)

Timer ==
  /\ Running(table)
  /\ table' = TimerInterrupt(table)

Exit ==
  /\ Running(table)
  /\ table' = ProcessExit(table)

Fork(loads) ==
  /\ Running(table)
  /\ table' = ProcessFork(table, loads)

KernelCall(ps, blocks) ==
  /\ Running(table)
  /\ table' = AfterCall(table, ps, blocks)

\* A kernel call that stops the system; cond_wait without the lock is the one.
FatalCall ==
  /\ Running(table)
  /\ table' = Exitsim(table, "notOwner")

\* The orders in which a handler can wake some of the sleeping processes.
WakeOrders == SetToAllKPermutations(table.waitQueue)

Next ==
  \/ Timer
  \/ Exit
  \/ \E loads \in BOOLEAN : Fork(loads)
  \/ \E ps \in WakeOrders, blocks \in BOOLEAN : KernelCall(ps, blocks)
  \/ FatalCall

\* The timer is set afresh by every ProcessSchedule (process.c:240), so it is
\* certain to fire only for a process that keeps the processor: weak fairness
\* process by process, not of Timer alone.
Quantum(p) == table.currentPCB = p /\ Timer

Fairness == \A p \in Pids : WF_table(Quantum(p))

Spec == Init /\ [][Next]_table /\ Fairness

-----------------------------------------------------------------------------
\* Every field of the table has its type.
TypeOK == table \in Tables

\* A PCB is on the one queue its flags name, and on it once: no routine may
\* leave a process on two queues, on none, or listed twice.
QueuesMatchFlags == QueuesMatch(table)

\* The running process is the one in front of the run queue.  ProcessSchedule
\* relies on it when it moves "the running process" to the end (process.c:218),
\* and every handler relies on it when it suspends or destroys currentPCB.
CurrentInFront == Running(table) => InFront(table)

\* No dead process is left behind for the next one to run into: the handler
\* that destroys a process also frees it (process.c:229-238).
ZombiesReaped == Running(table) => table.zombieQueue = <<>>

\* Pages are neither lost nor freed twice by forks that fail and by exits.
PagesAccounted == PagesMatch(table)

-----------------------------------------------------------------------------
Place(q, p) == CHOOSE i \in DOMAIN q : q[i] = p
Ahead(q, p, r) == {p, r} \subseteq ToSet(q) /\ Place(q, p) < Place(q, r)

\* p was ahead of another process and is now behind it.
Overtaken(p) ==
  \E r \in Pids : Ahead(table.runQueue, p, r) /\ Ahead(table'.runQueue, r, p)

Exits(p) == table.flags[p] # "FREE" /\ table'.flags[p] = "FREE"

\* Only the running process is ever overtaken: "The running process was the one
\* in front" (process.c:218) of the queue when its front is moved to the end.
OnlyRunningOvertaken ==
  [][\A p \in Pids : Overtaken(p) => p = table.currentPCB]_table

\* What the code does: a process that waits for its turn is overtaken only when
\* the running one exits, and only if it stood right behind it.
OvertakenByExitOnly ==
  [][\A p \in Pids :
       Overtaken(p) => \/ p = table.currentPCB
                       \/ Exits(table.currentPCB) /\ Place(table.runQueue, p) = 2]_table

\* A handler that neither exits nor blocks leaves the processor to its caller
\* unless it is the timer: wakeups and forks never preempt.
WakeupsDoNotPreempt ==
  [][table'.currentPCB # table.currentPCB =>
       \/ table.currentPCB \in table'.waitQueue
       \/ Exits(table.currentPCB)
       \/ table'.runQueue = Rotate(table.runQueue)]_table
=============================================================================
