----------------------------- MODULE Interrupts -----------------------------
(***************************************************************************)
(* Traps and interrupts: how a process gets into the kernel, what its      *)
(* handler does, and how some process gets back (_intrhandler and          *)
(* _intrreturn of src/os/dlxos.s, dointerrupt of src/os/traps.c).          *)
(*                                                                         *)
(* Scheduler treats a handler as one step on the process table.  Here each *)
(* process has the stack of frames its registers are saved in, and the     *)
(* processor the registers of the process that runs.  A handler is still   *)
(* one step while interrupts are off.  It is cut in two where another      *)
(* process can come in between: where a call sleeps, and where a file trap *)
(* turns interrupts on.                                                    *)
(***************************************************************************)
EXTENDS Scheduler

VARIABLES machine,   \* the frames of each process, and the processor
          wants      \* what r1 must hold when a process runs again (history variable)

\* Of the registers r1 stands for all: a result is delivered in it.
Values == 0 .. 1

\* What a process executes: its program, the part of a file trap that can be
\* interrupted, or a kernel call behind the point where it slept.
Codes == {"user", "fileTrap", "call"}

\* at is the place of a frame on the system stack, counted in frames.  frames
\* starts with currentSavedFrame and follows the links to the older frames;
\* sysStackPtr is where a trap from user mode puts its frame.
CpuStates == [code : Codes, intrs : BOOLEAN, r1 : Values]
Frames    == [code : Codes, intrs : BOOLEAN, r1 : Values, at : Nat]
Machines  == [frames : [Pids -> Seq(Frames)], sysStackPtr : [Pids -> Nat], cpu : CpuStates]

allVars == <<table, machine, wants>>

cpu     == machine.cpu
Current == table.currentPCB

\* The stack page of a process that is freed is gone, with its frames.
NoFrames(t, m) ==
  [m EXCEPT !.frames      = [p \in Pids |-> IF t.flags[p] = "FREE" THEN <<>> ELSE @[p]],
            !.sysStackPtr = [p \in Pids |-> IF t.flags[p] = "FREE" THEN 0 ELSE @[p]]]

-----------------------------------------------------------------------------
\* Mutant: what is saved is the interrupt level of the handler.
IntrhandlerSavesOwnLevel(m, p) ==
  LET at == IF m.cpu.code = "user" THEN m.sysStackPtr[p] ELSE Head(m.frames[p]).at + 1
  IN  [m EXCEPT !.frames[p] = <<[code |-> m.cpu.code, intrs |-> FALSE, r1 |-> m.cpu.r1,
                                 at   |-> at]>> \o @,
                !.cpu.intrs = FALSE]

\* The frame goes to sysStackPtr, or on top of the handler that was interrupted.
intrhandler(m, p) ==
  LET at == IF m.cpu.code = "user" THEN m.sysStackPtr[p] ELSE Head(m.frames[p]).at + 1
  IN  [m EXCEPT !.frames[p] = <<[code |-> m.cpu.code, intrs |-> m.cpu.intrs,
                                 r1   |-> m.cpu.r1,   at    |-> at]>> \o @,
                !.cpu.intrs = FALSE]

\* Mutant: sysStackPtr is not moved back over the frame.
IntrreturnKeepsStack(m, p) ==
  LET frame == Head(m.frames[p])
  IN  [m EXCEPT !.frames[p] = Tail(@),
                !.cpu = [code |-> frame.code, intrs |-> frame.intrs, r1 |-> frame.r1]]

\* The registers come from the current frame of p, which is then dropped.
intrreturn(m, p) ==
  LET frame == Head(m.frames[p])
  IN  [m EXCEPT !.frames[p]      = Tail(@),
                !.sysStackPtr[p] = frame.at,
                !.cpu = [code |-> frame.code, intrs |-> frame.intrs, r1 |-> frame.r1]]

\* Mutant: the result is put in the register, where the return overwrites it.
ProcessSetResultInRegister(m, p, result) == [m EXCEPT !.cpu.r1 = result]

ProcessSetResult(m, p, result) ==
  [m EXCEPT !.frames[p] = <<[Head(@) EXCEPT !.r1 = result]>> \o Tail(@)]

\* The end of dointerrupt: back to the process that is current now.  A call of
\* exitsim() did not get here.
Resume(m, t) == IF Running(t) THEN intrreturn(NoFrames(t, m), t.currentPCB) ELSE m

\* ProcessFork leaves a child that looks as if it had been interrupted right
\* before its first instruction, with interrupts on (PROCESS_INIT_ISR_USER).
FirstFrame == [code |-> "user", intrs |-> TRUE, r1 |-> 0, at |-> 0]
NewStack(m, c) == [m EXCEPT !.frames[c] = <<FirstFrame>>, !.sysStackPtr[c] = 1]

-----------------------------------------------------------------------------
\* main() forks the first process and returns to it.
InitMachine ==
  /\ Init
  /\ wants = [p \in Pids |-> 0]
  /\ LET blank == [frames      |-> [p \in Pids |-> <<>>],
                   sysStackPtr |-> [p \in Pids |-> 0],
                   cpu         |-> [code |-> "call", intrs |-> FALSE, r1 |-> 0]]
     IN  machine = Resume(NewStack(blank, table.currentPCB), table)

InUser  == Running(table) /\ cpu.code = "user"
Entered == intrhandler(machine, Current)

\* The caller gets result, and the handler returns.
Answer(m, result) ==
  /\ machine' = Resume(ProcessSetResult(m, Current, result), table')
  /\ wants' = [wants EXCEPT ![Current] = result]

\* The timer, and the context-switch trap.
TimerHandler ==
  /\ cpu.intrs
  /\ Timer
  /\ machine' = Resume(Entered, table')
  /\ UNCHANGED wants

\* The handler changes nothing: its process goes on as if it had not run.
Undisturbed ==
  /\ machine' = Resume(Entered, table)
  /\ UNCHANGED <<table, wants>>

KeyboardHandler == Running(table) /\ cpu.intrs /\ Undisturbed

\* The format and its arguments are copied and printed.
PrintfTrap == InUser /\ Undisturbed

ExitTrap ==
  /\ InUser
  /\ Exit
  /\ machine' = Resume(Entered, table')
  /\ wants' = [wants EXCEPT ![Current] = 0]

\* A call that does not sleep, and answers at once.
PlainCall(ps, result) ==
  /\ InUser
  /\ KernelCall(ps, FALSE)
  /\ Answer(Entered, result)

\* A call that sleeps takes a second trap inside the first.
SleepingCall(ps) ==
  /\ InUser
  /\ KernelCall(ps, TRUE)
  /\ machine' = Resume(intrhandler([Entered EXCEPT !.cpu.code = "call"], Current), table')
  /\ UNCHANGED wants

\* The rest of such a call, when its process has been woken and runs again.
EndOfCall(result) ==
  /\ Running(table) /\ cpu.code = "call"
  /\ UNCHANGED table
  /\ Answer(machine, result)

\* cond_wait asks for its lock again, and may have to sleep once more.
SleepAgain ==
  /\ cpu.code = "call"
  /\ KernelCall(<<>>, TRUE)
  /\ machine' = Resume(intrhandler(machine, Current), table')
  /\ UNCHANGED wants

\* Open, close, read, write, delete and seek "are interruptible".
FileTrap ==
  /\ InUser
  /\ machine' = [Entered EXCEPT !.cpu.code = "fileTrap", !.cpu.intrs = TRUE]
  /\ UNCHANGED <<table, wants>>

EndOfFileTrap(result) ==
  /\ Running(table) /\ cpu.code = "fileTrap"
  /\ UNCHANGED table
  /\ Answer([machine EXCEPT !.cpu.intrs = FALSE], result)

\* process_create sets no result.
CreateTrap(loads) ==
  /\ InUser
  /\ Fork(loads)
  /\ machine' = Resume(IF table'.runQueue = table.runQueue THEN Entered
                       ELSE NewStack(Entered, Last(table'.runQueue)), table')
  /\ UNCHANGED wants

\* A call with the wrong owner, an illegal access or instruction, an unknown
\* trap: the system stops.
FaultHandler ==
  /\ InUser
  /\ FatalCall
  /\ UNCHANGED <<machine, wants>>

NextInterrupt ==
  \/ TimerHandler
  \/ KeyboardHandler
  \/ PrintfTrap
  \/ ExitTrap
  \/ \E ps \in WakeOrders : SleepingCall(ps) \/ \E v \in Values : PlainCall(ps, v)
  \/ \E v \in Values : EndOfCall(v) \/ EndOfFileTrap(v)
  \/ SleepAgain
  \/ FileTrap
  \/ \E loads \in BOOLEAN : CreateTrap(loads)
  \/ FaultHandler

InterruptSpec == InitMachine /\ [][NextInterrupt]_allVars

-----------------------------------------------------------------------------
\* Every part of the machine has its type.
MachineTypeOK == machine \in Machines /\ wants \in [Pids -> Values]

\* What process p is in the middle of, innermost first.
Activities(p) ==
  (IF p = Current THEN <<cpu.code>> ELSE <<>>)
    \o [i \in DOMAIN machine.frames[p] |-> machine.frames[p][i].code]

\* Whatever was preempted, slept or woke in between, a process is in its program
\* or in one handler above it, asleep only inside a call, and its system stack
\* holds the frames of that and nothing else: none is overwritten or left over.
FramesNested ==
  Running(table) => \A p \in Pids \ WithStatus(table, "FREE") :
    /\ Activities(p) \in {<<"user">>, <<"fileTrap", "user">>, <<"call", "user">>}
    /\ table.flags[p] = "WAITING" => Head(Activities(p)) = "call"
    /\ \A i \in DOMAIN machine.frames[p] :
         machine.frames[p][i].at = Len(machine.frames[p]) - i
    /\ Activities(p) = <<"user">> /\ p = Current => machine.sysStackPtr[p] = 0

\* A process that runs again in its program finds the result of its last call,
\* though others ran, and called, in the middle of it.
ResultDelivered == Running(table) /\ cpu.code = "user" => cpu.r1 = wants[Current]

\* Programs run with interrupts on, so that the timer can take the processor
\* from them, and kernel calls with interrupts off, also after they slept.
\* This holds although CondSignal and CondBroadcast return from a failed check
\* without RestoreIntrs (synch.c:461): the return restores the level.
UserInterruptible ==
  Running(table) => (cpu.intrs <=> cpu.code # "call")
=============================================================================
