----------------------------- MODULE MCBuffers -----------------------------
(***************************************************************************)
(* The two programs that share a buffer and are right, q2 and q3, and the  *)
(* example they were made from: three answers to one set of requirements,  *)
(* so they are checked together.  The first state says which one runs.     *)
(***************************************************************************)
EXTENDS CircularBuffer

VARIABLE program

Q2      == INSTANCE Q2Polling
Q3      == INSTANCE Q3Semaphores
Example == INSTANCE SpawnExample

Running(name) == program = name /\ UNCHANGED program

MCInit ==
  \/ program = "q2" /\ Q2!Init
  \/ program = "q3" /\ Q3!Init
  \/ program = "example" /\ Example!Init /\ InitBuffer

PollingStep(p)  == Running("q2") /\ Q2!Worker(p)
PollingMain     == Running("q2") /\ Q2!First
SemaphoresStep  == Running("q3") /\ Q3!Next
ExampleStep     == Running("example") /\ Example!Next /\ UNCHANGED bufVars

MCNext ==
  PollingMain \/ SemaphoresStep \/ ExampleStep \/ \E p \in Workers : PollingStep(p)

\* Only q2 needs more than that some process runs: the others do not poll.
MCSpec ==
  /\ MCInit /\ [][MCNext]_<<vars, program>>
  /\ WF_<<vars, program>>(PollingMain)
  /\ \A p \in Workers : WF_<<vars, program>>(PollingStep(p))
  /\ WF_<<vars, program>>(SemaphoresStep)
  /\ WF_<<vars, program>>(ExampleStep)

-----------------------------------------------------------------------------
\* One slot of q2's buffer is always left empty, to tell full from empty.
Buffer == INSTANCE BoundedBuffer
            WITH capacity <- IF program = "q2" THEN BUFFER_SIZE - 1 ELSE BUFFER_SIZE,
                 items    <- ItemsInBuffer,
                 inserted <- [p \in Producers |-> curr_idx[p]]

\* However the processes are preempted between loading an index and using it,
\* the buffer is a bounded queue of whole items: none is lost, read twice, read
\* before it was written, or put in when there is no room.
ImplementsBuffer == Buffer!Spec

\* q3 loses no slot, however the processes asleep on its semaphores are woken.
SlotsAccounted == program = "q3" => Q3!SlotsMatch
=============================================================================
