----------------------------- MODULE Primitives -----------------------------
(***************************************************************************)
(* What one operation of src/os/synch.c does to one semaphore, lock or     *)
(* queue of waiting processes.  Module Synch puts these on top of the      *)
(* process table; the applications use them as they are.                   *)
(***************************************************************************)
EXTENDS Integers, SequencesExt

NoOwner == -1

\* A waiting queue after its first process, if any, has been woken; and the
\* process that is woken, as a sequence.
Rest(q)   == IF q = <<>> THEN <<>> ELSE Tail(q)
Front1(q) == IF q = <<>> THEN <<>> ELSE <<Head(q)>>

-----------------------------------------------------------------------------
SemBlocks(sem) == sem.count <= 0

SemWait(sem, p) ==
  IF SemBlocks(sem) THEN [sem EXCEPT !.waiting = Append(@, p)]
                    ELSE [sem EXCEPT !.count = @ - 1]

\* A semaphore created with a negative value wakes nobody until it is positive.
SemWakes(sem) == sem.count + 1 > 0 /\ sem.waiting # <<>>

\* Mutant: the count is not decremented for the process that is woken.
SemSignalKeepsCount(sem) == [sem EXCEPT !.count = @ + 1, !.waiting = Rest(@)]

\* If a process is woken, the count is decremented again on its behalf.
SemSignal(sem) ==
  IF SemWakes(sem) THEN [sem EXCEPT !.waiting = Tail(@)]
                   ELSE [sem EXCEPT !.count = @ + 1]

-----------------------------------------------------------------------------
\* Somebody else has the lock.  An owner that asks again is not made to wait.
LockBlocks(lock, p) == lock.pid >= 0 /\ lock.pid # p

\* Mutant: the lock is taken from its owner.
LockAcquireBarges(lock, p) == [lock EXCEPT !.pid = p]

LockAcquire(lock, p) ==
  IF LockBlocks(lock, p) THEN [lock EXCEPT !.waiting = Append(@, p)]
                         ELSE [lock EXCEPT !.pid = p]

\* Mutant: the lock is freed even if processes wait for it.
LockReleaseFrees(lock) == [lock EXCEPT !.pid = NoOwner, !.waiting = Rest(@)]

\* Mutant: the lock goes to the process that came last.
LockReleaseToLast(lock) ==
  [lock EXCEPT !.pid     = IF lock.waiting = <<>> THEN NoOwner ELSE Last(lock.waiting),
               !.waiting = Rest(@)]

\* Mutant: the new owner is not taken off the waiting queue.
LockReleaseKeepsPlace(lock) ==
  [lock EXCEPT !.pid = IF lock.waiting = <<>> THEN NoOwner ELSE Head(lock.waiting)]

\* The lock is handed to the first process that waits for it.
LockRelease(lock) ==
  [lock EXCEPT !.pid     = IF lock.waiting = <<>> THEN NoOwner ELSE Head(lock.waiting),
               !.waiting = Rest(@)]
=============================================================================
