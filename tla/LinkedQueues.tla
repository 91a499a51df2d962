----------------------------- MODULE LinkedQueues -----------------------------
(***************************************************************************)
(* The queues of src/os/queue.c: doubly linked lists of links taken from a *)
(* static pool, which is such a list itself.  The state is the memory the  *)
(* pointers are in; each operation takes its assignments in their order.   *)
(*                                                                         *)
(* The callers are those of process.c and synch.c: they insert links they  *)
(* have just allocated, and remove and move links that are on a queue.     *)
(***************************************************************************)
EXTENDS Integers, SequencesExt

CONSTANTS QUEUE_MAX_LINKS,   \* size of linkpool
          Queues,            \* the queues of the kernel
          Objects,           \* what links may carry
          freeLinks          \* the queue of free links

NoQueue == "none"

ASSUME PoolAssumption == QUEUE_MAX_LINKS \in Nat
ASSUME FreeLinksAssumption == freeLinks \notin Queues
\* The queue pointer of a link that is on no queue is NULL.
ASSUME NoQueueAssumption == NoQueue \notin Queues \cup {freeLinks}

VARIABLE mem   \* linkpool, and the queues

Links     == 1 .. QUEUE_MAX_LINKS
AllQueues == Queues \cup {freeLinks}
NULL      == 0
NoObject  == "none"

\* l->next = n and l->prev = n, where l may be NULL
SetNext(m, l, n) == IF l = NULL THEN m ELSE [m EXCEPT !.link[l].next = n]
SetPrev(m, l, n) == IF l = NULL THEN m ELSE [m EXCEPT !.link[l].prev = n]
SetQueue(m, l, q) == [m EXCEPT !.link[l].queue = q]

-----------------------------------------------------------------------------
CanInsert(m, q, place) ==
  IF place = NULL THEN m.queue[q] = [first |-> NULL, last |-> NULL, nitems |-> 0]
                  ELSE m.link[place].queue = q

\* The first link of a queue that was empty.
OnlyLink(l) == [first |-> l, last |-> l, nitems |-> 1]

AQueueInsertAfter(m, q, after, l) ==
  LET next   == IF after = NULL THEN NULL ELSE m.link[after].next
      filled == SetNext(SetPrev(SetQueue(m, l, q), l, after), l, next)
      linked == SetPrev(SetNext(filled, after, l), next, l)
  IN  IF ~CanInsert(m, q, after) THEN m
      ELSE IF after = NULL THEN [linked EXCEPT !.queue[q] = OnlyLink(l)]
      ELSE [linked EXCEPT !.queue[q] = [first  |-> @.first,
                                           last   |-> IF @.last = after THEN l ELSE @.last,
                                           nitems |-> @.nitems + 1]]

\* Mutant: the link that was in front is not told.
AQueueInsertBeforeOneWay(m, q, before, l) ==
  LET prev   == IF before = NULL THEN NULL ELSE m.link[before].prev
      filled == SetPrev(SetNext(SetQueue(m, l, q), l, before), l, prev)
      linked == SetNext(filled, prev, l)
  IN  IF ~CanInsert(m, q, before) THEN m
      ELSE IF before = NULL THEN [linked EXCEPT !.queue[q] = OnlyLink(l)]
      ELSE [linked EXCEPT !.queue[q] = [first  |-> IF @.first = before THEN l ELSE @.first,
                                           last   |-> @.last,
                                           nitems |-> @.nitems + 1]]

AQueueInsertBefore(m, q, before, l) ==
  LET prev   == IF before = NULL THEN NULL ELSE m.link[before].prev
      filled == SetPrev(SetNext(SetQueue(m, l, q), l, before), l, prev)
      linked == SetNext(SetPrev(filled, before, l), prev, l)
  IN  IF ~CanInsert(m, q, before) THEN m
      ELSE IF before = NULL THEN [linked EXCEPT !.queue[q] = OnlyLink(l)]
      ELSE [linked EXCEPT !.queue[q] = [first  |-> IF @.first = before THEN l ELSE @.first,
                                           last   |-> @.last,
                                           nitems |-> @.nitems + 1]]

AQueueInsertFirst(m, q, l) == AQueueInsertBefore(m, q, m.queue[q].first, l)
AQueueInsertLast(m, q, l)  == AQueueInsertAfter(m, q, m.queue[q].last, l)

\* Takes l out of q: the ends of the queue first, then the list around l.
Unlink(m, q, l) ==
  LET prev == m.link[l].prev
      next == m.link[l].next
      ends == [m EXCEPT !.queue[q] = [first  |-> IF @.first = l THEN next ELSE @.first,
                                      last   |-> IF @.last = l THEN prev ELSE @.last,
                                      nitems |-> @.nitems - 1]]
  IN  SetPrev(SetNext(ends, prev, next), next, prev)

\* The caller has seen that the pool is not empty.
AQueueAllocLink(m, obj) ==
  LET l == m.queue[freeLinks].first
  IN  [Unlink(m, freeLinks, l) EXCEPT
         !.link[l] = [next |-> NULL, prev |-> NULL, queue |-> NoQueue, object |-> obj]]

\* Mutant: the link does not go back to the pool.
AQueueRemoveLeaks(m, l) ==
  [Unlink(m, m.link[l].queue, l) EXCEPT !.link[l].queue = freeLinks]

AQueueRemove(m, l) ==
  AQueueInsertLast(Unlink(m, m.link[l].queue, l), freeLinks, l)

\* Mutant: the queue still ends in "after".
AQueueMoveAfterKeepsEnd(m, q, after, l) ==
  LET prev  == m.link[l].prev
      next  == m.link[l].next
      ends  == [m EXCEPT !.queue[q].first = IF @ = l THEN next ELSE @]
      out   == SetNext(SetPrev(ends, next, prev), prev, next)
      moved == SetNext(SetPrev(out, l, after), l, out.link[after].next)
  IN  IF after = l \/ m.queue[q].last = l THEN m
      ELSE SetPrev(SetNext(moved, after, l), moved.link[l].next, l)

\* The last link of the queue is refused.
AQueueMoveAfter(m, q, after, l) ==
  LET prev  == m.link[l].prev
      next  == m.link[l].next
      ends  == [m EXCEPT !.queue[q] = [first  |-> IF @.first = l THEN next ELSE @.first,
                                       last   |-> IF @.last = after THEN l ELSE @.last,
                                       nitems |-> @.nitems]]
      out   == SetNext(SetPrev(ends, next, prev), prev, next)
      moved == SetNext(SetPrev(out, l, after), l, out.link[after].next)
  IN  IF after = l \/ m.queue[q].last = l THEN m
      ELSE SetPrev(SetNext(moved, after, l), moved.link[l].next, l)

\* The pool is filled in the order of the array.
AQueueModuleInit ==
  LET empty == [link  |-> [l \in Links |-> [next |-> NULL, prev |-> NULL,
                                            queue |-> NoQueue, object |-> NoObject]],
                queue |-> [q \in AllQueues |-> [first |-> NULL, last |-> NULL, nitems |-> 0]]]
      filled[l \in 0 .. QUEUE_MAX_LINKS] ==
        IF l = 0 THEN empty ELSE AQueueInsertLast(filled[l - 1], freeLinks, l)
  IN  filled[QUEUE_MAX_LINKS]

-----------------------------------------------------------------------------
LinksInit == mem = AQueueModuleInit

Held(l)       == mem.link[l].queue = NoQueue
LinksOf(q)    == {l \in Links : mem.link[l].queue = q}

Alloc(obj) ==
  mem.queue[freeLinks].nitems # 0 /\ mem' = AQueueAllocLink(mem, obj)

Insert(q, l) ==
  /\ Held(l)
  /\ \/ mem' = AQueueInsertFirst(mem, q, l)
     \/ mem' = AQueueInsertLast(mem, q, l)
     \/ \E place \in LinksOf(q) : \/ mem' = AQueueInsertAfter(mem, q, place, l)
                                  \/ mem' = AQueueInsertBefore(mem, q, place, l)

RemoveLink(l) == mem.link[l].queue \in Queues /\ mem' = AQueueRemove(mem, l)

Move(q, l) ==
  l \in LinksOf(q) /\ \E after \in LinksOf(q) : mem' = AQueueMoveAfter(mem, q, after, l)

LinksNext ==
  \/ \E obj \in Objects : Alloc(obj)
  \/ \E q \in Queues, l \in Links : Insert(q, l) \/ Move(q, l)
  \/ \E l \in Links : RemoveLink(l)

LinksSpec == LinksInit /\ [][LinksNext]_mem

-----------------------------------------------------------------------------
\* The links of q from the first on by next, and from the last on by prev.
Forward(m, q) ==
  LET nth[i \in 1 .. m.queue[q].nitems] ==
        IF i = 1 THEN m.queue[q].first
        ELSE IF nth[i - 1] = NULL THEN NULL ELSE m.link[nth[i - 1]].next
  IN  nth
Backward(m, q) ==
  LET nth[i \in 1 .. m.queue[q].nitems] ==
        IF i = 1 THEN m.queue[q].last
        ELSE IF nth[i - 1] = NULL THEN NULL ELSE m.link[nth[i - 1]].prev
  IN  nth

\* A queue read from its end is the queue read from its front, and both ends
\* are closed: the four pointers an operation sets agree.
EndsMeet ==
  \A q \in AllQueues :
    /\ Backward(mem, q) = Reverse(Forward(mem, q))
    /\ mem.queue[q].nitems = 0 => {mem.queue[q].first, mem.queue[q].last} = {NULL}
    /\ mem.queue[q].nitems > 0 => /\ mem.link[mem.queue[q].first].prev = NULL
                                  /\ mem.link[mem.queue[q].last].next = NULL

\* A link is on the queue its queue pointer says, once: AQueueRemove, which
\* knows the queue by that pointer only, fixes the right one.
LinksKnowTheirQueue ==
  \A q \in AllQueues : IsInjective(Forward(mem, q)) /\ ToSet(Forward(mem, q)) = LinksOf(q)

\* The lists implement sequences.
Abstract == INSTANCE Queues WITH
  Links    <- [i \in Links |-> i],
  contents <- [q \in AllQueues |-> Forward(mem, q)],
  object   <- [l \in Links |-> mem.link[l].object]
ImplementsQueues == Abstract!Spec
=============================================================================
