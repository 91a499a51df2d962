-------------------------------- MODULE Queues --------------------------------
(***************************************************************************)
(* What the queues of src/include/os/queue.h promise: a queue is a         *)
(* sequence of links, each link is in one queue, in the pool of free       *)
(* links, or in the hands of the caller that allocated it.                 *)
(*                                                                         *)
(* An operation that fails its checks returns QUEUE_FAIL and changes       *)
(* nothing; it is a stuttering step.                                       *)
(***************************************************************************)
EXTENDS Integers, SequencesExt

CONSTANTS Links,      \* the links of the pool, in its order
          Queues,     \* the queues of the kernel
          Objects,    \* what links may carry
          NoObject,   \* what a link carries before its first use
          freeLinks   \* the pool

VARIABLES contents,   \* the links of each queue and of the pool, in order
          object      \* what each link carries

vars == <<contents, object>>

LinkSet == ToSet(Links)

Init ==
  /\ contents = [q \in Queues \cup {freeLinks} |-> IF q = freeLinks THEN Links ELSE <<>>]
  /\ object = [l \in LinkSet |-> NoObject]

OnQueue(l) == {q \in Queues \cup {freeLinks} : l \in ToSet(contents[q])}
Held(l)    == OnQueue(l) = {}

Alloc(o) ==
  /\ contents[freeLinks] # <<>>
  /\ contents' = [contents EXCEPT ![freeLinks] = Tail(@)]
  /\ object' = [object EXCEPT ![Head(contents[freeLinks])] = o]

\* At the place k of q, anywhere from first to behind the last.
Insert(q, k, l) ==
  /\ Held(l)
  /\ contents' = [contents EXCEPT ![q] = InsertAt(@, k, l)]
  /\ UNCHANGED object

\* To the end of the pool.
RemoveLink(l) ==
  /\ \E q \in OnQueue(l) \ {freeLinks} : \E k \in DOMAIN contents[q] :
       /\ contents[q][k] = l
       /\ contents' = [contents EXCEPT ![q] = RemoveAt(@, k),
                                       ![freeLinks] = Append(@, l)]
  /\ UNCHANGED object

\* The last link of a queue is never moved.
MoveAfter(q, after, l) ==
  /\ \E i, k \in 1 .. Len(contents[q]) - 1 :
       LET others == RemoveAt(contents[q], i)
       IN  /\ contents[q][i] = l /\ others[k] = after
           /\ contents' = [contents EXCEPT ![q] = InsertAt(others, k + 1, l)]
  /\ UNCHANGED object

Next ==
  \/ \E o \in Objects : Alloc(o)
  \/ \E q \in Queues, l \in LinkSet :
       \/ \E k \in 1 .. Len(contents[q]) + 1 : Insert(q, k, l)
       \/ \E after \in LinkSet : MoveAfter(q, after, l)
  \/ \E l \in LinkSet : RemoveLink(l)

Spec == Init /\ [][Next]_vars
=============================================================================
