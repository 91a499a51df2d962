--------------------------- MODULE BoundedBuffer ---------------------------
(***************************************************************************)
(* What the buffer shared by producers and consumers promises: a queue of  *)
(* bounded length, filled and emptied one whole item at a time.            *)
(***************************************************************************)
EXTENDS Naturals, Sequences

CONSTANT Producers

VARIABLES capacity,   \* how many items the buffer takes; it never changes
          items,      \* what is in the buffer, oldest first
          inserted,   \* how many items each producer has put in
          removed     \* what has been taken out, oldest first

Init ==
  /\ items = <<>>
  /\ inserted = [p \in Producers |-> 0]
  /\ removed = <<>>

\* The next item of producer p is put at the end.
Insert(p) ==
  /\ Len(items) < capacity
  /\ items' = Append(items, <<p, inserted[p]>>)
  /\ inserted' = [inserted EXCEPT ![p] = @ + 1]
  /\ UNCHANGED removed

Remove ==
  /\ items # <<>>
  /\ removed' = Append(removed, Head(items))
  /\ items' = Tail(items)
  /\ UNCHANGED inserted

Next == UNCHANGED capacity /\ (Remove \/ \E p \in Producers : Insert(p))

Spec == Init /\ [][Next]_<<capacity, items, inserted, removed>>
=============================================================================
