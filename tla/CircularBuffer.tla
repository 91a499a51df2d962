--------------------------- MODULE CircularBuffer ---------------------------
(***************************************************************************)
(* The shared buffer of q2, q3 and q4: the producers and consumers and the *)
(* steps in which they touch the buffer.  How they keep out of each        *)
(* other's way is what the three programs differ in.                       *)
(***************************************************************************)
EXTENDS AppProcess, FiniteSets

CONSTANTS BUFFER_SIZE,   \* the declared size of char_buf
          ITEM_SIZE      \* what each producer inserts and each consumer removes

ASSUME PairsAssumption == NumProcs % 2 = 0
ASSUME SizesAssumption == BUFFER_SIZE \in Nat \ {0} /\ ITEM_SIZE \in Nat \ {0}

VARIABLES buf,       \* the shared circular_buffer
          curr_idx,  \* out_curr_idx of each process
          at,        \* the index a process has loaded and is about to use
          removed    \* the items removed so far, oldest first (history variable)

bufVars == <<buf, curr_idx, at, removed>>
vars    == <<appVars, bufVars>>

\* makeprocs creates a producer and a consumer in turn.
Producers == {p \in Workers : p % 2 = 1}
Consumers == {p \in Workers : p % 2 = 0}

\* Every item has a name of its own; the memory is not cleared.
Item(p, i) == <<p, i>>
Garbage    == <<>>
Total      == Cardinality(Producers) * ITEM_SIZE

\* The indices are never reduced modulo BUFFER_SIZE: what the program writes past
\* the end of char_buf is still in its page of 64KB, so it has room for all items.
Indices == 0 .. Total

InitBuffer ==
  /\ buf = [head |-> 0, tail |-> 0, char_buf |-> [i \in Indices |-> Garbage]]
  /\ curr_idx = [p \in Workers |-> 0]
  /\ at = [p \in Workers |-> 0]
  /\ removed = <<>>

Full  == (buf.head + 1) % BUFFER_SIZE = buf.tail
Empty == buf.head = buf.tail

\* cb->char_buf[cb->head++] = ...: head is loaded in one step and used in the
\* next; the lock has to keep others from coming in between.
LoadHead(p) == at' = [at EXCEPT ![p] = buf.head] /\ UNCHANGED <<buf, curr_idx, removed>>
InsertItem(p) ==
  /\ buf' = [buf EXCEPT !.char_buf[at[p]] = Item(p, curr_idx[p]), !.head = at[p] + 1]
  /\ curr_idx' = [curr_idx EXCEPT ![p] = @ + 1]
  /\ UNCHANGED <<at, removed>>

LoadTail(p) == at' = [at EXCEPT ![p] = buf.tail] /\ UNCHANGED <<buf, curr_idx, removed>>
RemoveItem(p) ==
  /\ removed' = Append(removed, buf.char_buf[at[p]])
  /\ buf' = [buf EXCEPT !.tail = at[p] + 1]
  /\ curr_idx' = [curr_idx EXCEPT ![p] = @ + 1]
  /\ UNCHANGED at

\* Where a process goes when it starts its loop over again, or leaves it.
Again(p, start) == Goto(p, IF curr_idx[p] < ITEM_SIZE THEN start ELSE "complete")

-----------------------------------------------------------------------------
\* What is in the buffer, oldest first.
ItemsInBuffer == [i \in 1 .. buf.head - buf.tail |-> buf.char_buf[buf.tail + i - 1]]

\* An index used on char_buf lies in it: "char char_buf[64]" of a
\* "circular_buffer" (buffer.h:11-16) whose pointers makeprocs initializes.
IndexInBounds ==
  \A p \in Workers : pc[p] \in {"insert", "remove"} => at[p] < BUFFER_SIZE
=============================================================================
