---------------------------- MODULE QueueLemmas ----------------------------
(***************************************************************************)
(* Queues as sequences without duplicates: what removing, appending and    *)
(* joining do to the elements of a queue; and to a lock and those who wait *)
(* for it.  Before them, the least number of a set, which is where the     *)
(* search for a free entry of a pool ends, and loops and recursion.        *)
(***************************************************************************)
EXTENDS Primitives, SequenceTheorems, WellFoundedInduction, TLAPS

\* A set of numbers that is not empty has a least one.
LEMMA LeastNumber ==
  ASSUME NEW S \in SUBSET Nat, S # {}
  PROVE  Min(S) \in S /\ \A y \in S : Min(S) =< y
<1> DEFINE R == OpToRel(<, Nat)
<1>1. IsWellFoundedOn(R, Nat)
  BY NatLessThanWellFounded
<1>2. \A x, y \in Nat : y < x => <<y, x>> \in R
  BY DEF OpToRel
<1> HIDE DEF R
<1>3. PICK x \in S : \A y \in S : ~ (<<y, x>> \in R)
  BY <1>1, WFMin
<1>4. ASSUME NEW y \in S
      PROVE  x =< y
  <2>1. x \in Nat /\ y \in Nat
    OBVIOUS
  <2>2. ~(y < x)
    BY <1>2, <1>3, <2>1, Zenon
  <2> QED BY <2>1, <2>2
<1> QED BY <1>3, <1>4 DEF Min

\* A loop over the states D that goes on in the states "more", and comes to a smaller
\* one by each turn.  What holds where it stops, and holds where it goes on if it
\* holds after the turn, holds in every state.
LEMMA LoopInduction ==
  ASSUME NEW D, NEW more \in SUBSET D, NEW next \in [more -> D], NEW size \in [D -> Nat],
         \A x \in more : size[next[x]] < size[x],
         NEW S \in SUBSET D, D \ more \subseteq S, \A x \in more : next[x] \in S => x \in S
  PROVE  S = D
<1> DEFINE sizes == {size[x] : x \in D \ S}
<1>1. SUFFICES ASSUME D # S PROVE FALSE
  OBVIOUS
<1>2. sizes \in SUBSET Nat /\ sizes # {}
  BY <1>1
<1>3. PICK x \in D \ S : \A y \in D \ S : size[x] =< size[y]
  <2> DEFINE n == Min(sizes)
  <2>1. n \in sizes /\ \A k \in sizes : n =< k
    BY <1>2, LeastNumber
  <2> HIDE DEF n
  <2> QED BY <2>1
<1>4. x \in more /\ next[x] \in D \ S
  BY <1>3
<1> QED BY <1>3, <1>4

\* Two functions are the same if they are the same where the loop stops, and where it
\* goes on if they are the same after the turn.
LEMMA SameValues ==
  ASSUME NEW D, NEW more \in SUBSET D, NEW next \in [more -> D], NEW size \in [D -> Nat],
         \A x \in more : size[next[x]] < size[x], NEW C \in SUBSET D, NEW f, NEW g
  PROVE  /\ \A x \in C \ more : f[x] = g[x]
         /\ \A x \in C \cap more : next[x] \in C /\ (f[next[x]] = g[next[x]] => f[x] = g[x])
         => \A x \in C : f[x] = g[x]
<1> DEFINE S == {x \in D : x \in C => f[x] = g[x]}
<1>1. S \in SUBSET D
  OBVIOUS
<1>2. D \ more \subseteq S /\ (\A x \in more : next[x] \in S => x \in S) => S = D
  <2> HIDE DEF S
  <2> QED BY <1>1, LoopInduction
<1> SUFFICES ASSUME \A x \in C \ more : f[x] = g[x],
                    \A x \in C \cap more : next[x] \in C /\ (f[next[x]] = g[next[x]] => f[x] = g[x])
             PROVE  S = D
  OBVIOUS
<1>3. D \ more \subseteq S /\ \A x \in more : next[x] \in S => x \in S
  OBVIOUS
<1> QED BY <1>2, <1>3

\* A recursion over D with values in V: the value at x is base[x], or turn of x and
\* the value at next[x], which is smaller.
Recursive(D, more, next, size, V, turn, base) ==
  /\ more \in SUBSET D /\ next \in [more -> D] /\ size \in [D -> Nat]
  /\ \A x \in more : size[next[x]] < size[x]
  /\ turn \in [D \X V -> V] /\ base \in [D -> V]

Computes(f, D, more, next, turn, base) ==
  \A x \in D : f[x] = IF x \in more THEN turn[<<x, f[next[x]]>>] ELSE base[x]

\* It defines a function.
LEMMA Recursion ==
  ASSUME NEW D, NEW more, NEW next, NEW size, NEW V, NEW turn, NEW base,
         Recursive(D, more, next, size, V, turn, base)
  PROVE  \E f \in [D -> V] : Computes(f, D, more, next, turn, base)
<1> SUFFICES ASSUME more \in SUBSET D, next \in [more -> D], size \in [D -> Nat],
                    \A x \in more : size[next[x]] < size[x]
             PROVE  turn \in [D \X V -> V] /\ base \in [D -> V] =>
                      \E f \in [D -> V] :
                        \A x \in D : f[x] = IF x \in more THEN turn[<<x, f[next[x]]>>]
                                                            ELSE base[x]
  BY DEF Recursive, Computes
<1> DEFINE below(k)   == {x \in D : size[x] < k}
           body(f, x) == IF x \in more THEN turn[<<x, f[next[x]]>>] ELSE base[x]
           Sol(k, f)  == f = [x \in below(k) |-> body(f, x)]
<1>1. ASSUME NEW j \in Nat, NEW k \in Nat, NEW f, NEW g, Sol(j, f), Sol(k, g)
      PROVE  \A x \in below(j) \cap below(k) : f[x] = g[x]
  <2> DEFINE C == below(j) \cap below(k)
  <2>1. \A x \in C : f[x] = body(f, x) /\ g[x] = body(g, x)
    BY <1>1
  <2>2. \A x \in C \cap more : next[x] \in C
    <3> SUFFICES ASSUME NEW x \in C \cap more PROVE size[next[x]] < j /\ size[next[x]] < k
      OBVIOUS
    <3>1. size[next[x]] \in Nat /\ size[x] \in Nat /\ size[next[x]] < size[x]
      OBVIOUS
    <3> QED BY <3>1
  <2>3. C \in SUBSET D
    OBVIOUS
  <2> HIDE DEF C
  <2>4. /\ \A x \in C \ more : f[x] = g[x]
        /\ \A x \in C \cap more : next[x] \in C /\ (f[next[x]] = g[next[x]] => f[x] = g[x])
    BY <2>1, <2>2
  <2>5. \A x \in C : f[x] = g[x]
    BY <2>3, <2>4, SameValues
  <2> QED BY <2>5 DEF C
<1>2. ASSUME NEW k \in Nat PROVE \E f : Sol(k, f)
  <2> DEFINE none == {j \in Nat : ~ \E f : Sol(j, f)}
  <2> SUFFICES ASSUME none # {} PROVE FALSE
    OBVIOUS
  <2> DEFINE n == Min(none)
  <2>1. n \in none /\ \A j \in none : n =< j
    BY LeastNumber
  <2> HIDE DEF n
  <2>2. n \in Nat /\ (~ \E f : Sol(n, f)) /\ \A j \in Nat : j < n => \E f : Sol(j, f)
    <3> HIDE DEF Sol
    <3>1. \A j \in Nat : j \in none <=> ~ \E f : Sol(j, f)
      OBVIOUS
    <3>2. none \in SUBSET Nat
      OBVIOUS
    <3> HIDE DEF none
    <3>3. n \in Nat /\ \A j \in Nat : j < n => j \notin none
      BY <2>1, <3>2
    <3> QED BY <2>1, <3>1, <3>3
  <2>3. CASE n = 0
    <3> DEFINE f == [x \in below(0) |-> 0]
    <3>1. below(0) = {}
      OBVIOUS
    <3>2. Sol(0, f)
      BY <3>1
    <3> HIDE DEF Sol, f
    <3> QED BY <2>2, <2>3, <3>2
  <2>4. CASE n > 0
    <3>1. n - 1 \in Nat /\ n - 1 < n
      BY <2>2, <2>4
    <3>2. PICK f : Sol(n - 1, f)
      BY <2>2, <3>1
    <3> DEFINE g == [x \in below(n) |-> body(f, x)]
    <3>3. \A x \in below(n - 1) : x \in below(n) /\ f[x] = body(f, x)
      BY <2>2, <3>2
    <3>4. \A x \in below(n) : x \in more => next[x] \in below(n - 1)
      <4> SUFFICES ASSUME NEW x \in more, size[x] < n PROVE size[next[x]] < n - 1
        OBVIOUS
      <4>1. size[next[x]] \in Nat /\ size[x] \in Nat /\ size[next[x]] < size[x]
        OBVIOUS
      <4> QED BY <2>2, <4>1
    <3>5. \A x \in below(n - 1) : g[x] = f[x]
      BY <3>3
    <3>6. ASSUME NEW x \in below(n) PROVE body(g, x) = body(f, x)
      <4>1. x \in more => g[next[x]] = f[next[x]]
        BY <3>4, <3>5
      <4> HIDE DEF g, below
      <4> QED BY <4>1
    <3>7. Sol(n, g)
      BY <3>6
    <3> QED BY <2>2, <3>7
  <2> QED BY <2>2, <2>3, <2>4
<1> DEFINE G(k) == CHOOSE f : Sol(k, f)
           F    == [x \in D |-> G(size[x] + 1)[x]]
<1>3. ASSUME NEW k \in Nat PROVE Sol(k, G(k))
  BY <1>2
<1> HIDE DEF G
<1>4. ASSUME NEW x \in D PROVE F[x] = body(F, x)
  <2>1. size[x] \in Nat /\ size[x] + 1 \in Nat /\ x \in below(size[x] + 1)
    OBVIOUS
  <2>2. F[x] = G(size[x] + 1)[x] /\ G(size[x] + 1)[x] = body(G(size[x] + 1), x)
    <3>1. Sol(size[x] + 1, G(size[x] + 1))
      BY <1>3, <2>1
    <3> QED BY <2>1, <3>1
  <2>3. ASSUME x \in more PROVE G(size[x] + 1)[next[x]] = F[next[x]]
    <3> DEFINE y == next[x]
    <3>1. y \in D /\ size[y] \in Nat /\ size[y] < size[x]
      BY <2>3
    <3>2. y \in below(size[x] + 1) \cap below(size[y] + 1) /\ size[y] + 1 \in Nat
      BY <2>1, <3>1
    <3>3. Sol(size[x] + 1, G(size[x] + 1)) /\ Sol(size[y] + 1, G(size[y] + 1))
      BY <1>3, <2>1, <3>2
    <3> HIDE DEF Sol, below, y
    <3>4. G(size[x] + 1)[y] = G(size[y] + 1)[y]
      BY <1>1, <2>1, <3>2, <3>3
    <3>5. F[y] = G(size[y] + 1)[y]
      BY <3>1
    <3> QED BY <3>4, <3>5 DEF y
  <2> HIDE DEF F
  <2> QED BY <2>2, <2>3
<1>5. F = [x \in D |-> F[x]]
  OBVIOUS
<1> HIDE DEF F
<1>6. (\A x \in D \ more : F[x] \in V) /\ (\A x \in more : F[next[x]] \in V => F[x] \in V)
        => \A x \in D : F[x] \in V
  <2> DEFINE S == {x \in D : F[x] \in V}
  <2>1. S \in SUBSET D
    OBVIOUS
  <2>2. D \ more \subseteq S /\ (\A x \in more : next[x] \in S => x \in S) => S = D
    <3> HIDE DEF S
    <3> QED BY <2>1, LoopInduction
  <2> QED BY <2>2
<1> SUFFICES ASSUME turn \in [D \X V -> V], base \in [D -> V]
             PROVE  \A x \in D : F[x] \in V
  BY <1>4, <1>5
<1>7. (\A x \in D \ more : F[x] \in V) /\ (\A x \in more : F[next[x]] \in V => F[x] \in V)
  BY <1>4
<1> QED BY <1>6, <1>7

\* What holds where it stops, and at x if it holds at next[x], holds everywhere.
Inductive(S, D, more, next) ==
  /\ \A x \in D : x \notin more => x \in S
  /\ \A x \in D : x \in more /\ next[x] \in S => x \in S

LEMMA RecursionInduction ==
  ASSUME NEW D, NEW more, NEW next, NEW size, NEW V, NEW turn, NEW base,
         Recursive(D, more, next, size, V, turn, base), NEW S, Inductive(S, D, more, next)
  PROVE  \A x \in D : x \in S
<1> DEFINE T == S \cap D
<1>1. /\ more \in SUBSET D /\ next \in [more -> D] /\ size \in [D -> Nat]
      /\ \A x \in more : size[next[x]] < size[x]
  BY DEF Recursive
<1>2. T \in SUBSET D /\ D \ more \subseteq T /\ \A x \in more : next[x] \in T => x \in T
  BY <1>1 DEF Inductive
<1> HIDE DEF T
<1>3. T = D
  BY <1>1, <1>2, LoopInduction
<1> QED BY <1>3 DEF T

\* Counting from 0 to n.
LEMMA CountUp ==
  ASSUME NEW n \in Nat, NEW S, 0 \in S, \A i \in 0 .. n - 1 : i \in S => i + 1 \in S
  PROVE  \A i \in 0 .. n : i \in S
<1> DEFINE out == {i \in 0 .. n : i \notin S}
<1> SUFFICES ASSUME out # {} PROVE FALSE
  OBVIOUS
<1>1. out \in SUBSET Nat
  OBVIOUS
<1>2. PICK i \in out : \A j \in out : i =< j
  <2> HIDE DEF out
  <2> QED BY <1>1, LeastNumber
<1>3. i - 1 \in 0 .. n - 1 /\ i - 1 \notin out
  BY <1>2
<1> QED BY <1>2, <1>3

\* So the function that a loop computes exists.
LEMMA LoopEnds ==
  ASSUME NEW D, NEW more \in SUBSET D, NEW next \in [more -> D], NEW size \in [D -> Nat],
         \A x \in more : size[next[x]] < size[x]
  PROVE  \E f : f = [x \in D |-> IF x \in more THEN f[next[x]] ELSE x]
<1> DEFINE turn == [p \in D \X D |-> p[2]]
           base == [x \in D |-> x]
<1>1. \A x \in D, v \in D : turn[<<x, v>>] = v /\ base[x] = x
  OBVIOUS
<1>2. Recursive(D, more, next, size, D, turn, base)
  BY DEF Recursive
<1> HIDE DEF turn, base
<1>3. PICK f \in [D -> D] : Computes(f, D, more, next, turn, base)
  BY <1>2, Recursion
<1>4. \A x \in more : turn[<<x, f[next[x]]>>] = f[next[x]]
  BY <1>1
<1>5. \A x \in D : f[x] = IF x \in more THEN f[next[x]] ELSE x
  BY <1>1, <1>3, <1>4 DEF Computes
<1>6. f = [x \in D |-> f[x]]
  OBVIOUS
<1> QED BY <1>5, <1>6

\* The greatest of a set of numbers up to n.
LEMMA GreatestNumber ==
  ASSUME NEW n \in Nat, NEW I \in SUBSET (0 .. n), I # {}
  PROVE  Max(I) \in I /\ \A j \in I : Max(I) >= j
<1> DEFINE D == {n - i : i \in I}
<1>1. \A i \in I : i \in Nat /\ n - i \in Nat
  OBVIOUS
<1>2. D \in SUBSET Nat /\ D # {}
  BY <1>1
<1>3. Min(D) \in D /\ \A y \in D : Min(D) =< y
  BY <1>2, LeastNumber
<1>4. PICK i \in I : Min(D) = n - i
  BY <1>3
<1>5. \A j \in I : n - i =< n - j
  BY <1>3, <1>4
<1>6. \A j \in I : i >= j
  BY <1>1, <1>5
<1> QED BY <1>4, <1>6 DEF Max

\* The greatest of a set of indices.
LEMMA GreatestIndex ==
  ASSUME NEW n \in Nat, NEW I \in SUBSET (1 .. n), I # {}
  PROVE  Max(I) \in I /\ \A j \in I : Max(I) >= j
<1>1. I \in SUBSET (0 .. n)
  OBVIOUS
<1> QED BY <1>1, GreatestNumber

\* Removing the first element by value leaves the tail.
LEMMA RemoveFirstHead ==
  ASSUME NEW S, NEW q \in Seq(S), q # <<>>
  PROVE  RemoveFirst(q, Head(q)) = Tail(q)
<1> DEFINE I == {i \in 1 .. Len(q) : q[i] = Head(q)}
<1>1. Len(q) \in Nat \ {0} /\ Head(q) = q[1]
  BY HeadTailProperties
<1>2. 1 \in I /\ \A i \in I : 1 =< i
  BY <1>1
<1>3. Min(I) = 1
  BY <1>2 DEF Min
<1>4. SelectInSeq(q, LAMBDA v : v = Head(q)) = 1
  BY <1>2, <1>3 DEF SelectInSeq
<1>5. RemoveFirst(q, Head(q)) = RemoveAt(q, 1)
  BY <1>2, <1>4 DEF RemoveFirst
<1>6. RemoveAt(q, 1) = Tail(q)
  BY <1>1 DEF RemoveAt
<1> QED BY <1>5, <1>6

\* Every element of a sequence is in its image.
LEMMA ElementInSet ==
  ASSUME NEW S, NEW q \in Seq(S), NEW i \in 1 .. Len(q)
  PROVE  q[i] \in ToSet(q)
BY DEF ToSet

\* The tail of a queue without duplicates has every element but the head.
LEMMA TailOfQueue ==
  ASSUME NEW S, NEW q \in Seq(S), q # <<>>, IsInjective(q)
  PROVE  /\ Tail(q) \in Seq(S)
         /\ ToSet(Tail(q)) = ToSet(q) \ {Head(q)}
         /\ IsInjective(Tail(q))
         /\ Head(q) \in S
<1>1. /\ Tail(q) \in Seq(S) /\ Head(q) \in S /\ Head(q) = q[1]
      /\ Len(q) \in Nat \ {0} /\ Len(Tail(q)) = Len(q) - 1
      /\ \A i \in 1 .. Len(Tail(q)) : Tail(q)[i] = q[i + 1]
  BY HeadTailProperties
<1>2. IsInjective(Tail(q))
  <2> SUFFICES ASSUME NEW i \in 1 .. Len(Tail(q)), NEW j \in 1 .. Len(Tail(q)),
                      Tail(q)[i] = Tail(q)[j]
               PROVE  i = j
    BY <1>1 DEF IsInjective
  <2>1. q[i + 1] = q[j + 1] /\ i + 1 \in 1 .. Len(q) /\ j + 1 \in 1 .. Len(q)
    BY <1>1
  <2> QED BY <2>1 DEF IsInjective
<1>3. ASSUME NEW x \in ToSet(Tail(q)) PROVE x \in ToSet(q) \ {Head(q)}
  <2>1. PICK i \in 1 .. Len(Tail(q)) : x = Tail(q)[i]
    BY <1>1 DEF ToSet
  <2>2. x = q[i + 1] /\ i + 1 \in 1 .. Len(q) /\ i + 1 # 1 /\ 1 \in 1 .. Len(q)
    BY <1>1, <2>1
  <2>3. x # q[1]
    BY <2>2 DEF IsInjective
  <2> QED BY <1>1, <2>2, <2>3 DEF ToSet
<1>4. ASSUME NEW x \in ToSet(q) \ {Head(q)} PROVE x \in ToSet(Tail(q))
  <2>1. PICK i \in 1 .. Len(q) : x = q[i]
    BY DEF ToSet
  <2>2. i # 1
    BY <1>1, <2>1
  <2>3. i - 1 \in 1 .. Len(Tail(q)) /\ Tail(q)[i - 1] = q[i]
    BY <1>1, <2>2
  <2>4. Tail(q)[i - 1] \in ToSet(Tail(q))
    BY <1>1, <2>3, ElementInSet
  <2> QED BY <2>1, <2>3, <2>4
<1> QED BY <1>1, <1>2, <1>3, <1>4

\* Joining two queues.
LEMMA JoinQueues ==
  ASSUME NEW S, NEW q \in Seq(S), NEW r \in Seq(S)
  PROVE  /\ q \o r \in Seq(S)
         /\ ToSet(q \o r) = ToSet(q) \cup ToSet(r)
         /\ IsInjective(q) /\ IsInjective(r) /\ ToSet(q) \cap ToSet(r) = {}
              => IsInjective(q \o r)
<1>1. /\ q \o r \in Seq(S) /\ Len(q \o r) = Len(q) + Len(r)
      /\ Len(q) \in Nat /\ Len(r) \in Nat
      /\ \A i \in 1 .. Len(q \o r) :
           (q \o r)[i] = IF i <= Len(q) THEN q[i] ELSE r[i - Len(q)]
  BY ConcatProperties
<1>2. ASSUME NEW x \in ToSet(q \o r) PROVE x \in ToSet(q) \cup ToSet(r)
  <2>1. PICK i \in 1 .. Len(q \o r) : x = (q \o r)[i]
    BY <1>1 DEF ToSet
  <2>2. CASE i <= Len(q)
    BY <1>1, <2>1, <2>2 DEF ToSet
  <2>3. CASE i > Len(q)
    <3>1. i - Len(q) \in 1 .. Len(r) /\ x = r[i - Len(q)]
      BY <1>1, <2>1, <2>3
    <3> QED BY <3>1 DEF ToSet
  <2> QED BY <1>1, <2>2, <2>3
<1>3. ASSUME NEW x \in ToSet(q) PROVE x \in ToSet(q \o r)
  <2>1. PICK i \in 1 .. Len(q) : x = q[i]
    BY DEF ToSet
  <2>2. i \in 1 .. Len(q \o r) /\ (q \o r)[i] = q[i]
    BY <1>1
  <2> QED BY <1>1, <2>1, <2>2, SMTT(30) DEF ToSet
<1>4. ASSUME NEW x \in ToSet(r) PROVE x \in ToSet(q \o r)
  <2>1. PICK i \in 1 .. Len(r) : x = r[i]
    BY DEF ToSet
  <2>2. i + Len(q) \in 1 .. Len(q \o r) /\ (q \o r)[i + Len(q)] = r[i]
    BY <1>1
  <2> QED BY <1>1, <2>1, <2>2 DEF ToSet
<1>5. ASSUME IsInjective(q), IsInjective(r), ToSet(q) \cap ToSet(r) = {}
      PROVE  IsInjective(q \o r)
  <2> SUFFICES ASSUME NEW i \in 1 .. Len(q \o r), NEW j \in 1 .. Len(q \o r),
                      (q \o r)[i] = (q \o r)[j]
               PROVE  i = j
    BY <1>1 DEF IsInjective
  <2>1. ASSUME NEW k \in 1 .. Len(q), NEW m \in 1 .. Len(r) PROVE q[k] # r[m]
    BY <1>5, ElementInSet
  <2>2. CASE i <= Len(q) /\ j <= Len(q)
    BY <1>1, <1>5, <2>2 DEF IsInjective
  <2>3. CASE i > Len(q) /\ j > Len(q)
    <3>1. /\ i - Len(q) \in 1 .. Len(r) /\ j - Len(q) \in 1 .. Len(r)
          /\ r[i - Len(q)] = r[j - Len(q)]
      BY <1>1, <2>3
    <3>2. i - Len(q) = j - Len(q)
      BY <1>5, <3>1 DEF IsInjective
    <3> QED BY <1>1, <3>2
  <2>4. CASE i <= Len(q) /\ j > Len(q)
    BY <1>1, <2>1, <2>4
  <2>5. CASE i > Len(q) /\ j <= Len(q)
    BY <1>1, <2>1, <2>5
  <2> QED BY <1>1, <2>2, <2>3, <2>4, <2>5
<1> QED BY <1>1, <1>2, <1>3, <1>4, <1>5

\* A queue of one element.
LEMMA Singleton ==
  ASSUME NEW S, NEW p \in S
  PROVE  <<p>> \in Seq(S) /\ Len(<<p>>) = 1 /\ ToSet(<<p>>) = {p} /\ IsInjective(<<p>>)
BY DEF ToSet, IsInjective

\* Appending a new element.
LEMMA AppendToQueue ==
  ASSUME NEW S, NEW q \in Seq(S), NEW p \in S
  PROVE  /\ Append(q, p) \in Seq(S)
         /\ ToSet(Append(q, p)) = ToSet(q) \cup {p}
         /\ IsInjective(q) /\ p \notin ToSet(q) => IsInjective(Append(q, p))
<1>1. Append(q, p) = q \o <<p>>
  BY AppendIsConcat
<1>2. /\ <<p>> \in Seq(S) /\ ToSet(<<p>>) = {p} /\ IsInjective(<<p>>)
  BY Singleton
<1>3. /\ q \o <<p>> \in Seq(S)
      /\ ToSet(q \o <<p>>) = ToSet(q) \cup ToSet(<<p>>)
      /\ IsInjective(q) /\ IsInjective(<<p>>) /\ ToSet(q) \cap ToSet(<<p>>) = {}
           => IsInjective(q \o <<p>>)
  BY <1>2, JoinQueues
<1> QED BY <1>1, <1>2, <1>3

\* What Rest and Front1 make of a queue without duplicates.
LEMMA FrontAndRest ==
  ASSUME NEW S, NEW q \in Seq(S), IsInjective(q)
  PROVE  /\ Rest(q) \in Seq(S) /\ IsInjective(Rest(q))
         /\ Front1(q) \in Seq(S) /\ IsInjective(Front1(q))
         /\ ToSet(Rest(q)) = ToSet(q) \ ToSet(Front1(q))
         /\ ToSet(Front1(q)) \subseteq ToSet(q)
         /\ IF q = <<>> THEN Front1(q) = <<>> /\ Rest(q) = <<>>
            ELSE /\ Front1(q) = <<Head(q)>> /\ Rest(q) = Tail(q) /\ Head(q) \in S
                 /\ ToSet(Front1(q)) = {Head(q)} /\ Head(q) \in ToSet(q)
<1>1. CASE q = <<>>
  BY <1>1 DEF Rest, Front1, ToSet, IsInjective
<1>2. CASE q # <<>>
  <2>1. /\ Tail(q) \in Seq(S) /\ ToSet(Tail(q)) = ToSet(q) \ {Head(q)}
        /\ IsInjective(Tail(q)) /\ Head(q) \in S
    BY <1>2, TailOfQueue
  <2>2. /\ <<Head(q)>> \in Seq(S) /\ ToSet(<<Head(q)>>) = {Head(q)}
        /\ IsInjective(<<Head(q)>>)
    BY <2>1, Singleton
  <2>3. Head(q) \in ToSet(q)
    BY <1>2, HeadTailProperties, ElementInSet
  <2>4. Rest(q) = Tail(q) /\ Front1(q) = <<Head(q)>>
    BY <1>2 DEF Rest, Front1
  <2> QED BY <1>2, <2>1, <2>2, <2>3, <2>4
<1> QED BY <1>1, <1>2

-----------------------------------------------------------------------------
\* A lock of the processes W: its owner and those who wait for it.

Inside(L) == ToSet(L.waiting) \cup ({L.pid} \ {NoOwner})

LockSound(L, W) ==
  /\ L \in [pid : W \cup {NoOwner}, waiting : Seq(W)]
  /\ IsInjective(L.waiting) /\ L.pid \notin ToSet(L.waiting)
  /\ L.waiting # <<>> => L.pid \in W

\* Who asks for the lock gets it, or waits behind the others.
LEMMA LockAsked ==
  ASSUME NEW W \in SUBSET Nat, NEW L, LockSound(L, W), NEW p \in W \ Inside(L),
         NEW M, M = LockAcquire(L, p)
  PROVE  /\ LockSound(M, W) /\ Inside(M) = Inside(L) \cup {p}
         /\ L.pid \in W => M.pid = L.pid
<1>1. /\ L \in [pid : W \cup {NoOwner}, waiting : Seq(W)] /\ L.waiting \in Seq(W)
      /\ IsInjective(L.waiting) /\ p \notin ToSet(L.waiting) /\ p # L.pid
      /\ NoOwner \notin W /\ p >= 0
  BY DEF LockSound, Inside, NoOwner
<1>2. CASE LockBlocks(L, p)
  <2>1. /\ Append(L.waiting, p) \in Seq(W) /\ IsInjective(Append(L.waiting, p))
        /\ ToSet(Append(L.waiting, p)) = ToSet(L.waiting) \cup {p}
    BY <1>1, AppendToQueue
  <2>2. L.pid \in W
    BY <1>1, <1>2 DEF LockBlocks, NoOwner
  <2>3. M = [L EXCEPT !.waiting = Append(@, p)]
    BY <1>2 DEF LockAcquire
  <2>4. M = [pid |-> L.pid, waiting |-> Append(L.waiting, p)]
    BY <1>1, <2>3
  <2> QED BY <1>1, <2>1, <2>2, <2>4 DEF LockSound, Inside
<1>3. CASE ~LockBlocks(L, p)
  <2>1. L.pid = NoOwner /\ L.waiting = <<>>
    <3>1. \A k \in W : k \in Nat /\ k >= 0
      OBVIOUS
    <3>2. L.pid \notin W
      BY <1>1, <1>3, <3>1 DEF LockBlocks
    <3> QED BY <1>1, <3>2 DEF LockSound
  <2>2. M = [pid |-> p, waiting |-> <<>>]
    BY <1>1, <1>3, <2>1 DEF LockAcquire
  <2>3. ToSet(<<>>) = {} /\ <<>> \in Seq(W) /\ IsInjective(<<>>)
    BY DEF ToSet, IsInjective
  <2> QED BY <1>1, <2>1, <2>2, <2>3 DEF LockSound, Inside
<1> QED BY <1>2, <1>3

\* The owner leaves; the first of those who wait is the next.
LEMMA LockLeft ==
  ASSUME NEW W \in SUBSET Nat, NEW L, LockSound(L, W), L.pid \in W,
         NEW M, M = LockRelease(L)
  PROVE  LockSound(M, W) /\ Inside(M) = Inside(L) \ {L.pid}
<1>1. /\ L \in [pid : W \cup {NoOwner}, waiting : Seq(W)] /\ L.waiting \in Seq(W)
      /\ IsInjective(L.waiting) /\ L.pid \notin ToSet(L.waiting) /\ NoOwner \notin W
  BY DEF LockSound, NoOwner
<1> DEFINE q == L.waiting
<1>2. M = [pid |-> IF q = <<>> THEN NoOwner ELSE Head(q), waiting |-> Rest(q)]
  BY <1>1 DEF LockRelease
<1>3. /\ Rest(q) \in Seq(W) /\ IsInjective(Rest(q))
      /\ ToSet(Rest(q)) = ToSet(q) \ ToSet(Front1(q))
      /\ IF q = <<>> THEN Front1(q) = <<>> /\ Rest(q) = <<>>
         ELSE Head(q) \in W /\ ToSet(Front1(q)) = {Head(q)} /\ Head(q) \in ToSet(q)
  BY <1>1, FrontAndRest
<1>4. ToSet(<<>>) = {}
  BY DEF ToSet
<1> HIDE DEF q
<1>5. CASE q = <<>>
  <2>1. Inside(M) = {} /\ Inside(L) = {L.pid}
    BY <1>1, <1>2, <1>3, <1>4, <1>5 DEF Inside, q
  <2> QED BY <1>1, <1>2, <1>3, <1>4, <1>5, <2>1 DEF LockSound
<1>6. CASE q # <<>>
  <2>1. Inside(M) = ToSet(q)
    BY <1>1, <1>2, <1>3, <1>6 DEF Inside
  <2>2. Inside(L) \ {L.pid} = ToSet(q)
    BY <1>1 DEF Inside, q
  <2> QED BY <1>1, <1>2, <1>3, <1>6, <2>1, <2>2 DEF LockSound
<1> QED BY <1>5, <1>6

-----------------------------------------------------------------------------
\* A semaphore that is not negative.  Who waits takes one or joins the queue.
LEMMA SemWaited ==
  ASSUME NEW W, NEW s \in [count : Nat, waiting : Seq(W)], IsInjective(s.waiting),
         NEW p \in W \ ToSet(s.waiting), NEW t, t = SemWait(s, p)
  PROVE  /\ t \in [count : Nat, waiting : Seq(W)] /\ IsInjective(t.waiting)
         /\ \/ t.count = s.count /\ ToSet(t.waiting) = ToSet(s.waiting) \cup {p}
            \/ t.count = s.count - 1 /\ t.waiting = s.waiting
<1>1. /\ Append(s.waiting, p) \in Seq(W) /\ IsInjective(Append(s.waiting, p))
      /\ ToSet(Append(s.waiting, p)) = ToSet(s.waiting) \cup {p}
  BY AppendToQueue
<1>2. CASE SemBlocks(s)
  <2>1. t = [s EXCEPT !.waiting = Append(s.waiting, p)]
    BY <1>2 DEF SemWait
  <2> QED BY <1>1, <2>1
<1>3. CASE ~SemBlocks(s)
  <2>1. t = [s EXCEPT !.count = s.count - 1] /\ s.count > 0
    BY <1>3 DEF SemWait, SemBlocks
  <2> QED BY <2>1
<1> QED BY <1>2, <1>3

\* Who signals adds one, or wakes somebody who waits.
LEMMA SemGiven ==
  ASSUME NEW W, NEW s \in [count : Nat, waiting : Seq(W)], IsInjective(s.waiting),
         NEW t, t = SemSignal(s)
  PROVE  /\ t \in [count : Nat, waiting : Seq(W)] /\ IsInjective(t.waiting)
         /\ \/ t.count = s.count + 1 /\ t.waiting = s.waiting
            \/ \E h \in ToSet(s.waiting) :
                 t.count = s.count /\ ToSet(t.waiting) = ToSet(s.waiting) \ {h}
<1>1. CASE s.waiting # <<>>
  <2>1. /\ Tail(s.waiting) \in Seq(W) /\ IsInjective(Tail(s.waiting))
        /\ ToSet(Tail(s.waiting)) = ToSet(s.waiting) \ {Head(s.waiting)}
    BY <1>1, TailOfQueue
  <2>2. Head(s.waiting) \in ToSet(s.waiting)
    BY <1>1, FrontAndRest
  <2>3. t = [s EXCEPT !.waiting = Tail(s.waiting)]
    BY <1>1 DEF SemSignal, SemWakes
  <2> QED BY <2>1, <2>2, <2>3
<1>2. CASE s.waiting = <<>>
  <2>1. t = [s EXCEPT !.count = s.count + 1]
    BY <1>2 DEF SemSignal, SemWakes
  <2> QED BY <2>1
<1> QED BY <1>1, <1>2

-----------------------------------------------------------------------------
\* The sequences that FlattenSeq goes through, and how much stands before the i-th.
Flattening(ss) ==
  LET flatten[i \in 1 .. Len(ss)] == IF i = 1 THEN ss[i] ELSE flatten[i - 1] \o ss[i]
  IN  flatten

Before(ss, i) == IF i = 1 THEN 0 ELSE Len(Flattening(ss)[i - 1])

LEMMA FlattenSteps ==
  ASSUME NEW S, NEW ss \in Seq(Seq(S)), Len(ss) # 0
  PROVE  /\ Flattening(ss) \in [1 .. Len(ss) -> Seq(S)]
         /\ Flattening(ss)[1] = ss[1]
         /\ \A i \in 2 .. Len(ss) : Flattening(ss)[i] = Flattening(ss)[i - 1] \o ss[i]
         /\ FlattenSeq(ss) = Flattening(ss)[Len(ss)]
<1> DEFINE n    == Len(ss)
           D    == 1 .. n
           more == 2 .. n
           next == [i \in more |-> i - 1]
           size == [i \in D |-> i]
           turn == [p \in D \X Seq(S) |-> p[2] \o ss[p[1]]]
           base == [i \in D |-> ss[i]]
           P(f) == f = [i \in D |-> IF i = 1 THEN ss[i] ELSE f[i - 1] \o ss[i]]
           h    == CHOOSE f : P(f)
<1>1. n \in Nat \ {0} /\ \A i \in 1 .. n : ss[i] \in Seq(S)
  OBVIOUS
<1>2. /\ more \in SUBSET D /\ next \in [more -> D] /\ size \in [D -> Nat]
      /\ \A i \in more : size[next[i]] < size[i] /\ next[i] = i - 1
  BY <1>1
<1>3. turn \in [D \X Seq(S) -> Seq(S)] /\ base \in [D -> Seq(S)]
  BY <1>1
<1>4. \A i \in D, v \in Seq(S) : turn[<<i, v>>] = v \o ss[i] /\ base[i] = ss[i]
  OBVIOUS
<1>5. \A i \in D : i \in more <=> i # 1
  BY <1>1
<1>6. FlattenSeq(ss) = h[n] /\ Flattening(ss) = h
  BY <1>1 DEF FlattenSeq, Flattening
<1> HIDE DEF n, D, more, next, size, turn, base
<1>7. Recursive(D, more, next, size, Seq(S), turn, base)
  BY <1>2, <1>3 DEF Recursive
<1>8. PICK g \in [D -> Seq(S)] : Computes(g, D, more, next, turn, base)
  BY <1>7, Recursion
<1>9. P(g)
  <2>1. \A i \in D : i \in more => g[i] = turn[<<i, g[next[i]]>>] /\ next[i] \in D
    BY <1>2, <1>8 DEF Computes
  <2>2. \A i \in D : i \notin more => g[i] = ss[i]
    BY <1>4, <1>8 DEF Computes
  <2>3. \A i \in D : i \in more => g[i] = g[i - 1] \o ss[i]
    BY <1>2, <1>4, <2>1
  <2> QED BY <1>5, <2>2, <2>3
<1>10. P(h)
  <2> HIDE DEF P
  <2> QED BY <1>9
<1>11. DOMAIN h = D /\ \A i \in D : h[i] = IF i = 1 THEN ss[i] ELSE h[i - 1] \o ss[i]
  <2> HIDE DEF h
  <2> QED BY <1>10
<1> HIDE DEF h, P
<1>12. \A i \in D : h[i] \in Seq(S)
  <2> DEFINE T == {i \in D : h[i] \in Seq(S)}
  <2>1. \A i \in D : i \in more /\ next[i] \in T => i \in T
    <3> SUFFICES ASSUME NEW i \in D, i \in more, h[next[i]] \in Seq(S) PROVE h[i] \in Seq(S)
      OBVIOUS
    <3>1. next[i] = i - 1 /\ h[i] = h[i - 1] \o ss[i] /\ ss[i] \in Seq(S)
      BY <1>1, <1>2, <1>5, <1>11 DEF D
    <3> QED BY <3>1
  <2>2. \A i \in D : i \notin more => i \in T
    BY <1>1, <1>5, <1>11 DEF D
  <2> HIDE DEF T
  <2>3. Inductive(T, D, more, next)
    BY <2>1, <2>2 DEF Inductive
  <2>4. \A i \in D : i \in T
    BY <1>7, <2>3, RecursionInduction
  <2> QED BY <2>4 DEF T
<1>13. h \in [1 .. n -> Seq(S)]
  BY <1>10, <1>12 DEF D, P
<1>14. 1 \in D /\ \A i \in 2 .. n : i \in D /\ i # 1
  BY <1>1 DEF D
<1>15. h[1] = ss[1] /\ \A i \in 2 .. n : h[i] = h[i - 1] \o ss[i]
  BY <1>11, <1>14
<1> QED BY <1>6, <1>13, <1>15 DEF n

\* Where the elements of some sequences are that are put one after the other.
LEMMA Flatten ==
  ASSUME NEW S, NEW ss \in Seq(Seq(S))
  PROVE  /\ \A i \in 1 .. Len(ss) + 1 : Before(ss, i) \in Nat
         /\ Before(ss, 1) = 0
         /\ FlattenSeq(ss) \in Seq(S) /\ Len(FlattenSeq(ss)) = Before(ss, Len(ss) + 1)
         /\ \A i \in 1 .. Len(ss) :
              /\ Before(ss, i + 1) = Before(ss, i) + Len(ss[i])
              /\ Before(ss, i + 1) <= Len(FlattenSeq(ss))
              /\ \A k \in 1 .. Len(ss[i]) : FlattenSeq(ss)[Before(ss, i) + k] = ss[i][k]
<1> DEFINE n       == Len(ss)
           all     == FlattenSeq(ss)
           from(i) == Before(ss, i)
<1>1. n \in Nat /\ \A i \in 1 .. n : ss[i] \in Seq(S) /\ Len(ss[i]) \in Nat
  OBVIOUS
<1>2. CASE n = 0
  <2>1. all = <<>>
    <3>1. \A q \in Seq(Seq(S)) : Len(q) = 0 => q = <<>>
      OBVIOUS
    <3> QED BY <1>2, <3>1 DEF FlattenSeq
  <2>2. from(1) = 0 /\ \A i \in 1 .. n + 1 : i = 1
    BY <1>2 DEF Before
  <2>3. /\ \A i \in 1 .. n : FALSE
        /\ all \in Seq(S) /\ Len(all) = 0
    BY <1>2, <2>1
  <2> HIDE DEF n, all
  <2> QED BY <1>2, <2>2, <2>3 DEF n, all
<1>3. CASE n # 0
  <2> DEFINE f == Flattening(ss)
  <2>1. /\ f \in [1 .. n -> Seq(S)] /\ all = f[n]
        /\ f[1] = ss[1] /\ \A i \in 2 .. n : f[i] = f[i - 1] \o ss[i]
    BY <1>3, FlattenSteps
  <2>2. from(1) = 0 /\ \A i \in 1 .. n : from(i + 1) = Len(f[i])
    BY <1>1 DEF Before
  <2> HIDE DEF n, all, from, f
  <2>3. \A i \in 1 .. n : f[i] \in Seq(S) /\ Len(f[i]) \in Nat
    BY <2>1
  <2>4. \A i \in 1 .. n + 1 : from(i) \in Nat
    <3>1. \A i \in 1 .. n + 1 : i = 1 \/ (i - 1 \in 1 .. n /\ (i - 1) + 1 = i)
      BY <1>1
    <3> SUFFICES ASSUME NEW i \in 1 .. n + 1 PROVE from(i) \in Nat
      OBVIOUS
    <3>2. CASE i = 1
      BY <2>2, <3>2
    <3>3. CASE i - 1 \in 1 .. n /\ (i - 1) + 1 = i
      BY <2>3, <2>2, <3>3
    <3> QED BY <3>1, <3>2, <3>3
  <2>5. \A i \in 1 .. n : from(i + 1) = Len(f[i])
    BY <2>2
  <2>6. \A i \in 2 .. n : from(i) = Len(f[i - 1])
    <3>1. \A i \in 2 .. n : i - 1 \in 1 .. n /\ (i - 1) + 1 = i
      BY <1>1
    <3> QED BY <2>5, <3>1
  <2>7. ASSUME NEW m \in 2 .. n
        PROVE  /\ Len(f[m]) = Len(f[m - 1]) + Len(ss[m])
               /\ \A k \in 1 .. Len(f[m - 1]) : f[m][k] = f[m - 1][k]
               /\ \A k \in 1 .. Len(ss[m]) : f[m][from(m) + k] = ss[m][k]
    <3> DEFINE q == f[m - 1]
               r == ss[m]
    <3>1. q \in Seq(S) /\ r \in Seq(S) /\ f[m] = q \o r /\ from(m) = Len(q)
      <4>1. m \in 1 .. n /\ m - 1 \in 1 .. n
        BY <1>1
      <4> QED BY <1>1, <2>1, <2>3, <2>6, <4>1
    <3> HIDE DEF q, r
    <3>2. /\ Len(q \o r) = Len(q) + Len(r)
          /\ \A k \in 1 .. Len(q) : (q \o r)[k] = q[k]
          /\ \A k \in 1 .. Len(r) : (q \o r)[from(m) + k] = r[k]
      BY <3>1
    <3> QED BY <3>1, <3>2 DEF q, r
  <2> DEFINE In(m, i) == /\ from(i + 1) <= Len(f[m])
                         /\ \A k \in 1 .. Len(ss[i]) : f[m][from(i) + k] = ss[i][k]
  <2>8. ASSUME NEW i \in 1 .. n
        PROVE  from(i + 1) = from(i) + Len(ss[i]) /\ In(i, i)
    <3>1. CASE i = 1
      <4>1. from(i) = 0 /\ from(i + 1) = Len(f[i]) /\ f[i] = ss[i] /\ Len(ss[i]) \in Nat
        BY <1>1, <2>1, <2>2, <3>1
      <4>2. \A k \in 1 .. Len(ss[i]) : 0 + k = k
        BY <4>1
      <4> QED BY <4>1, <4>2
    <3>2. CASE i \in 2 .. n
      <4>1. i \in 1 .. n /\ i \in 1 .. n + 1
        BY <1>1
      <4>2. from(i + 1) = Len(f[i]) /\ Len(f[i]) \in Nat
        BY <2>3, <2>5, <4>1
      <4>3. from(i + 1) <= Len(f[i])
        BY <4>2
      <4>4. from(i + 1) = from(i) + Len(ss[i])
        BY <2>7, <2>6, <3>2, <4>2
      <4>5. \A k \in 1 .. Len(ss[i]) : f[i][from(i) + k] = ss[i][k]
        BY <2>7, <3>2
      <4> QED BY <4>3, <4>4, <4>5
    <3> QED BY <1>1, <3>1, <3>2
  <2>9. ASSUME NEW i \in 1 .. n, NEW m \in 2 .. n, In(m - 1, i) PROVE In(m, i)
    <3>1. /\ Len(f[m - 1]) \in Nat /\ Len(ss[m]) \in Nat /\ from(i) \in Nat /\ Len(ss[i]) \in Nat
          /\ from(i + 1) = from(i) + Len(ss[i]) /\ from(i + 1) <= Len(f[m - 1])
          /\ Len(f[m]) = Len(f[m - 1]) + Len(ss[m])
      <4>1. m - 1 \in 1 .. n /\ m \in 1 .. n /\ i \in 1 .. n + 1
        BY <1>1
      <4> QED BY <1>1, <2>3, <2>4, <2>7, <2>8, <2>9, <4>1
    <3>2. from(i + 1) <= Len(f[m])
      <4>1. \A x \in Nat, y \in Nat, z \in Nat : z <= x => z <= x + y
        OBVIOUS
      <4>2. from(i + 1) \in Nat
        <5>1. i + 1 \in 1 .. n + 1
          BY <1>1
        <5> QED BY <2>4, <5>1
      <4> QED BY <3>1, <4>1, <4>2
    <3>3. \A k \in 1 .. Len(ss[i]) : from(i) + k \in 1 .. Len(f[m - 1])
      <4> DEFINE x == from(i)
                 y == from(i + 1)
                 u == Len(ss[i])
                 v == Len(f[m - 1])
      <4>1. x \in Nat /\ u \in Nat /\ v \in Nat /\ y = x + u /\ y <= v
        BY <3>1
      <4> HIDE DEF x, y, u, v
      <4>2. \A k \in 1 .. u : x + k \in 1 .. v
        BY <4>1
      <4> QED BY <4>2 DEF x, u, v
    <3>4. \A k \in 1 .. Len(ss[i]) : f[m][from(i) + k] = f[m - 1][from(i) + k]
      BY <2>7, <3>3
    <3> QED BY <2>9, <3>2, <3>4
  <2> HIDE DEF In
  <2> DEFINE Q == {j \in 0 .. n - 1 : \A i \in 1 .. j + 1 : In(j + 1, i)}
  <2>10. 0 \in Q
    BY <1>1, <1>3, <2>8
  <2>11. \A j \in 0 .. (n - 1) - 1 : j \in Q => j + 1 \in Q
    <3> SUFFICES ASSUME NEW j \in 0 .. (n - 1) - 1, j \in Q
                 PROVE  j + 1 \in 0 .. n - 1 /\ \A i \in 1 .. (j + 1) + 1 : In((j + 1) + 1, i)
      OBVIOUS
    <3>1. /\ j + 1 \in 0 .. n - 1 /\ (j + 1) + 1 \in 2 .. n /\ ((j + 1) + 1) - 1 = j + 1
          /\ \A i \in 1 .. (j + 1) + 1 : i \in 1 .. n /\ (i = (j + 1) + 1 \/ i \in 1 .. j + 1)
      BY <1>1
    <3> QED BY <2>8, <2>9, <3>1
  <2>12. \A i \in 1 .. n : In(n, i)
    <3>1. n - 1 \in Nat /\ n - 1 \in 0 .. n - 1 /\ (n - 1) + 1 = n
      BY <1>1, <1>3
    <3>2. n - 1 \in Q
      <4> HIDE DEF Q
      <4> QED BY <2>10, <2>11, <3>1, CountUp
    <3> QED BY <3>1, <3>2
  <2>13. all \in Seq(S) /\ Len(all) = from(n + 1)
    BY <1>1, <1>3, <2>1, <2>3, <2>5
  <2>14. \A i \in 1 .. n : /\ from(i + 1) <= Len(all)
                           /\ \A k \in 1 .. Len(ss[i]) : all[from(i) + k] = ss[i][k]
    BY <2>1, <2>12 DEF In
  <2> QED BY <2>4, <2>2, <2>8, <2>13, <2>14 DEF n, all, from
<1> QED BY <1>2, <1>3
=============================================================================
