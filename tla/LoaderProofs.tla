---------------------------- MODULE LoaderProofs ----------------------------
(***************************************************************************)
(* The loader, for every number of slots, every set of files, every list   *)
(* of arguments and every size of a page, a read and the buffers.          *)
(*                                                                         *)
(* Descriptors.  DescriptorsAccounted is not inductive alone: that a load  *)
(* which ends frees its own slot, and no lost one, needs its descriptor to *)
(* be valid and not lost; that boot meets no load in progress needs        *)
(* booted.                                                                 *)
(*                                                                         *)
(* Programs and arguments.  What a started process finds in its memory is  *)
(* decided while it is loaded: Reading says that the lines read so far are *)
(* in the memory and that the next one belongs where "addr" points.  Under *)
(* it stand the conversions one by one: a number and its digits, strings   *)
(* and the buffer, the buffer and the offsets, a copy and the memory, and  *)
(* lines and the bytes that are read at once.                              *)
(***************************************************************************)
EXTENDS Loader, QueueLemmas

Taken(files) == {x \in Slots : files[x] # "free"}

\* FsOpen takes a free slot, if there is one and the file can be opened.
LEMMA OpenTakesFree ==
  ASSUME NEW files \in [Slots -> Entries], NEW file, NEW fd, fd = OpenedAt(files, file),
         NEW opened, opened = FsOpen(files, file)
  PROVE  \/ fd = -1 /\ opened = files
         \/ /\ fd \in Slots /\ files[fd] = "free" /\ opened \in [Slots -> Entries]
            /\ opened[fd] # "free" /\ \A x \in Slots \ {fd} : opened[x] = files[x]
<1> DEFINE free == {x \in Slots : files[x] = "free"}
<1>1. CASE free = {} \/ file.kind = "missing"
  BY <1>1 DEF OpenedAt, FsOpen
<1>2. CASE free # {} /\ file.kind # "missing"
  <2>1. free \in SUBSET Nat
    BY DEF Slots
  <2>2. fd = Min(free)
    BY <1>2 DEF OpenedAt
  <2>3. fd \in free
    BY <1>2, <2>1, <2>2, LeastNumber
  <2>4. fd \in Slots /\ files[fd] = "free" /\ ~(fd < 0)
    BY <2>3, FilesAssumption DEF Slots
  <2> QED BY <2>4 DEF FsOpen, Entries
<1> QED BY <1>1, <1>2

\* FsClose frees a valid slot and nothing else.
LEMMA CloseFrees ==
  ASSUME NEW files \in [Slots -> Entries], NEW fd \in Slots, files[fd] # "free",
         NEW closed, closed = FsClose(files, fd)
  PROVE  /\ closed \in [Slots -> Entries]
         /\ Taken(closed) = IF fd = 0 THEN Taken(files) ELSE Taken(files) \ {fd}
<1>1. FdValid(files, fd) <=> fd # 0
  BY FilesAssumption DEF FdValid, Slots
<1> QED BY <1>1 DEF FsClose, Taken, Entries

\* A header that is read keeps its slot; of the others, only a file in slot 0 or
\* without a start line keeps one.
LEMMA CodeInfo ==
  ASSUME NEW files \in [Slots -> Entries], NEW file,
         NEW slot, slot = OpenedAt(files, file),
         NEW info, info = ProcessGetCodeInfo(files, file)
  PROVE  /\ info.openfiles \in [Slots -> Entries]
         /\ \/ info.fd = -1 /\ slot = -1 /\ Taken(info.openfiles) = Taken(files)
            \/ /\ info.fd = -1 /\ slot \in Slots
               /\ Taken(info.openfiles) =
                    Taken(files) \cup (IF slot = 0 \/ file.kind = "noStart" THEN {slot} ELSE {})
            \/ /\ info.fd = slot /\ slot \in Slots \ {0} /\ slot \notin Taken(files)
               /\ file.kind # "noStart"
               /\ Taken(info.openfiles) = Taken(files) \cup {slot}
<1> SUFFICES ASSUME NEW opened, opened = FsOpen(files, file)
             PROVE  /\ info.openfiles \in [Slots -> Entries]
                    /\ \/ info.fd = -1 /\ slot = -1 /\ Taken(info.openfiles) = Taken(files)
                       \/ /\ info.fd = -1 /\ slot \in Slots
                          /\ Taken(info.openfiles) =
                               Taken(files) \cup (IF slot = 0 \/ file.kind = "noStart"
                                                  THEN {slot} ELSE {})
                       \/ /\ info.fd = slot /\ slot \in Slots \ {0} /\ slot \notin Taken(files)
                          /\ file.kind # "noStart"
                          /\ Taken(info.openfiles) = Taken(files) \cup {slot}
  OBVIOUS
<1>1. CASE slot = -1 /\ opened = files
  BY <1>1 DEF ProcessGetCodeInfo
<1>2. CASE /\ slot \in Slots /\ files[slot] = "free" /\ opened \in [Slots -> Entries]
           /\ opened[slot] # "free" /\ \A x \in Slots \ {slot} : opened[x] = files[x]
  <2>1. slot \notin Taken(files) /\ Taken(opened) = Taken(files) \cup {slot}
    BY <1>2 DEF Taken
  <2>2. ~(slot < 0) /\ (FdValid(opened, slot) <=> slot # 0)
    BY <1>2, FilesAssumption DEF FdValid, Slots
  <2>3. CASE slot # 0 /\ file.kind = "noStart"
    BY <1>2, <2>1, <2>2, <2>3 DEF ProcessGetCodeInfo
  <2>4. CASE slot # 0 /\ file.kind = "program"
    BY <1>2, <2>1, <2>2, <2>4 DEF ProcessGetCodeInfo
  <2>5. CASE slot = 0 \/ file.kind \notin {"noStart", "program"}
    <3>1. info = [fd |-> -1, openfiles |-> FsClose(opened, slot)]
      BY <2>2, <2>5 DEF ProcessGetCodeInfo
    <3>2. /\ info.openfiles \in [Slots -> Entries]
          /\ Taken(info.openfiles) = IF slot = 0 THEN Taken(opened) ELSE Taken(opened) \ {slot}
      BY <1>2, <3>1, CloseFrees
    <3> QED BY <1>2, <2>1, <2>5, <3>1, <3>2
  <2> QED BY <2>3, <2>4, <2>5
<1> QED BY <1>1, <1>2, OpenTakesFree

-----------------------------------------------------------------------------
\* A load in progress has a valid descriptor, which is not lost.
LoadSound ==
  load.phase = "reading" => /\ booted /\ {"phase", "fd"} \subseteq DOMAIN load
                            /\ load.fd \in Slots \ {0} /\ load.fd \notin lost

LoaderInv ==
  /\ openfiles \in [Slots -> Entries]
  /\ lost \subseteq Slots
  /\ LoadSound
  /\ DescriptorsAccounted

LEMMA AtFirst == Init => LoaderInv
BY DEF Init, LoaderInv, LoadSound, DescriptorsAccounted, FsModuleInit, Entries, NoLoad

LEMMA DumpKeeps == LoaderInv /\ DumpFile => LoaderInv'
<1> SUFFICES ASSUME LoaderInv, DumpFile
             PROVE  LoaderInv'
  OBVIOUS
<1>1. openfiles' \in [Slots -> Entries]
  BY CodeInfo DEF LoaderInv, DumpFile
<1>2. load.phase # "reading" /\ load' = load
  BY DEF LoaderInv, LoadSound, DumpFile
<1> QED BY <1>1, <1>2 DEF LoaderInv, LoadSound, DescriptorsAccounted, DumpFile

\* Boot opens "vm" and closes it again, unless its slot is 0.
LEMMA BootKeeps == ASSUME NEW exists, LoaderInv, OpenVm(exists) PROVE LoaderInv'
<1> SUFFICES ASSUME NEW vm, vm = [kind |-> IF exists THEN "unix" ELSE "missing"],
                    NEW fd, fd = OpenedAt(openfiles, vm),
                    NEW opened, opened = FsOpen(openfiles, vm)
             PROVE  LoaderInv'
  OBVIOUS
<1>1. /\ openfiles' = FsClose(opened, fd) /\ load' = load /\ load.phase # "reading"
      /\ lost' = IF fd = 0 THEN lost \cup {0} ELSE lost
  BY DEF LoaderInv, LoadSound, OpenVm
<1>2. openfiles' \in [Slots -> Entries] /\ lost' \subseteq Slots /\ Taken(openfiles') = lost'
  <2>1. openfiles \in [Slots -> Entries] /\ lost \subseteq Slots /\ Taken(openfiles) = lost
    BY <1>1 DEF LoaderInv, DescriptorsAccounted, Taken
  <2>2. CASE fd = -1 /\ opened = openfiles
    <3>1. openfiles' = openfiles
      BY <1>1, <2>2 DEF FsClose, FdValid
    <3>2. lost' = lost
      BY <1>1, <2>2
    <3> QED BY <2>1, <3>1, <3>2
  <2>3. CASE /\ fd \in Slots /\ openfiles[fd] = "free" /\ opened \in [Slots -> Entries]
             /\ opened[fd] # "free" /\ \A x \in Slots \ {fd} : opened[x] = openfiles[x]
    <3>1. Taken(opened) = Taken(openfiles) \cup {fd} /\ fd \notin Taken(openfiles)
      BY <2>3 DEF Taken
    <3>2. \A closed : closed = FsClose(opened, fd) =>
            /\ closed \in [Slots -> Entries]
            /\ Taken(closed) = IF fd = 0 THEN Taken(opened) ELSE Taken(opened) \ {fd}
      BY <2>3, CloseFrees
    <3>3. /\ openfiles' \in [Slots -> Entries]
          /\ Taken(openfiles') = IF fd = 0 THEN Taken(opened) ELSE Taken(opened) \ {fd}
      BY <1>1, <3>2
    <3>4. lost' = IF fd = 0 THEN lost \cup {fd} ELSE lost
      BY <1>1
    <3> QED BY <2>1, <2>3, <3>1, <3>3, <3>4
  <2> QED BY <2>1, <2>2, <2>3, OpenTakesFree
<1> QED BY <1>1, <1>2 DEF LoaderInv, LoadSound, DescriptorsAccounted, Taken

\* A fork that fails to open its file keeps the slot only if it is lost.
LEMMA BeginKeeps ==
  ASSUME NEW file \in Programs, NEW args, LoaderInv, BeginLoad(file, args)
  PROVE  LoaderInv'
<1> SUFFICES ASSUME NEW slot, slot = OpenedAt(openfiles, file),
                    NEW info, info = ProcessGetCodeInfo(openfiles, file)
             PROVE  LoaderInv'
  OBVIOUS
<1>1. /\ openfiles \in [Slots -> Entries] /\ lost \subseteq Slots /\ Taken(openfiles) = lost
      /\ booted' /\ openfiles' = info.openfiles
      /\ lost' = IF slot = 0 \/ (slot > 0 /\ file.kind = "noStart")
                 THEN lost \cup {slot} ELSE lost
  BY DEF LoaderInv, DescriptorsAccounted, BeginLoad, Taken
<1>2. CASE info.fd = -1
  <2>1. load' = NoLoad
    BY <1>2 DEF BeginLoad
  <2>2. /\ openfiles' \in [Slots -> Entries] /\ lost' \subseteq Slots
        /\ Taken(openfiles') = lost'
    <3>1. CASE slot = -1 /\ Taken(info.openfiles) = Taken(openfiles)
      BY <1>1, <3>1, CodeInfo
    <3>2. CASE /\ slot \in Slots
               /\ Taken(info.openfiles) =
                    Taken(openfiles)
                      \cup (IF slot = 0 \/ file.kind = "noStart" THEN {slot} ELSE {})
      <4>1. slot = 0 \/ slot > 0
        BY <3>2, FilesAssumption DEF Slots
      <4> QED BY <1>1, <3>2, <4>1, CodeInfo
    <3>3. ~(-1 \in Slots \ {0})
      BY FilesAssumption DEF Slots
    <3>4. ~(info.fd = slot /\ slot \in Slots \ {0})
      BY <1>2, <3>3
    <3>5. \/ slot = -1 /\ Taken(info.openfiles) = Taken(openfiles)
          \/ /\ slot \in Slots
             /\ Taken(info.openfiles) =
                  Taken(openfiles)
                    \cup (IF slot = 0 \/ file.kind = "noStart" THEN {slot} ELSE {})
      BY <1>1, <3>4, CodeInfo
    <3> QED BY <3>1, <3>2, <3>5
  <2> QED BY <2>1, <2>2 DEF LoaderInv, LoadSound, DescriptorsAccounted, NoLoad, Taken
<1>3. CASE /\ info.fd = slot /\ slot \in Slots \ {0} /\ slot \notin Taken(openfiles)
           /\ file.kind # "noStart" /\ Taken(info.openfiles) = Taken(openfiles) \cup {slot}
  <2>1. ~(info.fd < 0)
    BY <1>3, FilesAssumption DEF Slots
  <2>2. load'.phase = "reading" /\ load'.fd = slot /\ {"phase", "fd"} \subseteq DOMAIN load'
    BY <1>3, <2>1 DEF BeginLoad
  <2>3. openfiles' \in [Slots -> Entries] /\ lost' = lost
    BY <1>1, <1>3, CodeInfo
  <2> QED BY <1>1, <1>3, <2>2, <2>3 DEF LoaderInv, LoadSound, DescriptorsAccounted, Taken
<1> QED BY <1>1, <1>2, <1>3, CodeInfo

\* Reading moves no descriptor.
LEMMA ReadKeeps == LoaderInv /\ ReadPart => LoaderInv'
<1> SUFFICES ASSUME LoaderInv, ReadPart
             PROVE  LoaderInv'
  OBVIOUS
<1>1. load.phase = "reading" /\ {"phase", "fd"} \subseteq DOMAIN load
  BY DEF LoaderInv, LoadSound, ReadPart
<1>2. load'.phase = load.phase /\ load'.fd = load.fd /\ DOMAIN load' = DOMAIN load
  BY <1>1 DEF ReadPart
<1>3. UNCHANGED <<openfiles, booted, lost>>
  BY DEF ReadPart
<1> QED BY <1>2, <1>3 DEF LoaderInv, LoadSound, DescriptorsAccounted

\* The end of a load frees its slot.
LEMMA FinishKeeps == LoaderInv /\ FinishLoad => LoaderInv'
<1> SUFFICES ASSUME LoaderInv, FinishLoad
             PROVE  LoaderInv'
  OBVIOUS
<1>1. /\ load.fd \in Slots \ {0} /\ load.fd \notin lost /\ "phase" \in DOMAIN load
      /\ Taken(openfiles) = lost \cup {load.fd} /\ openfiles \in [Slots -> Entries]
  BY DEF LoaderInv, LoadSound, DescriptorsAccounted, FinishLoad, Taken
<1>2. load'.phase = "started" /\ lost' = lost
  BY <1>1 DEF FinishLoad
<1>3. openfiles' \in [Slots -> Entries] /\ Taken(openfiles') = Taken(openfiles) \ {load.fd}
  <2>1. openfiles' = FsClose(openfiles, load.fd) /\ openfiles[load.fd] # "free"
    BY <1>1 DEF FinishLoad, Taken
  <2> QED BY <1>1, <2>1, CloseFrees
<1> QED BY <1>1, <1>2, <1>3 DEF LoaderInv, LoadSound, DescriptorsAccounted, Taken

\* At whatever point a fork fails, and whatever is in its file, no descriptor is
\* left open but those of slot 0, the "-f" options and the files without a
\* start line (process.c:599-647, 850-890).
THEOREM DescriptorsStayAccounted == Spec => []DescriptorsAccounted
<1>1. LoaderInv /\ [Next]_vars => LoaderInv'
  <2> SUFFICES ASSUME LoaderInv, [Next]_vars
               PROVE  LoaderInv'
    OBVIOUS
  <2>1. CASE DumpFile
    BY <2>1, DumpKeeps
  <2>2. CASE \E exists \in BOOLEAN : OpenVm(exists)
    BY <2>2, BootKeeps
  <2>3. CASE \E file \in Programs, args \in ArgumentLists : BeginLoad(file, args)
    BY <2>3, BeginKeeps
  <2>4. CASE ReadPart
    BY <2>4, ReadKeeps
  <2>5. CASE FinishLoad
    BY <2>5, FinishKeeps
  <2>6. CASE UNCHANGED vars
    BY <2>6 DEF vars, LoaderInv, LoadSound, DescriptorsAccounted
  <2> QED BY <2>1, <2>2, <2>3, <2>4, <2>5, <2>6 DEF Next
<1>2. LoaderInv => DescriptorsAccounted
  BY DEF LoaderInv
<1> QED BY <1>1, <1>2, AtFirst, PTL DEF Spec

-----------------------------------------------------------------------------
\* A number has at least one digit.
LEMMA DigitsOf ==
  /\ \A n \in Nat : Digits[n] = IF n < 10 THEN <<n>> ELSE Append(Digits[n \div 10], n % 10)
  /\ \A n \in Nat : Digits[n] \in Seq(0 .. 9) \ {<<>>}
<1> DEFINE V    == Seq(0 .. 9) \ {<<>>}
           more == {n \in Nat : n >= 10}
           next == [n \in more |-> n \div 10]
           size == [n \in Nat |-> n]
           turn == [p \in Nat \X V |-> Append(p[2], p[1] % 10)]
           base == [n \in Nat |-> IF n < 10 THEN <<n>> ELSE <<0>>]
           P(f) == f = [n \in Nat |-> IF n < 10 THEN <<n>> ELSE Append(f[n \div 10], n % 10)]
<1>1. more \in SUBSET Nat /\ next \in [more -> Nat] /\ size \in [Nat -> Nat]
  OBVIOUS
<1>2. \A n \in more : next[n] = n \div 10 /\ n \div 10 \in Nat /\ n \div 10 < n
  OBVIOUS
<1>3. \A n \in more : size[next[n]] < size[n]
  BY <1>2
<1>4. \A n \in Nat, v \in V : Append(v, n % 10) \in V
  <2> SUFFICES ASSUME NEW n \in Nat, NEW v \in V PROVE Append(v, n % 10) \in V
    OBVIOUS
  <2>1. n % 10 \in 0 .. 9
    OBVIOUS
  <2>2. Append(v, n % 10) \in Seq(0 .. 9) /\ Len(Append(v, n % 10)) # 0
    BY <2>1
  <2> QED BY <2>2
<1>5. turn \in [Nat \X V -> V]
  BY <1>4
<1>6. base \in [Nat -> V]
  <2>1. \A n \in Nat : base[n] \in V
    OBVIOUS
  <2> QED BY <2>1
<1>7. \A n \in Nat, v \in V : turn[<<n, v>>] = Append(v, n % 10)
  OBVIOUS
<1>8. \A n \in Nat : n < 10 => base[n] = <<n>> /\ <<n>> \in V
  OBVIOUS
<1>9. \A n \in Nat : n \in more <=> ~(n < 10)
  OBVIOUS
<1> HIDE DEF V, more, next, size, turn, base
<1>10. Recursive(Nat, more, next, size, V, turn, base)
  BY <1>1, <1>3, <1>5, <1>6 DEF Recursive
<1>11. PICK g \in [Nat -> V] : Computes(g, Nat, more, next, turn, base)
  BY <1>10, Recursion
<1>12. P(g)
  <2>1. \A n \in Nat : n \in more => g[n] = turn[<<n, g[next[n]]>>]
    BY <1>11 DEF Computes
  <2>2. \A n \in Nat : n \notin more => g[n] = base[n]
    BY <1>11 DEF Computes
  <2>3. \A n \in Nat : ~(n < 10) => g[n] = Append(g[n \div 10], n % 10)
    BY <1>2, <1>7, <1>9, <2>1
  <2>4. \A n \in Nat : n < 10 => g[n] = <<n>>
    BY <1>8, <1>9, <2>2
  <2> QED BY <2>3, <2>4
<1>13. P(Digits)
  <2> HIDE DEF P
  <2>1. Digits = CHOOSE f : P(f)
    BY DEF Digits, P
  <2> QED BY <1>12, <2>1
<1>14. \A n \in Nat : Digits[n] = IF n < 10 THEN <<n>> ELSE Append(Digits[n \div 10], n % 10)
  BY <1>13
<1> HIDE DEF P
<1> DEFINE T == {n \in Nat : Digits[n] \in V}
<1>15. Inductive(T, Nat, more, next)
  <2>1. \A n \in Nat : n \notin more => n \in T
    BY <1>8, <1>9, <1>14
  <2>2. \A n \in Nat : n \in more /\ next[n] \in T => n \in T
    <3> SUFFICES ASSUME NEW n \in Nat, n \in more, Digits[next[n]] \in V PROVE Digits[n] \in V
      OBVIOUS
    <3>1. next[n] = n \div 10 /\ Digits[n] = Append(Digits[n \div 10], n % 10)
      BY <1>2, <1>9, <1>14
    <3> QED BY <1>4, <3>1
  <2> QED BY <2>1, <2>2 DEF Inductive
<1>16. \A n \in Nat : n \in T
  <2> HIDE DEF T
  <2> QED BY <1>10, <1>15, RecursionInduction
<1> QED BY <1>14, <1>16 DEF V

\* The values of the sets of digits that FoldLeft goes through, and of the first k.
Values(s) ==
  LET value[x \in SUBSET DOMAIN s] ==
        IF x = {} THEN 0 ELSE 10 * value[x \ {Max(x)}] + s[Max(x)]
  IN  value

Value(s, k) == Values(s)[1 .. k]

LEMMA ValueSteps ==
  ASSUME NEW s \in Seq(0 .. 9)
  PROVE  /\ dstrtol(s) = Value(s, Len(s)) /\ Value(s, 0) = 0
         /\ \A k \in 1 .. Len(s) : Value(s, k) = 10 * Value(s, k - 1) + s[k]
<1> DEFINE n    == Len(s)
           D    == SUBSET (1 .. n)
           more == {x \in D : x # {}}
           next == [x \in more |-> x \ {Max(x)}]
           size == [x \in D |-> IF x = {} THEN 0 ELSE Max(x)]
           turn == [p \in D \X Nat |-> IF p[1] = {} THEN 0 ELSE 10 * p[2] + s[Max(p[1])]]
           base == [x \in D |-> 0]
           P(f) == f = [x \in D |-> IF x = {} THEN 0 ELSE 10 * f[x \ {Max(x)}] + s[Max(x)]]
           h    == Values(s)
<1>1. n \in Nat /\ DOMAIN s = 1 .. n /\ \A i \in 1 .. n : s[i] \in 0 .. 9
  OBVIOUS
<1>2. \A x \in D : x # {} => Max(x) \in x /\ Max(x) \in 1 .. n /\ \A i \in x : Max(x) >= i
  BY <1>1, GreatestIndex
<1>3. more \in SUBSET D /\ next \in [more -> D] /\ size \in [D -> Nat]
  <2>1. size \in [D -> Nat]
    BY <1>2
  <2> QED BY <2>1
<1>4. \A x \in more : size[next[x]] < size[x] /\ next[x] = x \ {Max(x)}
  <2> SUFFICES ASSUME NEW x \in D, x # {} PROVE size[x \ {Max(x)}] < size[x]
    OBVIOUS
  <2>1. size[x] = Max(x) /\ Max(x) \in 1 .. n
    BY <1>2
  <2>2. CASE x \ {Max(x)} = {}
    <3>1. size[x \ {Max(x)}] = 0
      BY <2>2
    <3> QED BY <2>1, <3>1
  <2>3. CASE x \ {Max(x)} # {}
    <3> DEFINE y == x \ {Max(x)}
    <3>1. y \in D /\ y # {} /\ y \subseteq x
      BY <2>3
    <3>2. size[y] = Max(y)
      BY <3>1
    <3>3. Max(y) \in y /\ Max(y) \in 1 .. n
      BY <1>2, <3>1
    <3>4. Max(y) # Max(x) /\ Max(x) >= Max(y)
      BY <1>2, <3>1, <3>3
    <3> QED BY <2>1, <3>2, <3>3, <3>4
  <2> QED BY <2>2, <2>3
<1>5. turn \in [D \X Nat -> Nat] /\ base \in [D -> Nat]
  <2>1. \A x \in D, v \in Nat : x # {} => 10 * v + s[Max(x)] \in Nat
    BY <1>1, <1>2
  <2> QED BY <2>1
<1>6. \A x \in D, v \in Nat : /\ x # {} => turn[<<x, v>>] = 10 * v + s[Max(x)]
                              /\ base[x] = 0
  OBVIOUS
<1>7. \A x \in D : x \in more <=> x # {}
  OBVIOUS
<1>8. h = CHOOSE f : P(f)
  BY <1>1 DEF Values
<1>9. dstrtol(s) = h[DOMAIN s]
  <2>1. SelectInSeq(s, LAMBDA c : c \notin 0 .. 9) = 0
    BY <1>1 DEF SelectInSeq
  <2>2. SubSeq(s, 1, n) = s
    OBVIOUS
  <2>3. dstrtol(s) = FoldLeft(LAMBDA v, c : 10 * v + c, 0, s)
    BY <2>1, <2>2 DEF dstrtol
  <2> QED BY <2>3 DEF FoldLeft, MapThenFoldSet, Values
<1> HIDE DEF n, D, more, next, size, turn, base
<1>10. Recursive(D, more, next, size, Nat, turn, base)
  BY <1>3, <1>4, <1>5 DEF Recursive
<1>11. PICK g \in [D -> Nat] : Computes(g, D, more, next, turn, base)
  BY <1>10, Recursion
<1>12. P(g)
  <2>1. \A x \in D : x # {} => g[x] = turn[<<x, g[x \ {Max(x)}]>>] /\ g[x \ {Max(x)}] \in Nat
    BY <1>3, <1>4, <1>7, <1>11 DEF Computes
  <2>2. \A x \in D : x = {} => g[x] = 0
    BY <1>6, <1>7, <1>11 DEF Computes
  <2>3. \A x \in D : x # {} => g[x] = 10 * g[x \ {Max(x)}] + s[Max(x)]
    BY <1>6, <2>1
  <2> QED BY <2>2, <2>3
<1>13. P(h)
  <2> HIDE DEF P, h
  <2> QED BY <1>8, <1>12
<1>14. \A x \in D : h[x] = IF x = {} THEN 0 ELSE 10 * h[x \ {Max(x)}] + s[Max(x)]
  <2> HIDE DEF h
  <2> QED BY <1>13
<1> HIDE DEF P, h
<1>15. \A k \in 0 .. n : 1 .. k \in D
  BY <1>1 DEF D
<1>16. ASSUME NEW k \in 1 .. n PROVE 1 .. k # {} /\ Max(1 .. k) = k /\ (1 .. k) \ {k} = 1 .. k - 1
  <2>1. k \in Nat /\ 1 .. k # {} /\ 1 .. k \in D /\ k \in 1 .. k
    <3>1. k \in Nat /\ k \in 0 .. n /\ k \in 1 .. k
      BY <1>1
    <3> QED BY <1>15, <3>1
  <2>2. Max(1 .. k) \in 1 .. k /\ Max(1 .. k) >= k
    BY <1>2, <2>1
  <2>3. Max(1 .. k) = k
    BY <2>1, <2>2
  <2>4. \A i : i \in (1 .. k) \ {k} <=> i \in 1 .. k - 1
    BY <2>1
  <2> QED BY <2>1, <2>3, <2>4
<1>17. \A k \in 1 .. n : h[1 .. k] = 10 * h[1 .. k - 1] + s[k]
  <2>1. \A k \in 1 .. n : k \in 0 .. n
    BY <1>1
  <2> QED BY <1>14, <1>15, <1>16, <2>1
<1>18. h[1 .. 0] = 0
  <2>1. 1 .. 0 = {} /\ {} \in D
    BY DEF D
  <2> QED BY <1>14, <2>1
<1> QED BY <1>1, <1>9, <1>17, <1>18 DEF Value, h, n

\* The number that is read is the one that was written.
LEMMA ReadsWhatIsWritten == \A n \in Nat : dstrtol(Digits[n]) = n
<1> DEFINE bad == {n \in Nat : dstrtol(Digits[n]) # n}
<1> SUFFICES ASSUME bad # {} PROVE FALSE
  OBVIOUS
<1>1. PICK n \in bad : \A m \in bad : n =< m
  <2>1. bad \in SUBSET Nat
    OBVIOUS
  <2> HIDE DEF bad
  <2> QED BY <2>1, LeastNumber
<1>2. n \in Nat /\ dstrtol(Digits[n]) # n /\ \A m \in Nat : m < n => dstrtol(Digits[m]) = m
  BY <1>1
<1> HIDE DEF bad
<1> DEFINE s == Digits[n]
<1>3. s \in Seq(0 .. 9) /\ s = IF n < 10 THEN <<n>> ELSE Append(Digits[n \div 10], n % 10)
  BY <1>2, DigitsOf
<1>4. /\ dstrtol(s) = Value(s, Len(s)) /\ Value(s, 0) = 0
      /\ \A k \in 1 .. Len(s) : Value(s, k) = 10 * Value(s, k - 1) + s[k]
  BY <1>3, ValueSteps
<1> HIDE DEF s
<1>5. CASE n < 10
  <2>1. s = <<n>> /\ Len(s) = 1 /\ s[1] = n
    BY <1>3, <1>5
  <2>2. Value(s, 1) = 10 * 0 + n
    BY <1>4, <2>1
  <2>3. dstrtol(s) = n
    BY <1>2, <1>4, <2>1, <2>2
  <2> QED BY <1>2, <2>3 DEF s
<1>6. CASE n >= 10
  <2> DEFINE m == n \div 10
             d == Digits[m]
             l == Len(d)
  <2>1. m \in Nat /\ m < n /\ 10 * m + (n % 10) = n
    BY <1>2, <1>6
  <2>2. d \in Seq(0 .. 9) /\ d # <<>>
    BY <2>1, DigitsOf
  <2>3. /\ dstrtol(d) = Value(d, l) /\ Value(d, 0) = 0
        /\ \A k \in 1 .. l : Value(d, k) = 10 * Value(d, k - 1) + d[k]
    BY <2>2, ValueSteps
  <2>4. s = Append(d, n % 10)
    BY <1>2, <1>3, <1>6
  <2>5. dstrtol(d) = m
    BY <1>2, <2>1
  <2> HIDE DEF m, d
  <2>6. /\ l \in Nat /\ Len(s) = l + 1 /\ s[l + 1] = n % 10
        /\ \A k \in 1 .. l : s[k] = d[k]
    BY <2>2, <2>4
  <2> HIDE DEF l
  <2> DEFINE T == {k \in 0 .. l : Value(s, k) = Value(d, k)}
  <2>7. 0 \in T
    BY <1>4, <2>3, <2>6
  <2>8. \A k \in 0 .. l - 1 : k \in T => k + 1 \in T
    <3> SUFFICES ASSUME NEW k \in 0 .. l - 1, Value(s, k) = Value(d, k)
                 PROVE  k + 1 \in 0 .. l /\ Value(s, k + 1) = Value(d, k + 1)
      OBVIOUS
    <3>1. k + 1 \in 1 .. l /\ k + 1 \in 1 .. Len(s) /\ (k + 1) - 1 = k /\ k + 1 \in 0 .. l
      BY <2>6
    <3> QED BY <1>4, <2>3, <2>6, <3>1
  <2>9. l \in T
    <3> HIDE DEF T
    <3>1. l \in 0 .. l
      BY <2>6
    <3> QED BY <2>6, <2>7, <2>8, <3>1, CountUp
  <2>10. l + 1 \in 1 .. Len(s) /\ (l + 1) - 1 = l
    BY <2>6
  <2>11. dstrtol(s) = 10 * Value(s, l) + (n % 10)
    BY <1>4, <2>6, <2>10
  <2>12. Value(s, l) = m
    BY <2>3, <2>5, <2>9
  <2>13. dstrtol(s) = n
    BY <2>1, <2>11, <2>12
  <2> QED BY <1>2, <2>13 DEF s
<1> QED BY <1>2, <1>5, <1>6

-----------------------------------------------------------------------------
\* What the loop of Offsets collects from each place on.
OffsetsFrom(buf) ==
  LET from[location \in 0 .. ARG_LIMIT] ==
        IF NoMoreArguments(buf, location) THEN <<>>
        ELSE <<location>> \o from[NextArgument(buf, location)]
  IN  from

\* The next argument is further on, and the buffer of arguments is not left.
LEMMA NextIsFurther ==
  ASSUME NEW buf, NEW x \in 0 .. ARG_LIMIT, ~NoMoreArguments(buf, x)
  PROVE  NextArgument(buf, x) \in x + 1 .. ARG_LIMIT
<1> DEFINE nuls == {i \in x .. ARG_LIMIT - 1 : buf[i] = NUL}
<1>1. x \in Nat /\ ARG_LIMIT \in Nat /\ x < ARG_LIMIT - 1
  BY ArgumentSizes DEF NoMoreArguments
<1>2. CASE nuls = {}
  BY <1>1, <1>2 DEF NextArgument
<1>3. CASE nuls # {}
  <2>1. nuls \in SUBSET Nat
    BY <1>1
  <2>2. Min(nuls) \in nuls
    <3> HIDE DEF nuls
    <3> QED BY <1>3, <2>1, LeastNumber
  <2>3. NextArgument(buf, x) = Min(nuls) + 1
    BY <1>3 DEF NextArgument
  <2> QED BY <1>1, <2>2, <2>3
<1> QED BY <1>2, <1>3

LEMMA OffsetsOf ==
  ASSUME NEW buf
  PROVE  /\ Offsets(buf) = OffsetsFrom(buf)[0] /\ Offsets(buf) \in Seq(Nat)
         /\ \A x \in 0 .. ARG_LIMIT :
              OffsetsFrom(buf)[x] = IF NoMoreArguments(buf, x) THEN <<>>
                                    ELSE <<x>> \o OffsetsFrom(buf)[NextArgument(buf, x)]
<1> DEFINE D    == 0 .. ARG_LIMIT
           V    == Seq(Nat)
           more == {x \in D : ~NoMoreArguments(buf, x)}
           next == [x \in more |-> NextArgument(buf, x)]
           size == [x \in D |-> ARG_LIMIT - x]
           turn == [p \in D \X V |-> <<p[1]>> \o p[2]]
           base == [x \in D |-> <<>>]
           P(f) == f = [x \in D |-> IF NoMoreArguments(buf, x) THEN <<>>
                                    ELSE <<x>> \o f[NextArgument(buf, x)]]
           h    == OffsetsFrom(buf)
<1>1. ARG_LIMIT \in Nat /\ 0 \in D /\ \A x \in D : x \in Nat
  BY ArgumentSizes
<1>2. \A x \in more : NextArgument(buf, x) \in x + 1 .. ARG_LIMIT
  BY NextIsFurther
<1>3. more \in SUBSET D /\ next \in [more -> D] /\ size \in [D -> Nat]
  BY <1>1, <1>2
<1>4. \A x \in more : size[next[x]] < size[x]
  BY <1>1, <1>2
<1>5. \A x \in D, v \in V : <<x>> \o v \in V
  BY <1>1
<1>6. turn \in [D \X V -> V] /\ base \in [D -> V]
  BY <1>5
<1>7. \A x \in D, v \in V : turn[<<x, v>>] = <<x>> \o v /\ base[x] = <<>>
  OBVIOUS
<1>8. \A x \in D : /\ x \in more <=> ~NoMoreArguments(buf, x)
                   /\ x \in more => next[x] = NextArgument(buf, x)
  OBVIOUS
<1>9. h = CHOOSE f : P(f)
  BY DEF OffsetsFrom
<1>10. Offsets(buf) = h[0]
  BY DEF Offsets, OffsetsFrom
<1> HIDE DEF D, V, more, next, size, turn, base, h
<1>11. Recursive(D, more, next, size, V, turn, base)
  BY <1>3, <1>4, <1>6 DEF Recursive
<1>12. PICK g \in [D -> V] : Computes(g, D, more, next, turn, base)
  BY <1>11, Recursion
<1>13. P(g)
  <2>1. \A x \in D : x \in more => g[x] = turn[<<x, g[next[x]]>>] /\ g[next[x]] \in V
    BY <1>3, <1>12 DEF Computes
  <2>2. \A x \in D : x \notin more => g[x] = base[x]
    BY <1>12 DEF Computes
  <2>3. \A x \in D : ~NoMoreArguments(buf, x) => g[x] = <<x>> \o g[NextArgument(buf, x)]
    BY <1>7, <1>8, <2>1
  <2>4. \A x \in D : NoMoreArguments(buf, x) => g[x] = <<>>
    <3>1. \A x \in D : base[x] = <<>>
      BY <1>12, <1>7
    <3> QED BY <1>8, <2>2, <3>1
  <2> QED BY <2>3, <2>4
<1>14. P(h)
  <2> HIDE DEF P
  <2> QED BY <1>9, <1>13
<1>15. \A x \in D : h[x] = IF NoMoreArguments(buf, x) THEN <<>> ELSE <<x>> \o h[NextArgument(buf, x)]
  BY <1>14
<1> HIDE DEF P
<1> DEFINE T == {x \in D : h[x] \in V}
<1>16. Inductive(T, D, more, next)
  <2>1. \A x \in D : x \notin more => x \in T
    <3>1. <<>> \in V
      BY DEF V
    <3> QED BY <1>8, <1>15, <3>1
  <2>2. \A x \in D : x \in more /\ next[x] \in T => x \in T
    <3> SUFFICES ASSUME NEW x \in D, x \in more, h[next[x]] \in V PROVE h[x] \in V
      OBVIOUS
    <3>1. h[x] = <<x>> \o h[next[x]]
      BY <1>8, <1>15
    <3> QED BY <1>5, <3>1
  <2> QED BY <2>1, <2>2 DEF Inductive
<1>17. \A x \in D : x \in T
  <2> HIDE DEF T
  <2> QED BY <1>11, <1>16, RecursionInduction
<1>18. Offsets(buf) \in Seq(Nat)
  BY <1>1, <1>10, <1>17 DEF V
<1> QED BY <1>10, <1>15, <1>18 DEF D, h

-----------------------------------------------------------------------------
\* The characters of a string, and where the i-th of some strings is in the buffer.
Letters           == Int \ {NUL}
Ended(strings)    == [i \in DOMAIN strings |-> Append(strings[i], NUL)]
Place(strings, i) == Before(Ended(strings), i)

\* Within the limits, the trap handler puts all strings into the buffer, each with
\* its NUL, and one NUL more behind them if there is room.
LEMMA BufferHolds ==
  ASSUME NEW strings \in Seq(Seq(Letters)),
         Len(strings) <= STRING_LIMIT, Len(Packed(strings)) <= ARG_LIMIT
  PROVE  LET buf == TrapProcessCreateHandler(strings)
             n   == Len(strings)
         IN  /\ Place(strings, 1) = 0
             /\ \A i \in 1 .. n + 1 : Place(strings, i) \in Nat /\ Place(strings, i) <= ARG_LIMIT
             /\ \A i \in 1 .. n :
                  /\ Place(strings, i + 1) = Place(strings, i) + Len(strings[i]) + 1
                  /\ \A k \in 1 .. Len(strings[i]) : buf[Place(strings, i) + k - 1] = strings[i][k]
                  /\ buf[Place(strings, i) + Len(strings[i])] = NUL
             /\ Place(strings, n + 1) < ARG_LIMIT => buf[Place(strings, n + 1)] = NUL
<1> DEFINE buf      == TrapProcessCreateHandler(strings)
           n        == Len(strings)
           ss       == Ended(strings)
           all      == Packed(strings)
           place(i) == Place(strings, i)
<1>1. n \in Nat /\ \A i \in 1 .. n : strings[i] \in Seq(Letters) /\ Len(strings[i]) \in Nat
  OBVIOUS
<1>2. /\ ss \in Seq(Seq(Int)) /\ Len(ss) = n
      /\ \A i \in 1 .. n : ss[i] = Append(strings[i], NUL)
  <2>1. \A i \in 1 .. n : Append(strings[i], NUL) \in Seq(Int)
    BY <1>1 DEF Letters, NUL
  <2>2. ss = [i \in 1 .. n |-> Append(strings[i], NUL)]
    BY DEF Ended
  <2>3. \A i \in 1 .. n : ss[i] = Append(strings[i], NUL)
    BY <2>2
  <2>4. ss \in [1 .. n -> Seq(Int)]
    BY <2>1, <2>2
  <2> HIDE DEF ss, n
  <2>5. ss \in Seq(Seq(Int)) /\ Len(ss) = n
    BY <1>1, <2>4
  <2> QED BY <2>3, <2>5
<1>3. \A i \in 1 .. n : /\ Len(ss[i]) = Len(strings[i]) + 1
                        /\ \A k \in 1 .. Len(strings[i]) : ss[i][k] = strings[i][k]
                        /\ ss[i][Len(strings[i]) + 1] = NUL
  <2> SUFFICES ASSUME NEW i \in 1 .. n
               PROVE  /\ Len(ss[i]) = Len(strings[i]) + 1
                      /\ \A k \in 1 .. Len(strings[i]) : ss[i][k] = strings[i][k]
                      /\ ss[i][Len(strings[i]) + 1] = NUL
    OBVIOUS
  <2> DEFINE q == strings[i]
  <2>1. q \in Seq(Letters) /\ ss[i] = Append(q, NUL)
    BY <1>1, <1>2
  <2> HIDE DEF q, ss
  <2>2. /\ Len(Append(q, NUL)) = Len(q) + 1
        /\ \A k \in 1 .. Len(q) : Append(q, NUL)[k] = q[k]
        /\ Append(q, NUL)[Len(q) + 1] = NUL
    BY <2>1
  <2> QED BY <2>1, <2>2 DEF q
<1>4. /\ \A i \in 1 .. n + 1 : place(i) \in Nat
      /\ place(1) = 0
      /\ all \in Seq(Int) /\ Len(all) = place(n + 1)
      /\ \A i \in 1 .. n :
           /\ place(i + 1) = place(i) + Len(ss[i])
           /\ place(i + 1) <= Len(all)
           /\ \A k \in 1 .. Len(ss[i]) : all[place(i) + k] = ss[i][k]
  <2> HIDE DEF ss
  <2>1. all = FlattenSeq(ss) /\ \A i : place(i) = Before(ss, i)
    BY DEF Packed, Place, Ended, ss
  <2> HIDE DEF all, n, place
  <2>2. /\ \A i \in 1 .. Len(ss) + 1 : Before(ss, i) \in Nat
        /\ Before(ss, 1) = 0
        /\ FlattenSeq(ss) \in Seq(Int) /\ Len(FlattenSeq(ss)) = Before(ss, Len(ss) + 1)
        /\ \A i \in 1 .. Len(ss) :
             /\ Before(ss, i + 1) = Before(ss, i) + Len(ss[i])
             /\ Before(ss, i + 1) <= Len(FlattenSeq(ss))
             /\ \A k \in 1 .. Len(ss[i]) : FlattenSeq(ss)[Before(ss, i) + k] = ss[i][k]
    BY <1>2, Flatten
  <2>3. Len(ss) = n
    BY <1>2
  <2> QED BY <2>1, <2>2, <2>3
<1>5. /\ ARG_LIMIT \in Nat /\ STRING_LIMIT \in Nat
      /\ SIZE_ARG_BUFF \in Nat /\ SIZE_ARG_BUFF >= ARG_LIMIT + 32
  BY ArgumentSizes
<1>6. buf = [i \in 0 .. SIZE_ARG_BUFF - 1 |->
               IF i = SIZE_ARG_BUFF - 1 THEN NUL
               ELSE IF i < Len(all) THEN all[i + 1]
               ELSE IF i < ARG_LIMIT THEN NUL ELSE Garbage]
  <2>1. Min({STRING_LIMIT, n}) = n
    <3>1. n \in {STRING_LIMIT, n} /\ {STRING_LIMIT, n} \in SUBSET Nat /\ n <= STRING_LIMIT
      BY <1>1, <1>5
    <3> HIDE DEF n
    <3>2. /\ Min({STRING_LIMIT, n}) \in {STRING_LIMIT, n}
          /\ \A y \in {STRING_LIMIT, n} : Min({STRING_LIMIT, n}) =< y
      BY <3>1, LeastNumber
    <3> QED BY <1>1, <1>5, <3>1, <3>2
  <2>2. SubSeq(strings, 1, n) = strings
    OBVIOUS
  <2> QED BY <2>1, <2>2 DEF TrapProcessCreateHandler
<1> HIDE DEF buf, n, ss, all, place
<1>7. Len(all) <= ARG_LIMIT /\ Len(all) \in Nat
  BY <1>4 DEF all
<1>8. \A i \in 0 .. ARG_LIMIT - 1 : buf[i] = IF i < Len(all) THEN all[i + 1] ELSE NUL
  <2>1. \A i \in 0 .. ARG_LIMIT - 1 : i \in 0 .. SIZE_ARG_BUFF - 1 /\ i # SIZE_ARG_BUFF - 1 /\ i < ARG_LIMIT
    BY <1>5
  <2> QED BY <1>6, <2>1
<1>9. \A i \in 1 .. n + 1 : place(i) <= ARG_LIMIT
  <2> SUFFICES ASSUME NEW i \in 1 .. n + 1 PROVE place(i) <= ARG_LIMIT
    OBVIOUS
  <2>1. place(i) \in Nat
    BY <1>4
  <2>2. CASE i = n + 1
    BY <1>4, <1>7, <2>2
  <2>3. CASE i \in 1 .. n
    <3>1. /\ place(i + 1) = place(i) + Len(ss[i]) /\ place(i + 1) <= Len(all)
          /\ Len(ss[i]) = Len(strings[i]) + 1 /\ Len(strings[i]) \in Nat
      BY <1>1, <1>3, <1>4, <2>3
    <3> QED BY <1>5, <1>7, <2>1, <3>1
  <2> QED BY <1>1, <2>2, <2>3
<1>10. ASSUME NEW i \in 1 .. n
       PROVE  /\ place(i + 1) = place(i) + Len(strings[i]) + 1
              /\ \A k \in 1 .. Len(strings[i]) : buf[place(i) + k - 1] = strings[i][k]
              /\ buf[place(i) + Len(strings[i])] = NUL
  <2> DEFINE p == place(i)
             u == Len(strings[i])
  <2>1. /\ p \in Nat /\ u \in Nat /\ place(i + 1) = p + (u + 1) /\ p + (u + 1) <= Len(all)
        /\ \A k \in 1 .. u + 1 : all[p + k] = ss[i][k]
    <3>1. i \in 1 .. n + 1
      BY <1>1
    <3>2. /\ p \in Nat /\ u \in Nat /\ Len(ss[i]) = u + 1 /\ place(i + 1) = p + Len(ss[i])
          /\ place(i + 1) <= Len(all) /\ \A k \in 1 .. Len(ss[i]) : all[p + k] = ss[i][k]
      BY <1>1, <1>3, <1>4, <3>1
    <3> QED BY <3>2
  <2>2. (\A k \in 1 .. u : ss[i][k] = strings[i][k]) /\ ss[i][u + 1] = NUL
    BY <1>3
  <2> HIDE DEF p, u
  <2>3. \A k \in 1 .. u + 1 : /\ p + k - 1 \in 0 .. ARG_LIMIT - 1 /\ p + k - 1 < Len(all)
                              /\ (p + k - 1) + 1 = p + k
    BY <1>5, <1>7, <2>1
  <2>4. \A k \in 1 .. u + 1 : buf[p + k - 1] = ss[i][k]
    BY <1>8, <2>1, <2>3
  <2>5. /\ (\A k \in 1 .. u : k \in 1 .. u + 1) /\ u + 1 \in 1 .. u + 1
        /\ p + (u + 1) - 1 = p + u /\ p + (u + 1) = p + u + 1
    BY <2>1
  <2>6. \A k \in 1 .. u : buf[p + k - 1] = strings[i][k]
    BY <2>2, <2>4, <2>5
  <2>7. buf[p + u] = NUL
    BY <2>2, <2>4, <2>5
  <2> QED BY <2>1, <2>5, <2>6, <2>7 DEF p, u
<1>11. place(n + 1) < ARG_LIMIT => buf[place(n + 1)] = NUL
  <2>1. place(n + 1) = Len(all) /\ place(n + 1) \in Nat
    BY <1>4, <1>7
  <2> QED BY <1>5, <1>8, <2>1
<1> QED BY <1>4, <1>9, <1>10, <1>11 DEF buf, n, place

\* Strings that are not empty are found where they were put.
LEMMA OffsetsArePlaces ==
  ASSUME NEW strings \in Seq(Seq(Letters)), \A i \in 1 .. Len(strings) : strings[i] # <<>>,
         Len(strings) <= STRING_LIMIT, Len(Packed(strings)) <= ARG_LIMIT
  PROVE  LET offsets == Offsets(TrapProcessCreateHandler(strings))
         IN  /\ Len(offsets) = Len(strings)
             /\ \A i \in 1 .. Len(strings) : offsets[i] = Place(strings, i)
<1> DEFINE buf      == TrapProcessCreateHandler(strings)
           n        == Len(strings)
           place(i) == Place(strings, i)
           from     == OffsetsFrom(buf)
           len(i)   == Len(strings[i])
<1>1. n \in Nat /\ \A i \in 1 .. n : strings[i] \in Seq(Letters) /\ len(i) \in Nat /\ len(i) >= 1
  <2>1. n \in Nat /\ \A i \in 1 .. n : strings[i] \in Seq(Letters) /\ strings[i] # <<>>
    OBVIOUS
  <2>2. \A q \in Seq(Letters) : q # <<>> => Len(q) \in Nat /\ Len(q) >= 1
    OBVIOUS
  <2> HIDE DEF n
  <2> QED BY <2>1, <2>2
<1>2. \A i \in 1 .. n : \A k \in 1 .. len(i) : strings[i][k] # NUL
  BY <1>1 DEF Letters
<1>3. /\ place(1) = 0
      /\ \A i \in 1 .. n + 1 : place(i) \in Nat /\ place(i) <= ARG_LIMIT
      /\ \A i \in 1 .. n :
           /\ place(i + 1) = place(i) + len(i) + 1
           /\ \A k \in 1 .. len(i) : buf[place(i) + k - 1] = strings[i][k]
           /\ buf[place(i) + len(i)] = NUL
      /\ place(n + 1) < ARG_LIMIT => buf[place(n + 1)] = NUL
  BY BufferHolds
<1>4. /\ Offsets(buf) = from[0]
      /\ \A x \in 0 .. ARG_LIMIT : from[x] = IF NoMoreArguments(buf, x) THEN <<>>
                                            ELSE <<x>> \o from[NextArgument(buf, x)]
  BY OffsetsOf
<1>5. ARG_LIMIT \in Nat
  BY ArgumentSizes
<1> HIDE DEF buf, n, place, from, len
<1>6. from[place(n + 1)] = <<>>
  <2>1. place(n + 1) \in 0 .. ARG_LIMIT
    BY <1>1, <1>3, <1>5
  <2>2. NoMoreArguments(buf, place(n + 1))
    BY <1>3, <1>5, <2>1 DEF NoMoreArguments
  <2> QED BY <1>4, <2>1, <2>2
<1>7. ASSUME NEW i \in 1 .. n PROVE from[place(i)] = <<place(i)>> \o from[place(i + 1)]
  <2> DEFINE p == place(i)
             u == len(i)
  <2>1. /\ p \in Nat /\ u \in Nat /\ u >= 1 /\ place(i + 1) = p + u + 1 /\ p + u + 1 <= ARG_LIMIT
        /\ \A k \in 1 .. u : buf[p + k - 1] # NUL
        /\ buf[p + u] = NUL
    <3>1. i \in 1 .. n + 1 /\ i + 1 \in 1 .. n + 1
      BY <1>1
    <3> QED BY <1>1, <1>2, <1>3, <3>1
  <2> HIDE DEF p, u
  <2>2. p \in 0 .. ARG_LIMIT /\ p < ARG_LIMIT - 1 /\ 1 \in 1 .. u /\ p + 1 - 1 = p
    BY <1>5, <2>1
  <2>3. ~NoMoreArguments(buf, p)
    <3>1. buf[p] # NUL
      BY <2>1, <2>2
    <3> QED BY <1>5, <2>2, <3>1 DEF NoMoreArguments
  <2> DEFINE nuls == {j \in p .. ARG_LIMIT - 1 : buf[j] = NUL}
  <2>4. \A j \in p .. ARG_LIMIT - 1 : j < p + u => buf[j] # NUL
    <3> SUFFICES ASSUME NEW j \in p .. ARG_LIMIT - 1, j < p + u PROVE buf[j] # NUL
      OBVIOUS
    <3>1. j - p + 1 \in 1 .. u /\ p + (j - p + 1) - 1 = j
      BY <1>5, <2>1
    <3> QED BY <2>1, <3>1
  <2>5. p + u \in nuls /\ nuls \in SUBSET Nat
    BY <1>5, <2>1
  <2>6. \A j \in nuls : j >= p + u
    BY <1>5, <2>1, <2>4
  <2> HIDE DEF nuls
  <2>7. Min(nuls) = p + u
    <3>1. Min(nuls) \in nuls /\ Min(nuls) =< p + u
      BY <2>5, LeastNumber
    <3> DEFINE x == Min(nuls)
    <3>2. x \in Nat /\ x >= p + u /\ x =< p + u
      BY <2>5, <2>6, <3>1
    <3> HIDE DEF x
    <3>3. x = p + u
      BY <2>1, <3>2
    <3> QED BY <3>3 DEF x
  <2>8. NextArgument(buf, p) = p + u + 1
    BY <2>5, <2>7 DEF NextArgument, nuls
  <2>9. NextArgument(buf, p) = place(i + 1)
    BY <2>1, <2>8
  <2> QED BY <1>4, <2>2, <2>3, <2>9 DEF p
<1> DEFINE T == {j \in 0 .. n : /\ from[place(n + 1 - j)] \in Seq(Nat)
                               /\ Len(from[place(n + 1 - j)]) = j
                               /\ \A i \in 1 .. j : from[place(n + 1 - j)][i] = place(n - j + i)}
<1>8. 0 \in T
  <2>1. n + 1 - 0 = n + 1 /\ 0 \in 0 .. n /\ 1 .. 0 = {}
    BY <1>1
  <2>2. <<>> \in Seq(Nat) /\ Len(<<>>) = 0
    OBVIOUS
  <2>3. from[place(n + 1 - 0)] = <<>>
    BY <1>6, <2>1
  <2> QED BY <2>1, <2>2, <2>3
<1>9. \A j \in 0 .. n - 1 : j \in T => j + 1 \in T
  <2> SUFFICES ASSUME NEW j \in 0 .. n - 1, j \in T
               PROVE  /\ j + 1 \in 0 .. n
                      /\ from[place(n + 1 - (j + 1))] \in Seq(Nat)
                      /\ Len(from[place(n + 1 - (j + 1))]) = j + 1
                      /\ \A i \in 1 .. j + 1 : from[place(n + 1 - (j + 1))][i] = place(n - (j + 1) + i)
    OBVIOUS
  <2> DEFINE m == n - j
             q == from[place(m + 1)]
  <2>1. /\ m \in 1 .. n /\ n + 1 - (j + 1) = m /\ n + 1 - j = m + 1 /\ n - j = m
        /\ \A i \in 1 .. j + 1 : n - (j + 1) + i = m + i - 1
        /\ j \in Nat /\ j + 1 \in 0 .. n
    BY <1>1
  <2>2. /\ q \in Seq(Nat) /\ Len(q) = j
        /\ \A i \in 1 .. j : q[i] = place(m + i)
    BY <2>1
  <2> HIDE DEF m, T
  <2>3. from[place(m)] = <<place(m)>> \o q /\ place(m) \in Nat
    <3>1. m \in 1 .. n + 1
      BY <1>1, <2>1
    <3> QED BY <1>3, <1>7, <2>1, <3>1
  <2> HIDE DEF q
  <2> DEFINE r == <<place(m)>> \o q
  <2>4. /\ r \in Seq(Nat) /\ Len(r) = j + 1 /\ r[1] = place(m)
        /\ \A i \in 2 .. j + 1 : r[i] = q[i - 1]
    <3> DEFINE x == place(m)
    <3> HIDE DEF x
    <3>1. x \in Nat /\ q \in Seq(Nat) /\ Len(q) = j /\ j \in Nat
      BY <2>1, <2>2, <2>3 DEF x
    <3>2. /\ <<x>> \o q \in Seq(Nat) /\ Len(<<x>> \o q) = j + 1 /\ (<<x>> \o q)[1] = x
          /\ \A i \in 2 .. j + 1 : (<<x>> \o q)[i] = q[i - 1]
      BY <3>1
    <3> QED BY <3>2 DEF x
  <2> HIDE DEF r
  <2>5. \A i \in 1 .. j + 1 : r[i] = place(m + i - 1)
    <3> SUFFICES ASSUME NEW i \in 1 .. j + 1 PROVE r[i] = place(m + i - 1)
      OBVIOUS
    <3>1. CASE i = 1
      <4>1. m + i - 1 = m
        BY <2>1, <3>1
      <4> QED BY <2>4, <3>1, <4>1
    <3>2. CASE i # 1
      <4>1. i \in 2 .. j + 1 /\ i - 1 \in 1 .. j /\ m + (i - 1) = m + i - 1
        BY <2>1, <3>2
      <4> QED BY <2>2, <2>4, <4>1
    <3> QED BY <3>1, <3>2
  <2>6. from[place(m)] = r
    BY <2>3 DEF r
  <2> QED BY <2>1, <2>4, <2>5, <2>6
<1>10. n \in T
  <2>1. n \in 0 .. n
    BY <1>1
  <2> HIDE DEF T
  <2> QED BY <1>1, <1>8, <1>9, <2>1, CountUp
<1>11. n + 1 - n = 1 /\ \A i \in 1 .. n : n - n + i = i
  BY <1>1
<1>12. Len(from[0]) = n /\ \A i \in 1 .. n : from[0][i] = place(i)
  BY <1>3, <1>10, <1>11
<1> QED BY <1>4, <1>12 DEF buf, n, place

-----------------------------------------------------------------------------
\* Dividing by the size of a page.
LEMMA DivideBy ==
  ASSUME NEW a \in Nat, NEW p \in Nat \ {0}
  PROVE  a \div p \in Nat /\ p * (a \div p) <= a /\ a < p * (a \div p) + p
OBVIOUS

LEMMA InPages ==
  ASSUME NEW a \in Nat, NEW b \in Nat, NEW p \in Nat \ {0}
  PROVE  /\ a \div p \in Nat
         /\ a \div p <= 1 <=> a < 2 * p
         /\ a <= b => a \div p <= b \div p
<1> DEFINE q == a \div p
           r == b \div p
<1>1. q \in Nat /\ p * q <= a /\ a < p * q + p
  BY DivideBy
<1>2. r \in Nat /\ p * r <= b /\ b < p * r + p
  BY DivideBy
<1> HIDE DEF q, r
<1>3. q <= 1 => a < 2 * p
  BY <1>1
<1>4. q > 1 => a >= 2 * p
  BY <1>1
<1>5. a <= b => q <= r
  BY <1>1, <1>2
<1> QED BY <1>1, <1>3, <1>4, <1>5 DEF q, r

\* What was written over a memory, and what was there before.
LEMMA CellOfWritten ==
  ASSUME NEW memory, NEW cells, NEW a
  PROVE  /\ DOMAIN Written(memory, cells) = DOMAIN cells \cup DOMAIN memory
         /\ Cell(Written(memory, cells), a) =
              IF a \in DOMAIN cells THEN cells[a] ELSE Cell(memory, a)
BY DEF Written, Cell

\* Where a copy arrives.
Reached(to, cells) == {a \in to .. to + Len(cells) - 1 : a < 2 * MEMORY_PAGE_SIZE}

CellCopied(memory, to, cells, a) ==
  IF a \in Reached(to, cells) THEN cells[a - to + 1] ELSE Cell(memory, a)

\* A copy writes the cells below the second page behind the beginning of the memory.
LEMMA CopyWrites ==
  ASSUME NEW memory, NEW to \in Nat, NEW cells, Len(cells) \in Nat, NEW a
  PROVE  /\ DOMAIN MemoryCopySystemToUser(memory, to, cells) = Reached(to, cells) \cup DOMAIN memory
         /\ Cell(MemoryCopySystemToUser(memory, to, cells), a) = CellCopied(memory, to, cells, a)
<1> DEFINE P    == MEMORY_PAGE_SIZE
           l    == Len(cells)
           here == {x \in to .. to + l - 1 : x < 2 * P}
           translated == {x \in to .. to + l - 1 :
                            \A page \in to \div P .. x \div P : MemoryTranslateUserToSystem(page)}
           written == [x \in translated |-> cells[x - to + 1]]
<1>1. P \in Nat \ {0} /\ l \in Nat
  BY ArgumentSizes
<1>2. translated = here
  <2> SUFFICES ASSUME NEW x \in to .. to + l - 1
               PROVE  (\A page \in to \div P .. x \div P : page <= 1) <=> x < 2 * P
    BY DEF MemoryTranslateUserToSystem, npages
  <2>1. x \in Nat /\ to <= x
    BY <1>1
  <2> HIDE DEF P
  <2>2. /\ x \div P \in Nat /\ to \div P \in Nat /\ to \div P <= x \div P
        /\ x \div P <= 1 <=> x < 2 * P
    BY <1>1, <2>1, InPages
  <2> DEFINE v == to \div P
             w == x \div P
  <2>3. v \in Nat /\ w \in Nat /\ v <= w
    BY <2>2
  <2> HIDE DEF v, w
  <2>4. (\A page \in v .. w : page <= 1) <=> w <= 1
    <3>1. w \in v .. w /\ \A page \in v .. w : page <= w /\ page \in Int
      BY <2>3
    <3> QED BY <2>3, <3>1
  <2> QED BY <2>2, <2>4 DEF v, w
<1>3. MemoryCopySystemToUser(memory, to, cells) = Written(memory, written)
  BY DEF MemoryCopySystemToUser
<1>4. DOMAIN written = here /\ \A x \in here : written[x] = cells[x - to + 1]
  BY <1>2
<1> HIDE DEF written, translated
<1>5. DOMAIN Written(memory, written) = here \cup DOMAIN memory
  BY <1>4, CellOfWritten
<1>6. Cell(Written(memory, written), a) = IF a \in here THEN cells[a - to + 1] ELSE Cell(memory, a)
  <2>1. Cell(Written(memory, written), a) =
          IF a \in DOMAIN written THEN written[a] ELSE Cell(memory, a)
    BY CellOfWritten
  <2> HIDE DEF here
  <2> QED BY <1>4, <2>1
<1> QED BY <1>3, <1>5, <1>6 DEF Reached, CellCopied

\* The strings of buf stand at the top of a memory, and the words below them.
IsPushed(pushed, sp, memory, buf, offsets) ==
  LET n == Len(offsets)
  IN  /\ n \in Nat /\ sp = ArgumentBase - 4 * (n + 2)
      /\ ArgumentBase \in Nat /\ ArgumentBase + SIZE_ARG_BUFF = MEMORY_PAGE_SIZE
      /\ \A a \in DOMAIN pushed : a \in DOMAIN memory \/ (sp <= a /\ a < MEMORY_PAGE_SIZE)
      /\ \A a \in Int : a < sp => Cell(pushed, a) = Cell(memory, a)
      /\ \A i \in 0 .. SIZE_ARG_BUFF - 33 : Cell(pushed, ArgumentBase + i) = buf[i]
      /\ Cell(pushed, sp) = n
      /\ Cell(pushed, sp + 4) = ArgumentBase - 4 * n
      /\ \A i \in 1 .. n : Cell(pushed, sp + 4 * (i + 1)) = ArgumentBase + offsets[i]

LEMMA ArgumentsPushed ==
  ASSUME NEW memory, NEW strings,
         NEW buf, buf = TrapProcessCreateHandler(strings),
         NEW offsets, offsets = Offsets(buf), NEW n, n = Len(offsets)
  PROVE  IsPushed(PushArguments(memory, buf), StackPointer(offsets), memory, buf, offsets)
<1> DEFINE pushed == PushArguments(memory, buf)
           sp     == StackPointer(offsets)
           base   == ArgumentBase
           words  == Words(offsets)
           bytes  == [i \in 1 .. SIZE_ARG_BUFF - 32 |-> buf[i - 1]]
           copied == MemoryCopySystemToUser(memory, base, bytes)
           places == {sp + 4 * (i - 1) : i \in DOMAIN words}
           written == [a \in places |-> words[(a - sp) \div 4 + 1]]
<1>1. offsets \in Seq(Nat) /\ n \in Nat
  BY OffsetsOf
<1>2. /\ base \in Nat /\ base + SIZE_ARG_BUFF = MEMORY_PAGE_SIZE /\ SIZE_ARG_BUFF \in Nat
      /\ SIZE_ARG_BUFF - 32 \in Nat
  BY ArgumentSizes DEF ArgumentBase
<1>3. sp = base - 4 * (n + 2) /\ sp \in Int
  BY <1>1, <1>2 DEF StackPointer
<1>4. /\ Len(words) = n + 2 /\ DOMAIN words = 1 .. n + 2
      /\ words[1] = n /\ words[2] = base - 4 * n
      /\ \A i \in 1 .. n : words[i + 2] = base + offsets[i]
  <2> DEFINE argvs == [i \in DOMAIN offsets |-> base + offsets[i]]
             two  == <<n, base - 4 * n>>
  <2>1. argvs \in Seq(Int) /\ Len(argvs) = n /\ \A i \in 1 .. n : argvs[i] = base + offsets[i]
    <3>1. DOMAIN offsets = 1 .. n /\ \A i \in 1 .. n : base + offsets[i] \in Int
      BY <1>1, <1>2
    <3>2. argvs = [i \in 1 .. n |-> base + offsets[i]]
      BY <3>1
    <3>3. argvs \in [1 .. n -> Int] /\ \A i \in 1 .. n : argvs[i] = base + offsets[i]
      BY <3>1, <3>2
    <3> HIDE DEF argvs
    <3>4. argvs \in Seq(Int) /\ Len(argvs) = n
      BY <1>1, <3>3
    <3> QED BY <3>3, <3>4
  <2>2. two \in Seq(Int) /\ Len(two) = 2 /\ two[1] = n /\ two[2] = base - 4 * n
    BY <1>1, <1>2
  <2>3. words = two \o argvs
    BY DEF Words
  <2> HIDE DEF two, argvs, words
  <2>4. /\ Len(two \o argvs) = n + 2 /\ DOMAIN (two \o argvs) = 1 .. n + 2
        /\ (two \o argvs)[1] = two[1] /\ (two \o argvs)[2] = two[2]
        /\ \A i \in 1 .. n : (two \o argvs)[i + 2] = argvs[i]
    <3>1. Len(two \o argvs) = 2 + n /\ two \o argvs \in Seq(Int)
      <4>1. \A s \in Seq(Int), t \in Seq(Int) : s \o t \in Seq(Int) /\ Len(s \o t) = Len(s) + Len(t)
        BY ConcatProperties
      <4> QED BY <2>1, <2>2, <4>1
    <3>2. DOMAIN (two \o argvs) = 1 .. n + 2 /\ Len(two \o argvs) = n + 2
      BY <1>1, <3>1
    <3>3. \A i \in 1 .. n + 2 : (two \o argvs)[i] = IF i <= 2 THEN two[i] ELSE argvs[i - 2]
      <4>1. \A s \in Seq(Int), t \in Seq(Int) : Len(s) = 2 /\ Len(t) = n =>
              \A i \in 1 .. n + 2 : (s \o t)[i] = IF i <= 2 THEN s[i] ELSE t[i - 2]
        <5>1. \A s \in Seq(Int), t \in Seq(Int) : \A i \in 1 .. Len(s) + Len(t) :
                (s \o t)[i] = IF i <= Len(s) THEN s[i] ELSE t[i - Len(s)]
          BY ConcatProperties
        <5> SUFFICES ASSUME NEW s \in Seq(Int), NEW t \in Seq(Int), Len(s) = 2, Len(t) = n,
                            NEW i \in 1 .. n + 2
                     PROVE  (s \o t)[i] = IF i <= 2 THEN s[i] ELSE t[i - 2]
          OBVIOUS
        <5>2. i \in 1 .. Len(s) + Len(t)
          BY <1>1
        <5> QED BY <5>1, <5>2
      <4> QED BY <2>1, <2>2, <4>1
    <3>4. 1 \in 1 .. n + 2 /\ 2 \in 1 .. n + 2
          /\ \A i \in 1 .. n : i + 2 \in 1 .. n + 2 /\ ~(i + 2 <= 2) /\ (i + 2) - 2 = i
      BY <1>1
    <3> QED BY <3>2, <3>3, <3>4
  <2> QED BY <2>1, <2>2, <2>3, <2>4
<1>5. Len(bytes) = SIZE_ARG_BUFF - 32 /\ Len(bytes) \in Nat
  <2>1. \A k \in Nat : Len([i \in 1 .. k |-> buf[i - 1]]) = k
    OBVIOUS
  <2> QED BY <1>2, <2>1
<1>6. pushed = Written(copied, written)
  BY DEF PushArguments
<1> DEFINE here == Reached(base, bytes)
<1>7. /\ DOMAIN copied = here \cup DOMAIN memory
      /\ \A a \in here : Cell(copied, a) = bytes[a - base + 1]
      /\ \A a : a \notin here => Cell(copied, a) = Cell(memory, a)
  <2>1. base \in Nat /\ Len(bytes) \in Nat
    BY <1>2, <1>5
  <2> HIDE DEF base, bytes
  <2>2. ASSUME NEW a
        PROVE  /\ DOMAIN copied = here \cup DOMAIN memory
               /\ Cell(copied, a) = CellCopied(memory, base, bytes, a)
    BY <2>1, CopyWrites
  <2>3. DOMAIN copied = here \cup DOMAIN memory
    BY <2>2
  <2> QED BY <2>2, <2>3 DEF CellCopied
<1>8. \A a : a \in here <=> a \in base .. base + (SIZE_ARG_BUFF - 33)
  <2> HIDE DEF base, bytes
  <2> QED BY <1>2, <1>5 DEF Reached
<1> HIDE DEF here
<1>9. \A i \in 0 .. SIZE_ARG_BUFF - 33 : /\ base + i \in base .. base + (SIZE_ARG_BUFF - 33)
                                        /\ base + i - base + 1 = i + 1 /\ bytes[i + 1] = buf[i]
  <2> SUFFICES ASSUME NEW i \in 0 .. SIZE_ARG_BUFF - 33
               PROVE  /\ base + i \in base .. base + (SIZE_ARG_BUFF - 33)
                      /\ base + i - base + 1 = i + 1 /\ bytes[i + 1] = buf[i]
    OBVIOUS
  <2> HIDE DEF base
  <2>1. /\ base + i \in base .. base + (SIZE_ARG_BUFF - 33) /\ base + i - base + 1 = i + 1
        /\ i + 1 \in 1 .. SIZE_ARG_BUFF - 32 /\ (i + 1) - 1 = i
    BY <1>2
  <2> QED BY <2>1
<1>10. DOMAIN written = places /\ \A a \in places : written[a] = words[(a - sp) \div 4 + 1]
  OBVIOUS
<1>11. \A a \in places : a \in Int /\ sp <= a /\ a < base
  <2> HIDE DEF sp, base, words
  <2>1. \A i \in 1 .. n + 2 : /\ sp + 4 * (i - 1) \in Int
                            /\ sp <= sp + 4 * (i - 1) /\ sp + 4 * (i - 1) < base
    BY <1>1, <1>2, <1>3
  <2> QED BY <1>4, <2>1
<1>12. \A i \in 1 .. n + 2 : /\ sp + 4 * (i - 1) \in places
                            /\ written[sp + 4 * (i - 1)] = words[i]
  <2> SUFFICES ASSUME NEW i \in 1 .. n + 2
               PROVE  sp + 4 * (i - 1) \in places /\ written[sp + 4 * (i - 1)] = words[i]
    OBVIOUS
  <2>1. sp + 4 * (i - 1) \in places
    BY <1>4
  <2> DEFINE a == sp + 4 * (i - 1)
  <2>2. (a - sp) \div 4 + 1 = i
    <3>1. \A s \in Int, j \in Int : (s + 4 * (j - 1) - s) \div 4 + 1 = j
      OBVIOUS
    <3>2. i \in Int
      BY <1>1
    <3> HIDE DEF sp
    <3> QED BY <1>3, <3>1, <3>2
  <2> HIDE DEF sp, words, places, written, a
  <2>3. a \in places
    BY <2>1 DEF a
  <2>4. written[a] = words[i]
    BY <1>10, <2>2, <2>3
  <2> QED BY <2>3, <2>4 DEF a
<1> HIDE DEF pushed, sp, base, words, bytes, copied, places, written
<1>13. /\ DOMAIN pushed = places \cup DOMAIN copied
       /\ \A a : Cell(pushed, a) = IF a \in places THEN written[a] ELSE Cell(copied, a)
  <2>1. \A a : Cell(Written(copied, written), a) =
                IF a \in DOMAIN written THEN written[a] ELSE Cell(copied, a)
    BY CellOfWritten
  <2>2. DOMAIN Written(copied, written) = DOMAIN written \cup DOMAIN copied
    BY DEF Written
  <2> QED BY <1>6, <1>10, <2>1, <2>2
<1>14. \A a \in DOMAIN pushed : a \in DOMAIN memory \/ (sp <= a /\ a < MEMORY_PAGE_SIZE)
  <2>1. \A a \in base .. base + (SIZE_ARG_BUFF - 33) : sp <= a /\ a < MEMORY_PAGE_SIZE
    BY <1>1, <1>2, <1>3
  <2>2. \A a \in places : sp <= a /\ a < MEMORY_PAGE_SIZE
    BY <1>2, <1>11
  <2> QED BY <1>7, <1>8, <1>13, <2>1, <2>2
<1>15. \A a \in Int : a < sp => Cell(pushed, a) = Cell(memory, a)
  <2> SUFFICES ASSUME NEW a \in Int, a < sp PROVE Cell(pushed, a) = Cell(memory, a)
    OBVIOUS
  <2>1. a \notin places
    BY <1>3, <1>11
  <2>2. a \notin base .. base + (SIZE_ARG_BUFF - 33)
    BY <1>1, <1>2, <1>3
  <2> QED BY <1>7, <1>8, <1>13, <2>1, <2>2
<1>16. \A i \in 0 .. SIZE_ARG_BUFF - 33 : Cell(pushed, base + i) = buf[i]
  <2> SUFFICES ASSUME NEW i \in 0 .. SIZE_ARG_BUFF - 33 PROVE Cell(pushed, base + i) = buf[i]
    OBVIOUS
  <2> DEFINE a == base + i
  <2>1. a \notin places /\ a \in here
    BY <1>2, <1>8, <1>9, <1>11
  <2>2. a - base + 1 = i + 1
    BY <1>2
  <2>3. bytes[i + 1] = buf[i]
    BY <1>9
  <2> HIDE DEF a
  <2>4. Cell(pushed, a) = buf[i]
    BY <1>7, <1>13, <2>1, <2>2, <2>3
  <2> QED BY <2>4 DEF a
<1>17. \A i \in 1 .. n + 2 : Cell(pushed, sp + 4 * (i - 1)) = words[i]
  BY <1>12, <1>13
<1>18. /\ 1 \in 1 .. n + 2 /\ sp + 4 * (1 - 1) = sp /\ 2 \in 1 .. n + 2 /\ sp + 4 * (2 - 1) = sp + 4
       /\ \A i \in 1 .. n : i + 2 \in 1 .. n + 2 /\ sp + 4 * (i + 2 - 1) = sp + 4 * (i + 1)
  BY <1>1, <1>3
<1>19. Cell(pushed, sp) = n /\ Cell(pushed, sp + 4) = base - 4 * n
  BY <1>4, <1>17, <1>18
<1>20. \A i \in 1 .. n : Cell(pushed, sp + 4 * (i + 1)) = base + offsets[i]
  BY <1>4, <1>17, <1>18
<1> QED BY <1>1, <1>2, <1>3, <1>14, <1>15, <1>16, <1>19, <1>20 DEF pushed, sp, base, IsPushed

-----------------------------------------------------------------------------
\* A string that ends with a NUL is found where it begins.
LEMMA StringFound ==
  ASSUME NEW memory, NEW p \in Nat, NEW s \in Seq(Letters), p + Len(s) < MEMORY_PAGE_SIZE,
         \A k \in 1 .. Len(s) : Cell(memory, p + k - 1) = s[k], Cell(memory, p + Len(s)) = NUL
  PROVE  StringAt(memory, p) = s
<1> DEFINE l    == Len(s)
           ends == {a \in p .. MEMORY_PAGE_SIZE : Cell(memory, a) = NUL \/ a = MEMORY_PAGE_SIZE}
<1>1. MEMORY_PAGE_SIZE \in Nat /\ l \in Nat /\ \A k \in 1 .. l : s[k] \in Letters
  <2>1. l \in Nat /\ \A k \in 1 .. l : s[k] \in Letters
    OBVIOUS
  <2> QED BY <2>1, ArgumentSizes
<1>2. p + l \in ends /\ ends \in SUBSET Nat
  BY <1>1
<1>3. \A a \in ends : p + l <= a
  <2> SUFFICES ASSUME NEW a \in ends, a < p + l PROVE FALSE
    BY <1>1, <1>2
  <2>1. a \in Nat /\ p <= a /\ a # MEMORY_PAGE_SIZE /\ Cell(memory, a) = NUL
    BY <1>1
  <2> DEFINE k == a - p + 1
  <2>2. k \in 1 .. l /\ p + k - 1 = a
    BY <1>1, <2>1
  <2> HIDE DEF k
  <2>3. s[k] \in Letters /\ s[k] = NUL
    BY <1>1, <2>1, <2>2
  <2> QED BY <2>3 DEF Letters
<1>4. Min(ends) = p + l
  <2> HIDE DEF ends
  <2>1. Min(ends) \in ends /\ \A a \in ends : Min(ends) <= a
    BY <1>2, LeastNumber
  <2>2. Min(ends) \in Nat /\ Min(ends) <= p + l /\ p + l <= Min(ends)
    BY <1>2, <1>3, <2>1
  <2> QED BY <1>1, <2>2
<1>5. StringAt(memory, p) = [k \in 1 .. l |-> Cell(memory, p + k - 1)]
  <2>1. StringAt(memory, p) = [k \in 1 .. Min(ends) - p |-> Cell(memory, p + k - 1)]
    <3>1. ends # {}
      BY <1>2
    <3> QED BY <3>1 DEF StringAt
  <2>2. Min(ends) - p = l
    <3> HIDE DEF ends
    <3> QED BY <1>1, <1>4
  <2> QED BY <2>1, <2>2
<1>6. s = [k \in 1 .. l |-> s[k]]
  OBVIOUS
<1> QED BY <1>5, <1>6

\* argc and argv are what was passed, within the limits.
LEMMA StringsArrive ==
  ASSUME NEW strings \in Seq(Seq(Letters)), \A i \in 1 .. Len(strings) : strings[i] # <<>>,
         Len(strings) <= STRING_LIMIT, Len(Packed(strings)) <= ARG_LIMIT,
         NEW buf, buf = TrapProcessCreateHandler(strings),
         NEW memory, NEW pushed, NEW sp, IsPushed(pushed, sp, memory, buf, Offsets(buf))
  PROVE  /\ argc(pushed, sp) = Len(strings)
         /\ \A i \in 1 .. Len(strings) : StringAt(pushed, argv(pushed, sp, i - 1)) = strings[i]
<1> DEFINE n        == Len(strings)
           base     == ArgumentBase
           place(i) == Place(strings, i)
<1>1. n \in Nat /\ \A i \in 1 .. n : strings[i] \in Seq(Letters) /\ Len(strings[i]) \in Nat
  OBVIOUS
<1>2. Len(Offsets(buf)) = n /\ \A i \in 1 .. n : Offsets(buf)[i] = place(i)
  BY OffsetsArePlaces
<1>3. /\ \A i \in 1 .. n + 1 : place(i) \in Nat /\ place(i) <= ARG_LIMIT
      /\ \A i \in 1 .. n :
           /\ place(i + 1) = place(i) + Len(strings[i]) + 1
           /\ \A k \in 1 .. Len(strings[i]) : buf[place(i) + k - 1] = strings[i][k]
           /\ buf[place(i) + Len(strings[i])] = NUL
  BY BufferHolds
<1>4. /\ sp = base - 4 * (n + 2) /\ base \in Nat /\ base + SIZE_ARG_BUFF = MEMORY_PAGE_SIZE
      /\ \A i \in 0 .. SIZE_ARG_BUFF - 33 : Cell(pushed, base + i) = buf[i]
      /\ Cell(pushed, sp) = n /\ Cell(pushed, sp + 4) = base - 4 * n
      /\ \A i \in 1 .. n : Cell(pushed, sp + 4 * (i + 1)) = base + place(i)
  BY <1>2 DEF IsPushed
<1>5. /\ SIZE_ARG_BUFF \in Nat /\ ARG_LIMIT \in Nat /\ ARG_LIMIT <= SIZE_ARG_BUFF - 32
  BY ArgumentSizes
<1> HIDE DEF n, base, place
<1>6. ASSUME NEW i \in 1 .. n PROVE argv(pushed, sp, i - 1) = base + place(i)
  <2>1. base - 4 * n + 4 * (i - 1) = sp + 4 * (i + 1)
    BY <1>1, <1>4
  <2> QED BY <1>4, <2>1 DEF argv
<1>7. ASSUME NEW i \in 1 .. n PROVE StringAt(pushed, base + place(i)) = strings[i]
  <2> DEFINE p == place(i)
             s == strings[i]
             l == Len(s)
  <2>1. /\ p \in Nat /\ s \in Seq(Letters) /\ l \in Nat /\ p + l + 1 <= ARG_LIMIT
        /\ \A k \in 1 .. l : buf[p + k - 1] = s[k]
        /\ buf[p + l] = NUL
    <3>1. i \in 1 .. n + 1 /\ i + 1 \in 1 .. n + 1
      BY <1>1
    <3> QED BY <1>1, <1>3, <3>1
  <2> HIDE DEF p, s
  <2>2. ASSUME NEW j \in 0 .. l PROVE Cell(pushed, (base + p) + j) = buf[p + j]
    <3>1. p + j \in 0 .. SIZE_ARG_BUFF - 33 /\ base + (p + j) = (base + p) + j
      <4>1. base \in Nat
        BY <1>4
      <4>2. p \in Nat /\ l \in Nat /\ j \in Nat /\ j <= l /\ p + l + 1 <= ARG_LIMIT
        BY <2>1
      <4> HIDE DEF l
      <4> QED BY <1>5, <4>1, <4>2
    <3> QED BY <1>4, <3>1
  <2>3. ASSUME NEW k \in 1 .. l PROVE Cell(pushed, (base + p) + k - 1) = s[k]
    <3> DEFINE j == k - 1
    <3>1. j \in 0 .. l /\ p + j = p + k - 1 /\ (base + p) + j = (base + p) + k - 1
      BY <1>4, <2>1
    <3> HIDE DEF j
    <3> QED BY <2>1, <2>2, <3>1
  <2>4. Cell(pushed, (base + p) + l) = NUL
    <3>1. l \in 0 .. l
      BY <2>1
    <3> QED BY <2>1, <2>2, <3>1
  <2>5. base + p \in Nat /\ (base + p) + l < MEMORY_PAGE_SIZE
    <3>1. base \in Nat /\ base + SIZE_ARG_BUFF = MEMORY_PAGE_SIZE
      BY <1>4
    <3> QED BY <1>5, <2>1, <3>1
  <2>6. StringAt(pushed, base + p) = s
    BY <2>1, <2>3, <2>4, <2>5, StringFound
  <2> QED BY <2>6 DEF p, s
<1>8. argc(pushed, sp) = n
  BY <1>4 DEF argc
<1> QED BY <1>6, <1>7, <1>8 DEF n

-----------------------------------------------------------------------------
\* The characters of some of the lines: of none, and of one.
CharactersIn(lines, S) == MapThenSumSet(LAMBDA i : Characters(lines[i]), S)

LEMMA SumOfNone ==
  ASSUME NEW lines
  PROVE  CharactersIn(lines, {}) = 0
<1> DEFINE pick(S) == CHOOSE x \in S : TRUE
           P(f) == f = [S \in SUBSET {} |-> IF S = {} THEN 0
                                            ELSE Characters(lines[pick(S)]) + f[S \ {pick(S)}]]
           h == CHOOSE f : P(f)
<1>1. P([S \in SUBSET {} |-> 0])
  OBVIOUS
<1>2. P(h)
  <2> HIDE DEF P
  <2> QED BY <1>1
<1>3. CharactersIn(lines, {}) = h[{}]
  BY DEF CharactersIn, MapThenSumSet, MapThenFoldSet
<1> HIDE DEF h
<1> QED BY <1>2, <1>3

LEMMA SumOfOne ==
  ASSUME NEW lines, NEW at, Characters(lines[at]) \in Int
  PROVE  CharactersIn(lines, {at}) = Characters(lines[at])
<1> DEFINE c(i)    == Characters(lines[i])
           pick(S) == CHOOSE x \in S : TRUE
           e(f, S) == IF S = {} THEN 0 ELSE c(pick(S)) + f[S \ {pick(S)}]
           P(f)    == f = [S \in SUBSET {at} |-> e(f, S)]
           g == [S \in SUBSET {at} |-> IF S = {} THEN 0 ELSE c(at)]
           h == CHOOSE f : P(f)
<1>1. pick({at}) = at /\ {at} \ {at} = {} /\ {at} # {}
  OBVIOUS
<1>2. \A S \in SUBSET {at} : S = {} \/ S = {at}
  OBVIOUS
<1>3. c(at) + 0 = c(at)
  OBVIOUS
<1>4. CharactersIn(lines, {at}) = h[{at}]
  BY DEF CharactersIn, MapThenSumSet, MapThenFoldSet
<1> HIDE DEF c, pick, h
<1>5. g[{}] = 0 /\ g[{at}] = c(at)
  OBVIOUS
<1>6. e(g, {}) = 0 /\ e(g, {at}) = c(at)
  <2> HIDE DEF g
  <2> QED BY <1>1, <1>3, <1>5
<1>7. P(g)
  <2>1. \A S \in SUBSET {at} : g[S] = e(g, S)
    <3> HIDE DEF g, e
    <3> QED BY <1>2, <1>5, <1>6
  <2> HIDE DEF e
  <2> QED BY <2>1
<1>8. P(h)
  <2> HIDE DEF P, g
  <2> QED BY <1>7 DEF h
<1>9. h[{at}] = e(h, {at}) /\ h[{}] = e(h, {})
  <2> HIDE DEF e
  <2>1. {} \in SUBSET {at} /\ {at} \in SUBSET {at}
    OBVIOUS
  <2> QED BY <1>8, <2>1
<1>10. h[{at}] = c(at)
  BY <1>1, <1>3, <1>9
<1> QED BY <1>4, <1>10 DEF c

\* A read stops before the next line with an address, and takes at least one line.
LEMMA TakesLines ==
  ASSUME NEW file \in Programs, NEW lines, lines = file.lines,
         NEW at \in 0 .. Len(lines), NEW upTo, upTo = LinesTaken(lines, at)
  PROVE  /\ lines \in Seq(Lines) /\ Len(lines) \in Nat
         /\ upTo \in at .. Len(lines) /\ (at < Len(lines) => at < upTo)
         /\ \A i \in at + 2 .. upTo : ~HasAddress(lines[i])
<1> DEFINE n == Len(lines)
           Sum(k) == CharactersIn(lines, at + 1 .. k)
           K == {k \in at .. n : Sum(k) <= READ_LIMIT /\ \A i \in at + 2 .. k : ~HasAddress(lines[i])}
<1>1. /\ lines \in Seq(Lines) /\ n \in Nat /\ at \in Nat /\ at <= n /\ READ_LIMIT \in Nat
      /\ \A i \in 1 .. n : Characters(lines[i]) <= READ_LIMIT
  BY ProgramsAssumption, ReadAssumption
<1>2. \A i \in 1 .. n : Characters(lines[i]) \in Int
  <2> SUFFICES ASSUME NEW i \in 1 .. n PROVE Characters(lines[i]) \in Int
    OBVIOUS
  <2>1. lines[i] \in Lines
    BY <1>1
  <2> QED BY <2>1 DEF Lines, Characters
<1>3. at \in K
  <2>1. at + 1 .. at = {} /\ at + 2 .. at = {} /\ at \in at .. n
    BY <1>1
  <2>2. Sum(at) = 0
    BY <2>1, SumOfNone
  <2> HIDE DEF Sum
  <2> QED BY <1>1, <2>1, <2>2
<1>4. at < n => at + 1 \in K
  <2> SUFFICES ASSUME at < n PROVE at + 1 \in K
    OBVIOUS
  <2>1. at + 1 .. at + 1 = {at + 1} /\ at + 2 .. at + 1 = {} /\ at + 1 \in at .. n /\ at + 1 \in 1 .. n
    BY <1>1
  <2>2. Sum(at + 1) = Characters(lines[at + 1])
    BY <1>2, <2>1, SumOfOne
  <2> HIDE DEF Sum
  <2> QED BY <1>1, <2>1, <2>2
<1>5. upTo = Max(K)
  BY DEF LinesTaken, CharactersIn
<1>6. K \in SUBSET (0 .. n) /\ \A k \in K : k \in at .. n /\ \A i \in at + 2 .. k : ~HasAddress(lines[i])
  <2> HIDE DEF Sum
  <2> QED BY <1>1
<1> HIDE DEF K
<1>7. upTo \in K /\ \A k \in K : upTo >= k
  BY <1>1, <1>3, <1>5, <1>6, GreatestNumber
<1>8. at < n => at < upTo
  <2> SUFFICES ASSUME at < n PROVE at < upTo
    OBVIOUS
  <2>1. upTo >= at + 1 /\ upTo \in at .. n
    BY <1>4, <1>6, <1>7
  <2> QED BY <1>1, <2>1
<1> QED BY <1>1, <1>6, <1>7, <1>8

-----------------------------------------------------------------------------
\* Each line belongs at its address, or behind the line before it.
LEMMA AddressOf ==
  ASSUME NEW lines \in Seq(Lines)
  PROVE  /\ \A i \in 1 .. Len(lines) : Address(lines)[i] \in Nat
         /\ \A i \in 1 .. Len(lines) :
              Address(lines)[i] = IF HasAddress(lines[i]) THEN lines[i].addr
                                  ELSE IF i = 1 THEN 0
                                  ELSE Address(lines)[i - 1] + lines[i - 1].len
<1> DEFINE n    == Len(lines)
           D    == 1 .. n
           more == {i \in D : ~HasAddress(lines[i]) /\ i # 1}
           next == [i \in more |-> i - 1]
           size == [i \in D |-> i]
           turn == [p \in D \X Nat |-> IF p[1] = 1 THEN 0 ELSE p[2] + lines[p[1] - 1].len]
           base == [i \in D |-> IF HasAddress(lines[i]) THEN lines[i].addr ELSE 0]
           P(f) == f = [i \in DOMAIN lines |-> IF HasAddress(lines[i]) THEN lines[i].addr
                                    ELSE IF i = 1 THEN 0 ELSE f[i - 1] + lines[i - 1].len]
           h    == Address(lines)
<1>1. n \in Nat /\ DOMAIN lines = D /\ \A i \in D : lines[i] \in Lines /\ lines[i].len \in Nat
  <2>1. n \in Nat /\ DOMAIN lines = D /\ \A i \in D : lines[i] \in Lines
    OBVIOUS
  <2> QED BY <2>1 DEF Lines
<1>2. \A i \in D : HasAddress(lines[i]) => lines[i].addr \in Nat
  BY <1>1 DEF Lines, HasAddress
<1>3. more \in SUBSET D /\ next \in [more -> D] /\ size \in [D -> Nat]
  BY <1>1
<1>4. \A i \in more : size[next[i]] < size[i] /\ next[i] = i - 1
  BY <1>1
<1>5. turn \in [D \X Nat -> Nat]
  <2>1. \A i \in D, v \in Nat : i # 1 => v + lines[i - 1].len \in Nat
    BY <1>1
  <2> QED BY <2>1
<1>6. base \in [D -> Nat]
  BY <1>2
<1>7. \A i \in D, v \in Nat : i # 1 => turn[<<i, v>>] = v + lines[i - 1].len
  OBVIOUS
<1>8. \A i \in D : base[i] = IF HasAddress(lines[i]) THEN lines[i].addr ELSE 0
  OBVIOUS
<1>9. \A i \in D : i \in more <=> ~HasAddress(lines[i]) /\ i # 1
  OBVIOUS
<1>10. h = CHOOSE f : P(f)
  BY DEF Address
<1> HIDE DEF D, more, next, size, turn, base, h
<1>11. Recursive(D, more, next, size, Nat, turn, base)
  BY <1>3, <1>4, <1>5, <1>6 DEF Recursive
<1>12. PICK g \in [D -> Nat] : Computes(g, D, more, next, turn, base)
  BY <1>11, Recursion
<1>13. P(g)
  <2>1. \A i \in D : i \in more => g[i] = turn[<<i, g[i - 1]>>] /\ g[i - 1] \in Nat
    BY <1>3, <1>4, <1>12 DEF Computes
  <2>2. \A i \in D : i \notin more => g[i] = base[i]
    BY <1>12 DEF Computes
  <2>3. \A i \in D : ~HasAddress(lines[i]) /\ i # 1 => g[i] = g[i - 1] + lines[i - 1].len
    BY <1>7, <1>9, <2>1
  <2>4. \A i \in D : HasAddress(lines[i]) => g[i] = lines[i].addr
    BY <1>8, <1>9, <2>2
  <2>5. \A i \in D : ~HasAddress(lines[i]) /\ i = 1 => g[i] = 0
    BY <1>8, <1>9, <2>2
  <2> QED BY <1>1, <2>3, <2>4, <2>5
<1>14. P(h)
  <2> HIDE DEF P
  <2> QED BY <1>10, <1>13
<1>15. \A i \in D : h[i] = IF HasAddress(lines[i]) THEN lines[i].addr
                           ELSE IF i = 1 THEN 0 ELSE h[i - 1] + lines[i - 1].len
  BY <1>1, <1>14
<1> HIDE DEF P
<1> DEFINE T == {i \in D : h[i] \in Nat}
<1>16. Inductive(T, D, more, next)
  <2>1. \A i \in D : i \notin more => i \in T
    BY <1>2, <1>9, <1>15
  <2>2. \A i \in D : i \in more /\ next[i] \in T => i \in T
    <3> SUFFICES ASSUME NEW i \in D, i \in more, h[i - 1] \in Nat, i - 1 \in D PROVE h[i] \in Nat
      BY <1>4
    <3>1. h[i] = h[i - 1] + lines[i - 1].len
      BY <1>9, <1>15
    <3> QED BY <1>1, <3>1
  <2> QED BY <2>1, <2>2 DEF Inductive
<1>17. \A i \in D : i \in T
  <2> HIDE DEF T
  <2> QED BY <1>11, <1>16, RecursionInduction
<1> QED BY <1>15, <1>17 DEF D, h

-----------------------------------------------------------------------------
\* Line i is at Address(lines)[i] and ends before End(lines, i).
End(lines, i)       == Address(lines)[i] + lines[i].len
Spot(lines, i, k)   == Address(lines)[i] + k - 1

\* data are the bytes of the lines behind "at" up to upTo, from addr on.
Together(lines, at, upTo, addr, data) ==
  /\ addr \in Nat /\ Len(data) \in Nat /\ addr + Len(data) = End(lines, upTo)
  /\ \A i \in at + 1 .. upTo : \A k \in 1 .. lines[i].len :
       /\ Spot(lines, i, k) \in addr .. addr + Len(data) - 1
       /\ data[Spot(lines, i, k) - addr + 1] = Byte(i, k)
  /\ \A a \in addr .. addr + Len(data) - 1 : \E i \in at + 1 .. upTo : Covers(lines, i, a)

\* What is read at once, up to the next line with an address, belongs together.
LEMMA BytesTogether ==
  ASSUME NEW lines \in Seq(Lines), NEW at \in Nat, NEW upTo \in at .. Len(lines),
         \A i \in at + 2 .. upTo : ~HasAddress(lines[i])
  PROVE  LET data == Bytes(lines, at, upTo)
         IN  /\ upTo = at => data = <<>>
             /\ upTo > at => /\ data # <<>>
                             /\ Together(lines, at, upTo, Address(lines)[at + 1], data)
<1> DEFINE data      == Bytes(lines, at, upTo)
           m         == upTo - at
           A(i)      == Address(lines)[i]
           len(i)    == lines[i].len
           spot(i, k) == A(i) + k - 1
           ss        == [j \in 1 .. m |-> [k \in 1 .. len(at + j) |-> Byte(at + j, k)]]
           before(j) == Before(ss, j)
<1>1. m \in Nat /\ \A j \in 1 .. m : at + j \in at + 1 .. upTo /\ at + j \in 1 .. Len(lines)
  OBVIOUS
<1>2. \A i \in 1 .. Len(lines) : len(i) \in Nat \ {0} /\ A(i) \in Nat
  <2>1. \A i \in 1 .. Len(lines) : lines[i] \in Lines
    OBVIOUS
  <2> QED BY <2>1, AddressOf DEF Lines
<1>3. \A i \in 2 .. Len(lines) : ~HasAddress(lines[i]) => A(i) = A(i - 1) + len(i - 1)
  BY AddressOf
<1>4. /\ ss \in Seq(Seq(Int)) /\ Len(ss) = m
      /\ \A j \in 1 .. m : Len(ss[j]) = len(at + j)
      /\ \A j \in 1 .. m : \A k \in 1 .. len(at + j) : ss[j][k] = Byte(at + j, k)
  <2>1. \A j \in 1 .. m : /\ ss[j] \in [1 .. len(at + j) -> Int] /\ len(at + j) \in Nat
                          /\ \A k \in 1 .. len(at + j) : ss[j][k] = Byte(at + j, k)
    <3> SUFFICES ASSUME NEW j \in 1 .. m
                 PROVE  /\ ss[j] \in [1 .. len(at + j) -> Int] /\ len(at + j) \in Nat
                        /\ \A k \in 1 .. len(at + j) : ss[j][k] = Byte(at + j, k)
      OBVIOUS
    <3>1. len(at + j) \in Nat /\ at + j \in Int
      BY <1>1, <1>2
    <3>2. \A k \in 1 .. len(at + j) : Byte(at + j, k) \in Int
      BY <3>1 DEF Byte
    <3> QED BY <3>1, <3>2
  <2>2. DOMAIN ss = 1 .. m /\ ss = [j \in 1 .. m |-> ss[j]]
    OBVIOUS
  <2> HIDE DEF ss, len, m
  <2>3. \A j \in 1 .. m : ss[j] \in Seq(Int) /\ Len(ss[j]) = len(at + j)
    <3>1. \A l \in Nat : \A f \in [1 .. l -> Int] : f \in Seq(Int) /\ Len(f) = l
      OBVIOUS
    <3> QED BY <2>1, <3>1
  <2>4. ss \in [1 .. m -> Seq(Int)]
    BY <2>2, <2>3
  <2>5. ss \in Seq(Seq(Int)) /\ Len(ss) = m
    BY <1>1, <2>4
  <2> QED BY <2>1, <2>3, <2>5
<1>5. data = FlattenSeq(ss)
  BY DEF Bytes
<1> HIDE DEF data, ss, m, len, A, spot
<1>6. /\ \A j \in 1 .. m + 1 : before(j) \in Nat
      /\ before(1) = 0
      /\ data \in Seq(Int) /\ Len(data) = before(m + 1)
      /\ \A j \in 1 .. m : /\ before(j + 1) = before(j) + len(at + j)
                           /\ before(j + 1) <= Len(data)
                           /\ \A k \in 1 .. len(at + j) : data[before(j) + k] = Byte(at + j, k)
  <2>1. /\ \A i \in 1 .. Len(ss) + 1 : Before(ss, i) \in Nat
        /\ Before(ss, 1) = 0
        /\ FlattenSeq(ss) \in Seq(Int) /\ Len(FlattenSeq(ss)) = Before(ss, Len(ss) + 1)
        /\ \A i \in 1 .. Len(ss) :
             /\ Before(ss, i + 1) = Before(ss, i) + Len(ss[i])
             /\ Before(ss, i + 1) <= Len(FlattenSeq(ss))
             /\ \A k \in 1 .. Len(ss[i]) : FlattenSeq(ss)[Before(ss, i) + k] = ss[i][k]
    BY <1>4, Flatten
  <2>2. Len(ss) = m
    BY <1>4
  <2> QED BY <1>4, <1>5, <2>1, <2>2
<1> HIDE DEF before
<1>7. Len(data) \in Nat /\ (upTo = at => data = <<>>)
  <2>1. upTo = at => m = 0
    BY DEF m
  <2>2. m = 0 => Len(data) = 0
    BY <1>6
  <2>3. \A q \in Seq(Int) : Len(q) \in Nat /\ (Len(q) = 0 => q = <<>>)
    OBVIOUS
  <2> QED BY <1>6, <2>1, <2>2, <2>3
<1>8. ASSUME upTo > at
      PROVE  \A j \in 1 .. m : A(at + j) = A(at + 1) + before(j)
  <2>1. m \in Nat \ {0} /\ m - 1 \in Nat
    BY <1>8 DEF m
  <2> DEFINE T == {j \in 0 .. m - 1 : A(at + j + 1) = A(at + 1) + before(j + 1)}
  <2>2. 0 \in T
    <3>1. at + 0 + 1 = at + 1 /\ 0 + 1 = 1 /\ at + 1 \in 1 .. Len(lines) /\ 0 \in 0 .. m - 1
      BY <2>1 DEF m
    <3>2. A(at + 1) + before(1) = A(at + 1)
      BY <1>2, <1>6, <3>1
    <3> QED BY <3>1, <3>2
  <2>3. \A j \in 0 .. (m - 1) - 1 : j \in T => j + 1 \in T
    <3> SUFFICES ASSUME NEW j \in 0 .. (m - 1) - 1, A(at + j + 1) = A(at + 1) + before(j + 1)
                 PROVE  j + 1 \in 0 .. m - 1 /\ A(at + (j + 1) + 1) = A(at + 1) + before((j + 1) + 1)
      OBVIOUS
    <3> DEFINE i == at + j + 2
    <3>1. /\ j + 1 \in 0 .. m - 1 /\ j + 1 \in 1 .. m /\ at + (j + 1) + 1 = i /\ i - 1 = at + j + 1
          /\ i \in 2 .. Len(lines) /\ i \in at + 2 .. upTo /\ at + (j + 1) = at + j + 1
          /\ at + 1 \in 1 .. Len(lines) /\ at + j + 1 \in 1 .. Len(lines) /\ j + 1 \in 1 .. m + 1
      BY <2>1 DEF m
    <3> HIDE DEF i
    <3>2. A(i) = A(at + j + 1) + len(at + j + 1)
      BY <1>3, <3>1
    <3>3. before((j + 1) + 1) = before(j + 1) + len(at + j + 1)
      BY <1>6, <3>1
    <3>4. before(j + 1) \in Nat /\ len(at + j + 1) \in Nat /\ A(at + 1) \in Nat
      BY <1>2, <1>6, <3>1
    <3> QED BY <3>1, <3>2, <3>3, <3>4
  <2>4. \A j \in 0 .. m - 1 : j \in T
    <3> HIDE DEF T
    <3> QED BY <2>1, <2>2, <2>3, CountUp
  <2>5. \A j \in 1 .. m : j - 1 \in 0 .. m - 1 /\ at + (j - 1) + 1 = at + j /\ (j - 1) + 1 = j
    BY <2>1
  <2> QED BY <2>4, <2>5
<1>9. ASSUME upTo > at
      PROVE  /\ data # <<>> /\ A(at + 1) + Len(data) = A(upTo) + len(upTo)
             /\ \A i \in at + 1 .. upTo : \A k \in 1 .. len(i) :
                  /\ spot(i, k) \in A(at + 1) .. A(at + 1) + Len(data) - 1
                  /\ data[spot(i, k) - A(at + 1) + 1] = Byte(i, k)
  <2>1. /\ m \in Nat \ {0} /\ m \in 1 .. m /\ 1 \in 1 .. m /\ at + m = upTo /\ at + 1 \in 1 .. Len(lines)
        /\ upTo \in 1 .. Len(lines)
    BY <1>9 DEF m
  <2>2. A(at + 1) + Len(data) = A(upTo) + len(upTo)
    <3>1. A(upTo) = A(at + 1) + before(m) /\ Len(data) = before(m) + len(upTo) /\ before(m) \in Nat
      <4>1. m \in 1 .. m + 1
        BY <2>1
      <4> QED BY <1>6, <1>8, <1>9, <2>1, <4>1
    <3>2. A(at + 1) \in Nat /\ len(upTo) \in Nat
      BY <1>2, <2>1
    <3> QED BY <3>1, <3>2
  <2>3. data # <<>>
    <3>1. before(2) = len(at + 1) /\ before(2) <= Len(data) /\ len(at + 1) \in Nat \ {0}
      <4>1. before(1 + 1) = before(1) + len(at + 1) /\ before(1 + 1) <= Len(data)
        BY <1>6, <2>1
      <4> QED BY <1>2, <1>6, <2>1, <4>1
    <3>2. Len(data) # 0
      BY <1>7, <3>1
    <3> QED BY <3>2
  <2>4. ASSUME NEW i \in at + 1 .. upTo, NEW k \in 1 .. len(i)
        PROVE  /\ spot(i, k) \in A(at + 1) .. A(at + 1) + Len(data) - 1
               /\ data[spot(i, k) - A(at + 1) + 1] = Byte(i, k)
    <3> DEFINE j == i - at
    <3>1. j \in 1 .. m /\ j \in 1 .. m + 1 /\ at + j = i /\ i \in 1 .. Len(lines)
      BY <1>1, <2>1
    <3> HIDE DEF j
    <3>2. /\ A(i) = A(at + 1) + before(j) /\ before(j) \in Nat /\ A(at + 1) \in Nat
          /\ before(j) + len(i) <= Len(data) /\ len(i) \in Nat
          /\ data[before(j) + k] = Byte(i, k)
      <4>1. before(j + 1) = before(j) + len(i) /\ before(j + 1) <= Len(data) /\ data[before(j) + k] = Byte(i, k)
        BY <1>6, <3>1
      <4>2. A(i) = A(at + 1) + before(j)
        BY <1>8, <1>9, <3>1
      <4>3. before(j) \in Nat /\ A(at + 1) \in Nat /\ len(i) \in Nat
        BY <1>2, <1>6, <2>1, <3>1
      <4> QED BY <4>1, <4>2, <4>3
    <3>3. /\ spot(i, k) \in A(at + 1) .. A(at + 1) + Len(data) - 1
          /\ spot(i, k) - A(at + 1) + 1 = before(j) + k
      <4> DEFINE a == A(at + 1)
                 b == before(j)
                 l == len(i)
                 n == Len(data)
      <4>1. a \in Nat /\ b \in Nat /\ l \in Nat /\ n \in Nat /\ b + l <= n /\ k \in 1 .. l
        BY <1>7, <3>2
      <4>2. spot(i, k) = (a + b) + k - 1
        BY <3>2 DEF spot
      <4> HIDE DEF a, b, l, n
      <4>3. spot(i, k) \in a .. a + n - 1 /\ spot(i, k) - a + 1 = b + k
        BY <4>1, <4>2
      <4> QED BY <4>3 DEF a, b, n
    <3> QED BY <3>2, <3>3
  <2> QED BY <2>2, <2>3, <2>4
<1>10. ASSUME upTo > at, NEW a \in A(at + 1) .. A(at + 1) + Len(data) - 1
       PROVE  \E i \in at + 1 .. upTo : A(i) <= a /\ a < A(i) + len(i)
  <2> DEFINE I == {i \in at + 1 .. upTo : A(i) <= a}
  <2>1. at + 1 \in at + 1 .. upTo /\ at + 1 \in 1 .. Len(lines) /\ A(at + 1) \in Nat /\ upTo \in Nat
    <3>1. at + 1 \in at + 1 .. upTo /\ at + 1 \in 1 .. Len(lines) /\ upTo \in Nat
      BY <1>10
    <3> QED BY <1>2, <3>1
  <2>2. at + 1 \in I /\ a \in Int
    BY <1>7, <1>10, <2>1
  <2>3. I \in SUBSET (0 .. upTo)
    BY <2>1
  <2>4. Max(I) \in I /\ \A j \in I : Max(I) >= j
    <3> HIDE DEF I
    <3> QED BY <2>1, <2>2, <2>3, GreatestNumber
  <2> DEFINE i == Max(I)
  <2>5. i \in at + 1 .. upTo /\ A(i) <= a
    BY <2>4
  <2>6. CASE i = upTo
    <3>1. A(at + 1) + Len(data) = A(upTo) + len(upTo)
      BY <1>9, <1>10
    <3>2. A(at + 1) + Len(data) \in Int
      BY <1>7, <2>1
    <3>3. a < A(at + 1) + Len(data)
      BY <1>7, <1>10, <2>1
    <3>4. A(i) + len(i) = A(upTo) + len(upTo)
      BY <2>6
    <3> HIDE DEF i
    <3> QED BY <2>5, <3>1, <3>2, <3>3, <3>4
  <2>7. CASE i # upTo
    <3>1. /\ i + 1 \in at + 2 .. upTo /\ i + 1 \in at + 1 .. upTo /\ i + 1 \in 2 .. Len(lines)
          /\ (i + 1) - 1 = i /\ i + 1 > i
      <4> HIDE DEF i
      <4> QED BY <2>1, <2>5, <2>7
    <3>2. A(i + 1) = A(i) + len(i)
      <4> HIDE DEF i
      <4> QED BY <1>3, <3>1
    <3>3. i + 1 \notin I
      <4>1. \A j \in I : i >= j
        BY <2>4
      <4>2. ~(i >= i + 1)
        <5> HIDE DEF i
        <5> QED BY <2>1, <2>5
      <4> HIDE DEF i, I
      <4> QED BY <4>1, <4>2
    <3>4. ~(A(i + 1) <= a)
      BY <3>1, <3>3
    <3>5. A(i) \in Nat /\ len(i) \in Nat
      <4> HIDE DEF i
      <4>1. i \in 1 .. Len(lines)
        BY <2>1, <2>5
      <4> QED BY <1>2, <4>1
    <3>6. a < A(i) + len(i)
      <4> HIDE DEF i
      <4> QED BY <2>2, <3>2, <3>4, <3>5
    <3> QED BY <2>5, <3>6
  <2> QED BY <2>6, <2>7
<1>11. upTo > at => A(at + 1) \in Nat
  <2>1. upTo > at => at + 1 \in 1 .. Len(lines)
    OBVIOUS
  <2> QED BY <1>2, <2>1
<1>12. upTo > at => Together(lines, at, upTo, Address(lines)[at + 1], data)
  <2> SUFFICES ASSUME upTo > at
               PROVE  Together(lines, at, upTo, A(at + 1), data)
    BY DEF A
  <2>1. A(at + 1) \in Nat /\ Len(data) \in Nat /\ A(at + 1) + Len(data) = End(lines, upTo)
    BY <1>7, <1>9, <1>11 DEF End, A, len
  <2>2. \A i \in at + 1 .. upTo : \A k \in 1 .. lines[i].len :
          /\ Spot(lines, i, k) \in A(at + 1) .. A(at + 1) + Len(data) - 1
          /\ data[Spot(lines, i, k) - A(at + 1) + 1] = Byte(i, k)
    <3>1. \A i, k : Spot(lines, i, k) = spot(i, k)
      BY DEF Spot, spot, A
    <3>2. \A i : lines[i].len = len(i)
      BY DEF len
    <3> QED BY <1>9, <3>1, <3>2
  <2>3. \A a \in A(at + 1) .. A(at + 1) + Len(data) - 1 :
          \E i \in at + 1 .. upTo : Covers(lines, i, a)
    <3>1. \A i, a : Covers(lines, i, a) <=> A(i) <= a /\ a < A(i) + len(i)
      BY DEF Covers, End, A, len
    <3> QED BY <1>10, <3>1
  <2> QED BY <2>1, <2>2, <2>3 DEF Together
<1> QED BY <1>7, <1>9, <1>12 DEF data

-----------------------------------------------------------------------------
\* The strings of a load: the name of the file, and the numbers.
LEMMA StringsOf ==
  ASSUME NEW file \in Programs, NEW args \in ArgumentLists,
         NEW strings, strings = Strings(file, args)
  PROVE  /\ strings \in Seq(Seq(Letters)) /\ \A i \in 1 .. Len(strings) : strings[i] # <<>>
         /\ Len(args) \in Nat /\ DOMAIN args = 1 .. Len(args)
         /\ Len(strings) = Len(args) + 1 /\ strings[1] = file.name
         /\ \A i \in 1 .. Len(args) : strings[i + 1] = ditoa(args[i])
<1> DEFINE V       == Seq(Letters) \ {<<>>}
           n       == Len(args)
           name    == <<file.name>>
           numbers == [i \in DOMAIN args |-> ditoa(args[i])]
<1>1. n \in Nat /\ DOMAIN args = 1 .. n /\ \A i \in 1 .. n : args[i] \in Int
  <2>1. args \in Seq(Int)
    <3>1. args \in Seq({x \in Int : x < 1000000000})
      BY NumbersAssumption
    <3> QED BY <3>1
  <2> QED BY <2>1
<1>2. \A x \in Int : ditoa(x) \in V
  <2> SUFFICES ASSUME NEW x \in Int PROVE ditoa(x) \in V
    OBVIOUS
  <2>1. CASE x < 0
    <3>1. Minus \in Letters
      BY DEF Minus, Letters, NUL
    <3> QED BY <2>1, <3>1 DEF ditoa
  <2>2. CASE ~(x < 0)
    <3>1. Digits[x] \in Seq(0 .. 9) \ {<<>>}
      BY <2>2, DigitsOf
    <3>2. 0 .. 9 \subseteq Letters
      BY DEF Letters, NUL
    <3> QED BY <2>2, <3>1, <3>2 DEF ditoa
  <2> QED BY <2>1, <2>2
<1>3. file.name \in V
  <2>1. file.name \in Seq(Nat) \ {<<>>}
    BY ProgramsAssumption
  <2>2. Nat \subseteq Letters
    BY DEF Letters, NUL
  <2> QED BY <2>1, <2>2
<1> HIDE DEF V
<1>4. name \in Seq(V) /\ Len(name) = 1 /\ name[1] = file.name
  BY <1>3
<1>5. numbers \in Seq(V) /\ Len(numbers) = n /\ \A i \in 1 .. n : numbers[i] = ditoa(args[i])
  <2>1. numbers = [i \in 1 .. n |-> ditoa(args[i])]
    BY <1>1
  <2>2. numbers \in [1 .. n -> V] /\ \A i \in 1 .. n : numbers[i] = ditoa(args[i])
    BY <1>1, <1>2, <2>1
  <2> HIDE DEF numbers, n
  <2>3. numbers \in Seq(V) /\ Len(numbers) = n
    BY <1>1, <2>2
  <2> QED BY <2>2, <2>3
<1>6. strings = name \o numbers
  BY DEF Strings
<1> HIDE DEF name, numbers, n
<1>7. /\ strings \in Seq(V) /\ Len(strings) = n + 1 /\ strings[1] = file.name
      /\ \A i \in 1 .. n : strings[i + 1] = ditoa(args[i])
  <2>1. /\ name \o numbers \in Seq(V) /\ Len(name \o numbers) = 1 + n
        /\ \A i \in 1 .. 1 + n :
             (name \o numbers)[i] = IF i <= 1 THEN name[i] ELSE numbers[i - 1]
    <3>1. \A s \in Seq(V), t \in Seq(V) : Len(s) = 1 /\ Len(t) = n =>
            /\ s \o t \in Seq(V) /\ Len(s \o t) = 1 + n
            /\ \A i \in 1 .. 1 + n : (s \o t)[i] = IF i <= 1 THEN s[i] ELSE t[i - 1]
      <4> SUFFICES ASSUME NEW s \in Seq(V), NEW t \in Seq(V), Len(s) = 1, Len(t) = n
                   PROVE  /\ s \o t \in Seq(V) /\ Len(s \o t) = 1 + n
                          /\ \A i \in 1 .. 1 + n : (s \o t)[i] = IF i <= 1 THEN s[i] ELSE t[i - 1]
        OBVIOUS
      <4>1. /\ s \o t \in Seq(V) /\ Len(s \o t) = Len(s) + Len(t)
            /\ \A i \in 1 .. Len(s) + Len(t) :
                 (s \o t)[i] = IF i <= Len(s) THEN s[i] ELSE t[i - Len(s)]
        BY ConcatProperties
      <4> QED BY <4>1
    <3> QED BY <1>4, <1>5, <3>1
  <2>2. 1 \in 1 .. 1 + n /\ \A i \in 1 .. n : /\ i + 1 \in 1 .. 1 + n /\ ~(i + 1 <= 1)
                                              /\ (i + 1) - 1 = i
    BY <1>1
  <2>3. (name \o numbers)[1] = file.name
    BY <1>4, <2>1, <2>2
  <2>4. \A i \in 1 .. n : (name \o numbers)[i + 1] = ditoa(args[i])
    BY <1>5, <2>1, <2>2
  <2>5. 1 + n = n + 1
    BY <1>1
  <2> QED BY <1>6, <2>1, <2>3, <2>4, <2>5
<1>8. strings \in Seq(Seq(Letters)) /\ \A i \in 1 .. Len(strings) : strings[i] # <<>>
  <2>1. \A i \in 1 .. Len(strings) : strings[i] \in V
    BY <1>7
  <2>2. V \subseteq Seq(Letters) /\ \A s \in V : s # <<>>
    BY DEF V
  <2>3. strings \in Seq(Seq(Letters))
    BY <1>7, <2>2
  <2> QED BY <2>1, <2>2, <2>3
<1> QED BY <1>1, <1>7, <1>8 DEF n

-----------------------------------------------------------------------------
\* What has been read is in the memory, where no later line has been written over it.
Holds(memory, lines, upTo) ==
  \A i \in 1 .. upTo : \A k \in 1 .. lines[i].len :
    LET a == Spot(lines, i, k)
    IN  a < 2 * MEMORY_PAGE_SIZE /\ (\A j \in i + 1 .. upTo : ~Covers(lines, j, a)) =>
          Cell(memory, a) = Byte(i, k)

\* One read more is copied behind, or over, what was read before.
LEMMA HoldsMore ==
  ASSUME NEW lines \in Seq(Lines), NEW at \in Nat, NEW upTo \in at + 1 .. Len(lines),
         NEW memory, Holds(memory, lines, at),
         NEW addr, NEW data, Together(lines, at, upTo, addr, data)
  PROVE  LET copied == MemoryCopySystemToUser(memory, addr, data)
         IN  /\ Holds(copied, lines, upTo)
             /\ \A a \in DOMAIN copied : \/ a \in DOMAIN memory
                                          \/ \E i \in at + 1 .. upTo : Covers(lines, i, a)
<1> DEFINE copied == MemoryCopySystemToUser(memory, addr, data)
<1>1. addr \in Nat /\ Len(data) \in Nat
  BY DEF Together
<1>2. ASSUME NEW a
      PROVE  /\ DOMAIN copied = Reached(addr, data) \cup DOMAIN memory
             /\ Cell(copied, a) = CellCopied(memory, addr, data, a)
  BY <1>1, CopyWrites
<1> HIDE DEF copied
<1>3. ASSUME NEW i \in 1 .. upTo, NEW k \in 1 .. lines[i].len, NEW a, a = Spot(lines, i, k),
             a < 2 * MEMORY_PAGE_SIZE, \A j \in i + 1 .. upTo : ~Covers(lines, j, a)
      PROVE  Cell(copied, a) = Byte(i, k)
  <2>1. i \in Nat /\ upTo \in Nat /\ at < upTo
    OBVIOUS
  <2>2. CASE i > at
    <3>1. i \in at + 1 .. upTo
      BY <2>1, <2>2
    <3>2. a \in addr .. addr + Len(data) - 1 /\ data[a - addr + 1] = Byte(i, k)
      BY <1>3, <3>1 DEF Together
    <3>3. a \in Reached(addr, data)
      BY <1>3, <3>2 DEF Reached
    <3> QED BY <1>2, <3>2, <3>3 DEF CellCopied
  <2>3. CASE i <= at
    <3>1. i \in 1 .. at /\ \A j \in i + 1 .. at : j \in i + 1 .. upTo
      BY <2>1, <2>3
    <3>2. \A j \in at + 1 .. upTo : j \in i + 1 .. upTo
      BY <2>1, <2>3
    <3>3. a \notin Reached(addr, data)
      BY <1>3, <3>2 DEF Reached, Together
    <3>4. Cell(copied, a) = Cell(memory, a)
      BY <1>2, <3>3 DEF CellCopied
    <3>5. \A j \in i + 1 .. at : ~Covers(lines, j, a)
      BY <1>3, <3>1
    <3>6. Cell(memory, a) = Byte(i, k)
      BY <1>3, <3>1, <3>5 DEF Holds
    <3> QED BY <3>4, <3>6
  <2> QED BY <2>1, <2>2, <2>3
<1>4. Holds(copied, lines, upTo)
  BY <1>3 DEF Holds
<1>5. ASSUME NEW a \in DOMAIN copied, a \notin DOMAIN memory
      PROVE  \E i \in at + 1 .. upTo : Covers(lines, i, a)
  <2>1. a \in addr .. addr + Len(data) - 1
    BY <1>2, <1>5 DEF Reached
  <2> QED BY <2>1 DEF Together
<1> QED BY <1>4, <1>5 DEF copied

-----------------------------------------------------------------------------
Fields == {"phase", "file", "args", "fd", "allargs", "seek", "addr", "sp", "memory"}

\* How far a load has come.
Reading ==
  load.phase = "reading" =>
    /\ Fields \subseteq DOMAIN load
    /\ load.file \in Programs /\ load.args \in ArgumentLists
    /\ load.allargs = TrapProcessCreateHandler(Strings(load.file, load.args))
    /\ load.seek \in 0 .. Len(load.file.lines)
    /\ load.addr = IF load.seek = 0 THEN 0 ELSE End(load.file.lines, load.seek)
    /\ Holds(load.memory, load.file.lines, load.seek)

\* A fork that begins has read nothing.
LEMMA BeginReads ==
  ASSUME NEW file \in Programs, NEW args \in ArgumentLists, BeginLoad(file, args)
  PROVE  Reading' /\ WritesAccounted' /\ load'.phase # "started"
<1>1. CASE load' = NoLoad
  BY <1>1 DEF Reading, WritesAccounted, NoLoad
<1>2. CASE /\ load'.phase = "reading" /\ DOMAIN load' = Fields
           /\ load'.file = file /\ load'.args = args
           /\ load'.allargs = TrapProcessCreateHandler(Strings(file, args))
           /\ load'.seek = 0 /\ load'.addr = 0 /\ load'.memory = <<>>
  <2>1. Len(file.lines) \in Nat
    BY ProgramsAssumption
  <2>2. Reading'
    <3>1. Holds(load'.memory, load'.file.lines, load'.seek)
      BY <1>2 DEF Holds
    <3> QED BY <1>2, <2>1, <3>1 DEF Reading
  <2> QED BY <1>2, <2>2 DEF WritesAccounted
<1> QED BY <1>1, <1>2 DEF BeginLoad, Fields

\* A read goes on where the last one ended.
LEMMA ReadGoesOn ==
  ASSUME Reading, WritesAccounted, ReadPart
  PROVE  Reading' /\ WritesAccounted' /\ load'.phase # "started"
<1> DEFINE lines == load.file.lines
           at    == load.seek
           first == lines[at + 1]
           addr  == IF HasAddress(first) THEN first.addr ELSE load.addr
<1>1. /\ Fields \subseteq DOMAIN load
      /\ load.file \in Programs /\ load.args \in ArgumentLists
      /\ load.allargs = TrapProcessCreateHandler(Strings(load.file, load.args))
      /\ at \in 0 .. Len(lines) /\ load.addr = IF at = 0 THEN 0 ELSE End(lines, at)
      /\ Holds(load.memory, lines, at) /\ load.phase = "reading"
  BY DEF Reading, ReadPart
<1>2. /\ lines \in Seq(Lines) /\ Len(lines) \in Nat /\ at \in Nat
      /\ UpTo \in at .. Len(lines) /\ \A i \in at + 2 .. UpTo : ~HasAddress(lines[i])
  <2>1. UpTo = LinesTaken(lines, at)
    BY DEF UpTo
  <2> HIDE DEF at
  <2>2. /\ lines \in Seq(Lines) /\ Len(lines) \in Nat /\ UpTo \in at .. Len(lines)
        /\ \A i \in at + 2 .. UpTo : ~HasAddress(lines[i])
    BY <1>1, <2>1, TakesLines
  <2> QED BY <1>1, <2>2
<1>3. Data = Bytes(lines, at, UpTo) /\ Data # <<>>
  BY DEF Data, ReadPart
<1>4. UpTo \in at + 1 .. Len(lines)
  <2>1. UpTo = at => Data = <<>>
    BY <1>2, <1>3, BytesTogether
  <2> QED BY <1>2, <1>3, <2>1
<1>5. addr = Address(lines)[at + 1]
  <2>1. at + 1 \in 1 .. Len(lines) /\ (at + 1) - 1 = at /\ (at + 1 = 1 <=> at = 0)
    BY <1>2, <1>4
  <2>2. Address(lines)[at + 1] = IF HasAddress(first) THEN first.addr
                                 ELSE IF at = 0 THEN 0 ELSE Address(lines)[at] + lines[at].len
    BY <1>2, <2>1, AddressOf
  <2> QED BY <1>1, <2>2 DEF End
<1>6. load' = [load EXCEPT !.seek   = UpTo,
                           !.addr   = addr + Len(Data),
                           !.memory = MemoryCopySystemToUser(@, addr, Data)]
  BY DEF ReadPart
<1> HIDE DEF addr
<1> DEFINE copied == MemoryCopySystemToUser(load.memory, addr, Data)
<1>7. /\ DOMAIN load' = DOMAIN load /\ load'.phase = "reading"
      /\ load'.file = load.file /\ load'.args = load.args /\ load'.allargs = load.allargs
      /\ load'.seek = UpTo /\ load'.addr = addr + Len(Data) /\ load'.memory = copied
  BY <1>1, <1>6 DEF Fields
<1>8. /\ Holds(copied, lines, UpTo) /\ addr + Len(Data) = End(lines, UpTo)
      /\ \A a \in DOMAIN copied : \/ a \in DOMAIN load.memory
                                   \/ \E i \in at + 1 .. UpTo : Covers(lines, i, a)
  <2> HIDE DEF lines, at
  <2>1. Together(lines, at, UpTo, addr, Data)
    BY <1>2, <1>3, <1>4, <1>5, BytesTogether
  <2>2. addr + Len(Data) = End(lines, UpTo)
    BY <2>1 DEF Together
  <2>3. Holds(load.memory, lines, at)
    BY <1>1
  <2> QED BY <1>2, <1>4, <2>1, <2>2, <2>3, HoldsMore
<1> HIDE DEF copied
<1>9. Reading'
  <2>1. UpTo \in 0 .. Len(lines) /\ UpTo # 0
    BY <1>2, <1>4
  <2> QED BY <1>1, <1>7, <1>8, <2>1 DEF Reading
<1>10. WritesAccounted'
  <2>1. \A a \in DOMAIN load.memory : \E i \in 1 .. at : Covers(lines, i, a)
    BY <1>1 DEF WritesAccounted
  <2> HIDE DEF lines, at
  <2>2. 1 .. at \subseteq 1 .. UpTo /\ at + 1 .. UpTo \subseteq 1 .. UpTo
    BY <1>2, <1>4
  <2>3. \A a \in DOMAIN copied : \E i \in 1 .. UpTo : Covers(lines, i, a)
    BY <1>8, <2>1, <2>2
  <2> QED BY <1>7, <2>3 DEF WritesAccounted, lines
<1> QED BY <1>7, <1>9, <1>10

\* The load ends behind the last line.
LEMMA AllIsRead ==
  ASSUME Reading, FinishLoad
  PROVE  load.seek = Len(load.file.lines)
<1> DEFINE lines == load.file.lines
           at    == load.seek
<1>1. load.file \in Programs /\ at \in 0 .. Len(lines)
  BY DEF Reading, FinishLoad
<1>2. UpTo = LinesTaken(lines, at) /\ Data = Bytes(lines, at, UpTo) /\ Data = <<>>
  BY DEF UpTo, Data, FinishLoad
<1> HIDE DEF at
<1>3. /\ lines \in Seq(Lines) /\ Len(lines) \in Nat
      /\ UpTo \in at .. Len(lines) /\ (at < Len(lines) => at < UpTo)
      /\ \A i \in at + 2 .. UpTo : ~HasAddress(lines[i])
  BY <1>1, <1>2, TakesLines
<1>4. at \in Nat
  BY <1>1, <1>3
<1>5. UpTo > at => Data # <<>>
  BY <1>2, <1>3, <1>4, BytesTogether
<1>6. at = Len(lines)
  BY <1>1, <1>2, <1>3, <1>4, <1>5
<1> QED BY <1>6 DEF at

\* The arguments are pushed above the program.
LEMMA FinishKeepsProgram ==
  ASSUME Reading, WritesAccounted, FinishLoad
  PROVE  ProgramLoaded' /\ WritesAccounted' /\ load'.phase = "started"
<1> DEFINE lines   == load.file.lines
           buf     == load.allargs
           offsets == Offsets(buf)
           n       == Len(offsets)
           pushed  == PushArguments(load.memory, buf)
           sp      == StackPointer(offsets)
<1>1. /\ Fields \subseteq DOMAIN load /\ load.phase = "reading" /\ load.file \in Programs
      /\ buf = TrapProcessCreateHandler(Strings(load.file, load.args))
      /\ Holds(load.memory, lines, Len(lines))
  BY AllIsRead DEF Reading, FinishLoad
<1>2. /\ load'.phase = "started" /\ load'.file = load.file /\ load'.seek = load.seek
      /\ load'.sp = sp /\ load'.memory = pushed
  BY <1>1 DEF FinishLoad, Fields
<1>3. /\ n \in Nat /\ sp = ArgumentBase - 4 * (n + 2)
      /\ ArgumentBase \in Nat /\ ArgumentBase + SIZE_ARG_BUFF = MEMORY_PAGE_SIZE
      /\ \A a \in DOMAIN pushed : a \in DOMAIN load.memory \/ (sp <= a /\ a < MEMORY_PAGE_SIZE)
      /\ \A a \in Int : a < sp => Cell(pushed, a) = Cell(load.memory, a)
  <2>1. IsPushed(pushed, sp, load.memory, buf, offsets)
    BY <1>1, ArgumentsPushed
  <2> HIDE DEF pushed, sp, offsets
  <2> QED BY <2>1 DEF IsPushed
<1>4. MEMORY_PAGE_SIZE \in Nat \ {0} /\ sp \in Int /\ sp < MEMORY_PAGE_SIZE
  <2>1. n \in Nat /\ sp = ArgumentBase - 4 * (n + 2) /\ ArgumentBase \in Nat
    BY <1>3
  <2>2. /\ ArgumentBase + SIZE_ARG_BUFF = MEMORY_PAGE_SIZE
        /\ SIZE_ARG_BUFF \in Nat /\ MEMORY_PAGE_SIZE \in Nat \ {0}
    BY <1>3, ArgumentSizes
  <2> HIDE DEF sp, n
  <2> QED BY <2>1, <2>2
<1> HIDE DEF pushed, sp, n, offsets, buf
<1>5. WritesAccounted'
  <2>1. \A a \in DOMAIN load.memory : \E i \in 1 .. load.seek : Covers(lines, i, a)
    BY <1>1 DEF WritesAccounted
  <2> QED BY <1>2, <1>3, <2>1 DEF WritesAccounted
<1>6. lines \in Seq(Lines) /\ Len(lines) \in Nat /\ DOMAIN lines = 1 .. Len(lines)
  BY <1>1, ProgramsAssumption
<1>7. ASSUME NEW i \in DOMAIN lines, NEW k \in 1 .. lines[i].len,
             NEW a, a = Spot(lines, i, k), a < sp,
             \A j \in i + 1 .. Len(lines) : ~Covers(lines, j, a)
      PROVE  Cell(pushed, a) = Byte(i, k)
  <2>1. lines[i].len \in Nat /\ Address(lines)[i] \in Nat
    <3>1. lines[i] \in Lines
      BY <1>6
    <3> QED BY <1>6, <3>1, AddressOf DEF Lines
  <2>2. a \in Int /\ a < 2 * MEMORY_PAGE_SIZE
    BY <1>4, <1>7, <2>1 DEF Spot
  <2>3. Cell(load.memory, a) = Byte(i, k)
    BY <1>1, <1>6, <1>7, <2>2 DEF Holds
  <2> QED BY <1>3, <1>7, <2>2, <2>3
<1>8. ProgramLoaded'
  BY <1>2, <1>7 DEF ProgramLoaded, Covers, Spot
<1> QED BY <1>2, <1>5, <1>8

-----------------------------------------------------------------------------
\* And they come out of the memory as they went in.
LEMMA FinishBringsArguments ==
  ASSUME Reading, FinishLoad
  PROVE  ArgumentsArrive'
<1> DEFINE file    == load.file
           args    == load.args
           buf     == load.allargs
           strings == Strings(file, args)
           offsets == Offsets(buf)
           pushed  == PushArguments(load.memory, buf)
           sp      == StackPointer(offsets)
<1>1. /\ Fields \subseteq DOMAIN load /\ load.phase = "reading"
      /\ file \in Programs /\ args \in ArgumentLists /\ buf = TrapProcessCreateHandler(strings)
  BY DEF Reading, FinishLoad
<1>2. /\ load'.phase = "started" /\ load'.file = file /\ load'.args = args
      /\ load'.sp = sp /\ load'.memory = pushed
  BY <1>1 DEF FinishLoad, Fields
<1>3. IsPushed(pushed, sp, load.memory, buf, offsets)
  <2> HIDE DEF buf, strings
  <2> QED BY <1>1, ArgumentsPushed
<1> HIDE DEF buf, pushed, sp, file, args, strings
<1>4. /\ strings \in Seq(Seq(Letters)) /\ \A i \in 1 .. Len(strings) : strings[i] # <<>>
      /\ Len(args) \in Nat /\ DOMAIN args = 1 .. Len(args)
      /\ Len(strings) = Len(args) + 1 /\ strings[1] = file.name
      /\ \A i \in 1 .. Len(args) : strings[i + 1] = ditoa(args[i])
  BY <1>1, StringsOf DEF strings
<1>5. ASSUME Len(strings) <= STRING_LIMIT, Len(Packed(strings)) <= ARG_LIMIT
      PROVE  /\ argc(pushed, sp) = Len(strings)
             /\ StringAt(pushed, argv(pushed, sp, 0)) = file.name
             /\ \A i \in DOMAIN args :
                  args[i] >= 0 => dstrtol(StringAt(pushed, argv(pushed, sp, i))) = args[i]
  <2>1. /\ argc(pushed, sp) = Len(strings)
        /\ \A i \in 1 .. Len(strings) : StringAt(pushed, argv(pushed, sp, i - 1)) = strings[i]
    BY <1>1, <1>3, <1>4, <1>5, StringsArrive
  <2>2. /\ 1 \in 1 .. Len(strings) /\ 1 - 1 = 0
        /\ \A i \in 1 .. Len(args) : i + 1 \in 1 .. Len(strings) /\ (i + 1) - 1 = i
    BY <1>4
  <2>3. StringAt(pushed, argv(pushed, sp, 0)) = file.name
    BY <1>4, <2>1, <2>2
  <2>4. ASSUME NEW i \in DOMAIN args, args[i] >= 0
        PROVE  dstrtol(StringAt(pushed, argv(pushed, sp, i))) = args[i]
    <3>1. StringAt(pushed, argv(pushed, sp, i)) = ditoa(args[i])
      BY <1>4, <2>1, <2>2
    <3>2. args[i] \in Nat
      <4>1. args \in Seq({x \in Int : x < 1000000000})
        BY <1>1, NumbersAssumption
      <4>2. args[i] \in Int
        BY <4>1
      <4> QED BY <2>4, <4>2
    <3>3. ditoa(args[i]) = Digits[args[i]] /\ dstrtol(Digits[args[i]]) = args[i]
      BY <3>2, ReadsWhatIsWritten DEF ditoa
    <3> QED BY <3>1, <3>3
  <2> QED BY <2>1, <2>3, <2>4
<1> QED BY <1>2, <1>5 DEF ArgumentsArrive, strings
-----------------------------------------------------------------------------
\* What a load has done so far, and what a started process finds.
LoadInv == Reading /\ ProgramLoaded /\ WritesAccounted /\ ArgumentsArrive

LEMMA LoadKeeps == LoadInv /\ [Next]_vars => LoadInv'
<1> SUFFICES ASSUME LoadInv, [Next]_vars
             PROVE  LoadInv'
  OBVIOUS
<1>1. CASE load' = load
  BY <1>1 DEF LoadInv, Reading, ProgramLoaded, WritesAccounted, ArgumentsArrive
<1>2. CASE Reading' /\ WritesAccounted' /\ load'.phase # "started"
  BY <1>2 DEF LoadInv, ProgramLoaded, ArgumentsArrive
<1>3. CASE DumpFile \/ \E exists \in BOOLEAN : OpenVm(exists)
  BY <1>1, <1>3 DEF DumpFile, OpenVm
<1>4. CASE \E file \in Programs, args \in ArgumentLists : BeginLoad(file, args)
  BY <1>2, <1>4, BeginReads
<1>5. CASE ReadPart
  BY <1>2, <1>5, ReadGoesOn DEF LoadInv
<1>6. CASE FinishLoad
  <2>1. Reading'
    BY <1>6, FinishKeepsProgram DEF LoadInv, Reading
  <2> QED BY <1>6, <2>1, FinishKeepsProgram, FinishBringsArguments DEF LoadInv
<1>7. CASE UNCHANGED vars
  BY <1>1, <1>7 DEF vars
<1> QED BY <1>3, <1>4, <1>5, <1>6, <1>7 DEF Next

LEMMA LoadAtFirst == Init => LoadInv
BY DEF Init, NoLoad, LoadInv, Reading, ProgramLoaded, WritesAccounted, ArgumentsArrive

\* However the reads cut a file up, a process starts with every byte of its program
\* where the file puts it, below its arguments (process.c:651-765, 893-914).
THEOREM ProgramsArriveInMemory == Spec => []ProgramLoaded
<1>1. LoadInv => ProgramLoaded
  BY DEF LoadInv
<1> QED BY <1>1, LoadAtFirst, LoadKeeps, PTL DEF Spec

\* However the reads cut a file up, a load writes the lines it has read where the file
\* puts them, the arguments at the top of the page, and nothing else: a program that
\* fits in its page leaves all others alone (process.c:651-765, 893-914, memory.c:169).
THEOREM WritesStayAccounted == Spec => []WritesAccounted
<1>1. LoadInv => WritesAccounted
  BY DEF LoadInv
<1> QED BY <1>1, LoadAtFirst, LoadKeeps, PTL DEF Spec

\* Written in digits, packed, cut up, copied, pushed and read back, the arguments of
\* a process are what they were, within the documented limits (traps.c, process.c,
\* misc.c).
THEOREM ArgumentsAlwaysArrive == Spec => []ArgumentsArrive
<1>1. LoadInv => ArgumentsArrive
  BY DEF LoadInv
<1> QED BY <1>1, LoadAtFirst, LoadKeeps, PTL DEF Spec
=============================================================================
