----------------------------- MODULE Arguments -----------------------------
(***************************************************************************)
(* How numbers travel from a process to the one it creates: as decimal     *)
(* strings (src/os/misc.c), packed into one buffer by the trap handler     *)
(* (src/os/traps.c), copied to the top of the child's memory and described *)
(* there by argc and argv (src/os/process.c), and turned back by the       *)
(* child.  A character is a digit, a letter (10 and up) or NUL.            *)
(***************************************************************************)
EXTENDS Integers, SequencesExt

CONSTANTS MEMORY_PAGE_SIZE,   \* the memory of a process
          SIZE_ARG_BUFF,      \* the space for arguments at the top of it
          ARG_LIMIT,          \* 100: "the total length of the arguments"
          STRING_LIMIT        \* 11: the name and ten arguments

ASSUME ArgumentSizes ==
  /\ ARG_LIMIT \in Nat /\ STRING_LIMIT \in Nat \ {0}
  /\ SIZE_ARG_BUFF \in Nat /\ SIZE_ARG_BUFF >= ARG_LIMIT + 32
  /\ MEMORY_PAGE_SIZE \in Nat /\ MEMORY_PAGE_SIZE > SIZE_ARG_BUFF + 4 * (STRING_LIMIT + 2)

NUL     == -1
Garbage == -2     \* what nobody has written
Minus   == -3

-----------------------------------------------------------------------------
\* The digits of n, most significant first.
Digits[n \in Nat] == IF n < 10 THEN <<n>> ELSE Append(Digits[n \div 10], n % 10)

\* A negative number is written as a sign only.
ditoa(n) == IF n < 0 THEN <<Minus>> ELSE Digits[n]

\* The number written in the digits at the beginning of a string.
dstrtol(string) ==
  LET digits == SelectInSeq(string, LAMBDA c : c \notin 0 .. 9)
      upTo   == IF digits = 0 THEN Len(string) ELSE digits - 1
  IN  FoldLeft(LAMBDA v, c : 10 * v + c, 0, SubSeq(string, 1, upTo))

-----------------------------------------------------------------------------
\* The strings one after the other, each with its NUL.
Packed(strings) == FlattenSeq([i \in DOMAIN strings |-> Append(strings[i], NUL)])

\* allargs in the trap handler: the first ARG_LIMIT characters are cleared, no
\* more than STRING_LIMIT strings are taken, and they are cut off at its end.  (A
\* further string then writes one byte behind the buffer, and a name of 100
\* characters is cut off; both are left out.)
TrapProcessCreateHandler(strings) ==
  LET packed == Packed(SubSeq(strings, 1, Min({STRING_LIMIT, Len(strings)})))
  IN  [i \in 0 .. SIZE_ARG_BUFF - 1 |->
         IF i = SIZE_ARG_BUFF - 1 THEN NUL
         ELSE IF i < Len(packed) THEN packed[i + 1]
         ELSE IF i < ARG_LIMIT THEN NUL ELSE Garbage]

\* get_argument, called from place "location" of the buffer: 0 if there are no
\* more arguments, and the place where the next call begins.
NoMoreArguments(buf, location) == buf[location] = NUL \/ location >= ARG_LIMIT - 1

\* Mutant: the terminating NUL is not skipped.
NextArgumentAtNul(buf, location) ==
  LET nuls == {i \in location .. ARG_LIMIT - 1 : buf[i] = NUL}
  IN  IF nuls = {} THEN ARG_LIMIT ELSE Min(nuls)

NextArgument(buf, location) ==
  LET nuls == {i \in location .. ARG_LIMIT - 1 : buf[i] = NUL}
  IN  IF nuls = {} THEN ARG_LIMIT ELSE Min(nuls) + 1

\* The places of all arguments, as the loop in ProcessFork collects them.
Offsets(buf) ==
  LET from[location \in 0 .. ARG_LIMIT] ==
        IF NoMoreArguments(buf, location) THEN <<>>
        ELSE <<location>> \o from[NextArgument(buf, location)]
  IN  from[0]

-----------------------------------------------------------------------------
\* The memory of a process is a function from the addresses that were written.
Cell(memory, a) == IF a \in DOMAIN memory THEN memory[a] ELSE Garbage

\* Cells are written over what was there.
Written(memory, cells) ==
  [a \in DOMAIN cells \cup DOMAIN memory |-> IF a \in DOMAIN cells THEN cells[a] ELSE memory[a]]

npages == 1

\* Is a page translated?  The page behind the last one is, although it does not
\* belong to the process: its entry of the page table holds what an earlier process
\* left there.  (If that is 0, its first byte has the address 0, which is taken for a
\* failure.  That case writes less, and is left out.)
MemoryTranslateUserToSystem(page) == page <= npages

\* Mutant: bytesToCopy is not limited to the bytes that are left, so that the rest of
\* the last page is written too.
MemoryCopySystemToUserWholePages(memory, to, cells) ==
  LET behind == ((to + Len(cells) - 1) \div MEMORY_PAGE_SIZE + 1) * MEMORY_PAGE_SIZE
      translated == {a \in to .. behind - 1 :
                       \A page \in to \div MEMORY_PAGE_SIZE .. a \div MEMORY_PAGE_SIZE :
                         MemoryTranslateUserToSystem(page)}
  IN  Written(memory, [a \in translated |->
                         IF a - to < Len(cells) THEN cells[a - to + 1] ELSE Garbage])

\* cells are copied to address "to" and up, until a page is not translated.
MemoryCopySystemToUser(memory, to, cells) ==
  LET translated == {a \in to .. to + Len(cells) - 1 :
                       \A page \in to \div MEMORY_PAGE_SIZE .. a \div MEMORY_PAGE_SIZE :
                         MemoryTranslateUserToSystem(page)}
  IN  Written(memory, [a \in translated |-> cells[a - to + 1]])

ArgumentBase == MEMORY_PAGE_SIZE - SIZE_ARG_BUFF

\* The words ProcessFork pushes below the strings: argc, argv, argv[0], ...
\* A word stands in the first of its four bytes.
Words(offsets) ==
  LET argv == [i \in DOMAIN offsets |-> ArgumentBase + offsets[i]]
  IN  <<Len(offsets), ArgumentBase - 4 * Len(offsets)>> \o argv

\* The child's initial stack pointer (r29).
StackPointer(offsets) == ArgumentBase - 4 * (Len(offsets) + 2)

\* The strings go to the top of the child's memory, the words below them.
PushArguments(memory, buf) ==
  LET offsets == Offsets(buf)
      words   == Words(offsets)
      strings == [i \in 1 .. SIZE_ARG_BUFF - 32 |-> buf[i - 1]]
      places  == {StackPointer(offsets) + 4 * (i - 1) : i \in DOMAIN words}
  IN  Written(MemoryCopySystemToUser(memory, ArgumentBase, strings),
              [a \in places |-> words[(a - StackPointer(offsets)) \div 4 + 1]])

-----------------------------------------------------------------------------
\* What main(argc, argv) of the child reads, from the stack pointer up.
argc(memory, sp)    == Cell(memory, sp)
argv(memory, sp, i) == Cell(memory, Cell(memory, sp + 4) + 4 * i)

\* The string at p: up to the first NUL, or the end of the memory.
StringAt(memory, p) ==
  LET ends == {a \in p .. MEMORY_PAGE_SIZE : Cell(memory, a) = NUL \/ a = MEMORY_PAGE_SIZE}
  IN  IF ends = {} THEN <<>> ELSE [i \in 1 .. Min(ends) - p |-> Cell(memory, p + i - 1)]
=============================================================================
