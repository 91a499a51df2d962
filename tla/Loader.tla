------------------------------- MODULE Loader -------------------------------
(***************************************************************************)
(* Loading a program (src/os/process.c): the part of ProcessFork between   *)
(* taking its PCB and pages and putting it on the run queue, whose success *)
(* is the parameter "loads" of ProcessFork in ProcessTable; and what       *)
(* main() does to the table of open files before the first fork.           *)
(*                                                                         *)
(* Handlers do not overlap, so one load is in progress at a time.  It is   *)
(* taken apart into the calls of ProcessGetFromFile.                       *)
(***************************************************************************)
EXTENDS Files, Arguments

CONSTANTS READ_LIMIT,    \* how many characters ProcessGetFromFile reads at once
          Programs,      \* the files a process may be created from
          ArgumentLists  \* the numbers that may be passed to it

\* A file is missing, too short to have a header, without a start line, in the
\* DLX file system, or a program.  A line of a program has an address or follows
\* the one before it, and has len bytes.
Kinds      == {"missing", "short", "noStart", "dlx", "program"}
NoAddress  == -1
HasAddress(line) == line.addr # NoAddress

\* "00000100:" or ":", two digits a byte, and the newline.
Characters(line) == (IF HasAddress(line) THEN 9 ELSE 1) + 2 * line.len + 1

Lines      == [addr : Nat \cup {NoAddress}, len : Nat \ {0}]

ASSUME ProgramsAssumption ==
  \A file \in Programs : /\ file.kind \in Kinds
                         /\ file.name \in Seq(Nat) \ {<<>>} /\ file.lines \in Seq(Lines)
                         /\ \A i \in DOMAIN file.lines :
                              Characters(file.lines[i]) <= READ_LIMIT
ASSUME ReadAssumption == READ_LIMIT \in Nat
\* Above, the power of ten in ditoa overflows (misc.c:165).
ASSUME NumbersAssumption == ArgumentLists \subseteq Seq({n \in Int : n < 1000000000})

VARIABLES openfiles,   \* the table of open files
          options,     \* the files named by the "-f" options main() has yet to dump
          booted,      \* has main() come to its first fork?
          load,        \* the last load
          lost         \* the slots nobody will close any more (history variable)

vars == <<openfiles, options, booted, load, lost>>

NoLoad == [phase |-> "none"]

Init ==
  /\ openfiles = FsModuleInit
  /\ options \in UNION {[1 .. n -> Programs] : n \in 0 .. 2}
  /\ booted = FALSE
  /\ load = NoLoad
  /\ lost = {}

-----------------------------------------------------------------------------
\* Mutant: a file that is too short is not closed.
ProcessGetCodeInfoKeepsShort(files, file) ==
  LET fd     == OpenedAt(files, file)
      opened == FsOpen(files, file)
  IN  IF FdValid(opened, fd) /\ file.kind = "program"
      THEN [fd |-> fd, openfiles |-> opened] ELSE [fd |-> -1, openfiles |-> opened]

\* Opens the file and reads its header: the descriptor, or -1, and the table.
\* A file without a start line is not closed.
ProcessGetCodeInfo(files, file) ==
  LET fd     == OpenedAt(files, file)
      opened == FsOpen(files, file)
  IN  IF fd < 0 \/ (FdValid(opened, fd) /\ file.kind = "noStart")
      THEN [fd |-> -1, openfiles |-> opened]
      ELSE IF FdValid(opened, fd) /\ file.kind = "program"
      THEN [fd |-> fd, openfiles |-> opened]
      ELSE [fd |-> -1, openfiles |-> FsClose(opened, fd)]

\* The option "-f": the file is listed, and close(fd) in place of FsClose(fd)
\* leaves its slot taken.  (What close does in the simulator is left out.)
DumpFile ==
  /\ ~booted /\ options # <<>>
  /\ options' = Tail(options)
  /\ openfiles' = ProcessGetCodeInfo(openfiles, Head(options)).openfiles
  /\ lost' = {x \in Slots : openfiles'[x] # "free"}
  /\ UNCHANGED <<booted, load>>

\* The file "vm" is opened, written and closed.  In slot 0 it is neither.
OpenVm(exists) ==
  LET vm == [kind |-> IF exists THEN "unix" ELSE "missing"]
      fd == OpenedAt(openfiles, vm)
  IN  /\ ~booted /\ options = <<>>
      /\ booted' = TRUE
      /\ openfiles' = FsClose(FsOpen(openfiles, vm), fd)
      /\ lost' = IF fd = 0 THEN lost \cup {0} ELSE lost
      /\ UNCHANGED <<options, load>>

-----------------------------------------------------------------------------
\* Mutant: data at a new address is put behind the data before it.
LinesTakenIgnoresAddress(lines, at) ==
  Max({k \in at .. Len(lines) :
         MapThenSumSet(LAMBDA i : Characters(lines[i]), at + 1 .. k) <= READ_LIMIT})

\* ProcessGetFromFile takes the lines that fit in what it reads, up to the next
\* one with an address of its own.
LinesTaken(lines, at) ==
  Max({k \in at .. Len(lines) :
         /\ MapThenSumSet(LAMBDA i : Characters(lines[i]), at + 1 .. k) <= READ_LIMIT
         /\ \A i \in at + 2 .. k : ~HasAddress(lines[i])})

\* Every byte of a file has a name of its own.
Byte(i, k)  == 1000 * i + k
Bytes(lines, from, upTo) ==
  FlattenSeq([j \in 1 .. upTo - from |-> [k \in 1 .. lines[from + j].len |-> Byte(from + j, k)]])

\* The name and the numbers, as their creator passes them.
Strings(file, args) == <<file.name>> \o [i \in DOMAIN args |-> ditoa(args[i])]

-----------------------------------------------------------------------------
\* A fork of file with the numbers of args begins, unless it fails.
BeginLoad(file, args) ==
  LET info == ProcessGetCodeInfo(openfiles, file)
      slot == OpenedAt(openfiles, file)
  IN  /\ booted /\ load.phase # "reading"
      /\ openfiles' = info.openfiles
      /\ load' = IF info.fd < 0 THEN NoLoad
                 ELSE [phase |-> "reading", file |-> file, args |-> args, fd |-> info.fd,
                       allargs |-> TrapProcessCreateHandler(Strings(file, args)),
                       seek |-> 0, addr |-> 0, sp |-> 0, memory |-> <<>>]
      /\ lost' = IF slot = 0 \/ (slot > 0 /\ file.kind = "noStart")
                 THEN lost \cup {slot} ELSE lost
      /\ UNCHANGED <<options, booted>>

\* What the next call of ProcessGetFromFile reads.
UpTo == LinesTaken(load.file.lines, load.seek)
Data == Bytes(load.file.lines, load.seek, UpTo)

\* A call that returns data, and the copying of it.
ReadPart ==
  LET first == load.file.lines[load.seek + 1]
      addr  == IF HasAddress(first) THEN first.addr ELSE load.addr
  IN  /\ load.phase = "reading" /\ Data # <<>>
      /\ load' = [load EXCEPT !.seek   = UpTo,
                              !.addr   = addr + Len(Data),
                              !.memory = MemoryCopySystemToUser(@, addr, Data)]
      /\ UNCHANGED <<openfiles, options, booted, lost>>

\* A call that returns none: the file is closed, the arguments are pushed, and
\* the new process is ready to run.
FinishLoad ==
  /\ load.phase = "reading" /\ Data = <<>>
  /\ openfiles' = FsClose(openfiles, load.fd)
  /\ load' = [load EXCEPT !.phase  = "started",
                          !.sp     = StackPointer(Offsets(load.allargs)),
                          !.memory = PushArguments(@, load.allargs)]
  /\ UNCHANGED <<options, booted, lost>>

Next ==
  \/ DumpFile
  \/ \E exists \in BOOLEAN : OpenVm(exists)
  \/ \E file \in Programs, args \in ArgumentLists : BeginLoad(file, args)
  \/ ReadPart
  \/ FinishLoad

Spec == Init /\ [][Next]_vars

-----------------------------------------------------------------------------
\* A slot is taken for the load in progress, or because it was lost: to the boot
\* (slot 0 and the "-f" files) or to a file without a start line.  No other
\* outcome of a load, at whatever point it fails, keeps a descriptor.
DescriptorsAccounted ==
  {x \in Slots : openfiles[x] # "free"}
    = lost \cup (IF load.phase = "reading" THEN {load.fd} ELSE {})

\* Between two forks no file is open: the descriptor that ProcessGetCodeInfo
\* returns "MUST be closed (presumably by the caller) at some point"
\* (process.c:599-600).  Descriptor 0, which cannot be closed, is left out.
DescriptorsReturned ==
  booted /\ load.phase # "reading" => \A x \in Slots \ {0} : openfiles[x] = "free"

\* Where byte 1 of each line belongs: at the address of the line, or behind the
\* line before it.
Address(lines) ==
  LET of[i \in DOMAIN lines] ==
        IF HasAddress(lines[i]) THEN lines[i].addr
        ELSE IF i = 1 THEN 0 ELSE of[i - 1] + lines[i - 1].len
  IN  of

Covers(lines, i, a) == Address(lines)[i] <= a /\ a < Address(lines)[i] + lines[i].len

\* However the reads cut the file up, a process starts with each byte of its
\* program at the address the file gives it, up to where its arguments begin,
\* unless a later line has the same address.
ProgramLoaded ==
  load.phase = "started" =>
    LET lines == load.file.lines
    IN  \A i \in DOMAIN lines : \A k \in 1 .. lines[i].len :
          LET a == Address(lines)[i] + k - 1
          IN  a < load.sp /\ (\A j \in i + 1 .. Len(lines) : ~Covers(lines, j, a)) =>
                Cell(load.memory, a) = Byte(i, k)

\* However the reads cut the file up, a load writes nothing but the lines of the
\* file it has read, each where the file puts it, and the arguments between the
\* stack pointer and the end of the page.  Nothing else keeps it off the page of
\* somebody else that its page table may name next (memory.c:169): a program whose
\* lines fit in its page writes nothing outside.
WritesAccounted ==
  load.phase \in {"reading", "started"} =>
    \A a \in DOMAIN load.memory :
      \/ \E i \in 1 .. load.seek : Covers(load.file.lines, i, a)
      \/ load.phase = "started" /\ load.sp <= a /\ a < MEMORY_PAGE_SIZE

\* What comes out of the two conversions, the packing, the cutting up and the
\* copying between them is what went in, within the documented limits: "Maximum
\* 10 command-line arguments", "total length ... less than or equal to 100".
ArgumentsArrive ==
  LET strings == Strings(load.file, load.args)
  IN  load.phase = "started" /\ Len(strings) <= STRING_LIMIT
                             /\ Len(Packed(strings)) <= ARG_LIMIT =>
        /\ argc(load.memory, load.sp) = Len(strings)
        /\ StringAt(load.memory, argv(load.memory, load.sp, 0)) = load.file.name
        /\ \A i \in DOMAIN load.args :
             load.args[i] >= 0 =>
               dstrtol(StringAt(load.memory, argv(load.memory, load.sp, i))) = load.args[i]
=============================================================================
