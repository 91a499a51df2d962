------------------------------- MODULE Files -------------------------------
(***************************************************************************)
(* The table of open files (src/os/filesys.c).  The operations are         *)
(* operators on the table; what the simulator's files contain is a         *)
(* parameter of the machine that uses them.                                *)
(***************************************************************************)
EXTENDS Integers, FiniteSetsExt

CONSTANT FS_MAX_OPEN_FILES

ASSUME FilesAssumption == FS_MAX_OPEN_FILES \in Nat \ {0}

Slots == 0 .. (FS_MAX_OPEN_FILES - 1)

\* flags and fs of an entry: free, or open in the simulator's file system or in
\* the one of DLX, where every file exists and a transfer always returns 1.
Entries == {"free", "unix", "dlx"}

FsModuleInit == [x \in Slots |-> "free"]

\* Descriptor 0 is not valid, although FsOpen may return it.
FdValid(openfiles, fd) == fd > 0 /\ fd \in Slots /\ openfiles[fd] # "free"

\* The first free slot, if the table is not full and the file can be opened.
OpenedAt(openfiles, file) ==
  LET free == {x \in Slots : openfiles[x] = "free"}
  IN  IF free = {} \/ file.kind = "missing" THEN -1 ELSE Min(free)

FsOpen(openfiles, file) ==
  LET fd == OpenedAt(openfiles, file)
  IN  IF fd < 0 THEN openfiles
      ELSE [openfiles EXCEPT ![fd] = IF file.kind = "dlx" THEN "dlx" ELSE "unix"]

FsClose(openfiles, fd) ==
  IF FdValid(openfiles, fd) THEN [openfiles EXCEPT ![fd] = "free"] ELSE openfiles
=============================================================================
