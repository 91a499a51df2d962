---------------------------- MODULE SpawnExample ----------------------------
(***************************************************************************)
(* src/apps/example: makeprocs creates its processes, and each of them     *)
(* only prints and signals that it is done.                                *)
(***************************************************************************)
EXTENDS AppProcess

Init == InitApp(<<>>, {}, "complete")

Worker(p) == SignalCompletion(p, "complete")

Next == MainStep \/ \E p \in Workers : Worker(p)
=============================================================================
