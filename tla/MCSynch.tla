------------------------------ MODULE MCSynch ------------------------------
(***************************************************************************)
(* Synch for TLC: the constants a cfg cannot write.                        *)
(***************************************************************************)
EXTENDS Synch

\* The applications create semaphores with negative values and with 0 and more.
MCSemCounts == {-1, 1}
=============================================================================
