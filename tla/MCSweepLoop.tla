---------------------------- MODULE MCSweepLoop -----------------------------
(***************************************************************************)
(* SweepLoop.tla for TLC: every placement of three tasks on three levels.  *)
(***************************************************************************)
EXTENDS SweepLoop

\* With three levels: down by one level, unchanged, up by one, up by more
\* than there are levels.
MCSleepValues == {-4, 0, 9}
=============================================================================
