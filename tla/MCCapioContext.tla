--------------------------- MODULE MCCapioContext ---------------------------
(***************************************************************************)
(* Instances of CapioContext for TLC: one thread with all seven entry      *)
(* points, or two threads with two of them.                                *)
(***************************************************************************)
EXTENDS CapioContext

CONSTANTS main, worker, d1, d2

OnlyMain == {main}
TwoThreads == {main, worker}
Nobody == {}
OneDir == {d1}
TwoDirs == {d1, d2}

(* The user did not set CAPIO_DIR, or set it to the one directory.          *)
Absent == {NoDir}
AbsentOrSame == {NoDir, d1}
=============================================================================
