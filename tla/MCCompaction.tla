---------------------------- MODULE MCCompaction ----------------------------
(* Instances of Compaction for TLC. *)
EXTENDS Compaction

CONSTANTS p1

\* The driver has ended; pane output that lags, and a note, are still to come.
LateClass == p1 :> <<"pane", "end", "pane", "note">>
LateWritten == p1 :> 2
=============================================================================
