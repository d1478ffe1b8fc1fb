--------------------------- MODULE MCSyncPipeline ---------------------------
(* Model values for SyncPipeline: log files that share bucket keys. *)
EXTENDS SyncPipeline, TLC

CONSTANTS f1, f2, k1, k2, p1, p2

\* The files share their buckets: first events in k1, second ones in k2.
BySlot == [e \in Event |-> IF e[2] = 2 THEN k2 ELSE k1]
Symmetry == Permutations(File)
=============================================================================
