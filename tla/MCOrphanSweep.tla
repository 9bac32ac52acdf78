--------------------------- MODULE MCOrphanSweep ---------------------------
(* Small instances of the storage core and its orphan sweep for TLC. *)
EXTENDS OrphanSweep

CONSTANTS v1, w1, c1

Rec(run, start) ==
  [run |-> run, kind |-> "start", start |-> start, end |-> 0, val |-> v1]

\* Two batches, one segment each, in neighbouring time buckets: enough for a
\* compaction and its cleanup.
TwoRunBatches == {<<Rec(1, 1)>>, <<Rec(2, 2)>>}

\* The behaviours in which no sweep has met a task that was writing.
QuietSpec == SweepInit /\ [][SweepNext /\ ~raced']_allVars
=============================================================================
