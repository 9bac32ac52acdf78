---------------------------- MODULE MCTraceStore ----------------------------
(* Small instances of TraceStore for TLC. *)
EXTENDS TraceStore, TLC

CONSTANTS v1, v2, w1, w2, c1, c2

Rec(run, kind, start, end, val) ==
  [run |-> run, kind |-> kind, start |-> start, end |-> end, val |-> val]

MCRuns == {1, 2}
MCVals == {v1, v2}

\* Run 1 starts and ends; run 2 starts in the next time bucket.
Start1 == Rec(1, "start", 1, 0, v1)
End1 == Rec(1, "end", 1, 2, v2)
Start2 == Rec(2, "start", 2, 0, v1)

\* Two versions of a run, the older one late, in one batch or cut in two by a
\* retry; and two runs.
RetriedBatches == {<<End1, Start1>>, <<End1>>}
TwoRunBatches == {<<Start1>>, <<Start2>>}

Tasks == Permutations({w1, w2}) \cup Permutations({c1, c2})
=============================================================================
