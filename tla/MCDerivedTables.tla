-------------------------- MODULE MCDerivedTables --------------------------
(* Small instances of DerivedTables for TLC. *)
EXTENDS DerivedTables, TLC

CONSTANTS w1, w2, g1, g2

MCSpans == 1..4
MCTraceOf == <<1, 1, 1, 2>>

\* Runs 1 and 2 start in the order of their ids, run 3 before both.
Rec(span, parent, thread, group, at) ==
  [op |-> "write", span |-> span, parent |-> parent, thread |-> thread, group |-> group,
   start |-> IF span = 3 THEN 1 ELSE 2, at |-> at]
Del(span) == [op |-> "delete", span |-> span, at |-> 3]

\* Any shape of trace 1, with parents that are missing (9), late or in a circle.
TreeJobs == {<<Rec(s, p, None, g1, 1)>> : s \in 1..3, p \in {1, 2, 3, 9, None}}

\* Runs that come to, leave and change threads; one version comes too late, and
\* one is newer than the deletion of its run.
ThreadJobs == {<<Rec(1, None, 1, g1, 1)>>, <<Rec(1, None, 2, g2, 4)>>,
               <<Rec(2, 1, 1, g1, 1), Rec(4, None, 1, g2, 1)>>,
               <<Rec(4, None, None, g2, 0)>>, <<Rec(4, None, 2, g1, 2)>>}

\* One run deleted, and the runs that retention selected.
DeleteJobs == {<<Del(1)>>, <<Del(1), Del(2), Del(4)>>}

\* Transactions that overlap: a root and its child, another trace of the thread.
OverlapJobs == {<<Rec(1, None, 1, g1, 1)>>, <<Rec(2, 1, None, g1, 1)>>,
                <<Rec(4, None, 1, g2, 1), Rec(2, None, 1, g2, 2)>>, <<Del(1), Del(4)>>}

MCJobs == {w1} :> (TreeJobs \cup ThreadJobs \cup DeleteJobs) @@ {w1, w2} :> OverlapJobs
=============================================================================
