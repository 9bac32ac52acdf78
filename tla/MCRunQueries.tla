---------------------------- MODULE MCRunQueries ----------------------------
(* Small instances of RunQueries for TLC. *)
EXTENDS RunQueries

Rec(run, start, kind, parent, word) ==
  [run |-> run, start |-> start, kind |-> kind, parent |-> parent, word |-> word]

\* Runs 1 and 2 start together, run 3 later; run 3 names a parent that is never there.
Old1 == Rec(1, 1, "llm", None, "a")
New1 == Rec(1, 1, "tool", None, "b")
Old2 == Rec(2, 1, "llm", 1, "a")
Old3 == Rec(3, 2, "llm", 4, "b")
MCRecords == {Old1, New1, Old2, Old3}

\* One run to a segment; or an old version beside newer rows.
MCWorlds == {<<<<Old3>>, <<Old1>>, <<Old2>>>>, <<<<Old1, Old2>>, <<Old3, New1>>>>}

All == [kind |-> None, since |-> None, root |-> None, word |-> None, cutoff |-> None,
        limit |-> None, offset |-> 0, include_deleted |-> FALSE, newest_first |-> FALSE,
        max_runs |-> None, max_segments |-> None]

MCQueries == {All, [All EXCEPT !.limit = 0], [All EXCEPT !.limit = 1], [All EXCEPT !.limit = 1, !.offset = 1],
              [All EXCEPT !.limit = 2, !.kind = "llm", !.newest_first = TRUE],
              [All EXCEPT !.word = "a", !.limit = 2], [All EXCEPT !.since = 2, !.max_segments = 1],
              [All EXCEPT !.include_deleted = TRUE, !.limit = 2, !.offset = 1],
              [All EXCEPT !.cutoff = 2, !.limit = 1], [All EXCEPT !.root = TRUE, !.limit = 1]}

Conf(workers, per_partition, in_flight, max_queued, max_per_worker) ==
  [workers |-> workers, per_partition |-> per_partition, in_flight |-> in_flight,
   max_queued |-> max_queued, max_per_worker |-> max_per_worker]
MCConfigs == {Conf(2, 1, 2, None, None), Conf(1, 2, 3, 1, 2)}
=============================================================================
