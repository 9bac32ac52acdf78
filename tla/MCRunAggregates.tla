--------------------------- MODULE MCRunAggregates ---------------------------
(* A small instance of RunAggregates for TLC. *)
EXTENDS RunAggregates

MCProjects == <<"p1", "p2">>

Rec(run, id, project, start, type, error, model, latency, tokens, tags) ==
  [run |-> run, run_id |-> id, project |-> project, start |-> start, type |-> type, error |-> error,
   model |-> model, latency |-> latency, first_token |-> tokens, tokens |-> tokens,
   score |-> tokens, tags |-> tags]

\* Runs a and b are of one project and bucket, c has the id of a in the other project.
OldA == Rec("a", "x", "p1", 0, "llm", FALSE, None, 5, None, {})
NewA == Rec("a", "x", "p1", 0, "llm", TRUE, "m", 7, 3, {"t", "u"})
OldB == Rec("b", "y", "p1", 1, "tool", FALSE, "m", 5, 4, {"t"})
NewB == Rec("b", "y", "p1", 3, "tool", FALSE, "m", 9, 1, {})
OldC == Rec("c", "x", "p2", 2, "llm", TRUE, "m", 1, 2, {"u"})
MCRecords == {OldA, NewA, NewB, OldC}

\* Versions of a lie in two segments that both have heads.
MCWorlds == {<<<<OldA, OldB>>, <<NewA, OldC>>>>}

Fb(id, run_id, project, key, score, created) ==
  [id |-> id, run_id |-> run_id, project |-> project, key |-> key, score |-> score, created |-> created]
MCFeedback == {Fb(1, "x", "p1", "k", 4, 0), Fb(1, "x", "p2", "k", None, 2), Fb(2, "x", None, "k", -1, 0),
               Fb(2, "y", "p1", "k", 5, 3)}

All == [projects |-> {"p1", "p2"}, min |-> None, max |-> None, type |-> None, error |-> None,
        model |-> None, include_deleted |-> FALSE, group_by |-> <<"project", "time_bucket">>,
        size |-> 2, keys |-> {}, max_segments |-> None]
By(group) == [All EXCEPT !.group_by = <<group, "time_bucket", "project">>]
MCQueries ==
  {All, [All EXCEPT !.max = 1], [All EXCEPT !.max = 2, !.projects = {"p1"}], [All EXCEPT !.min = 2, !.max = 3],
   [By("error") EXCEPT !.type = "llm", !.error = TRUE], By("model"), By("feedback_key"),
   By("tag"), [All EXCEPT !.keys = {"k"}], [All EXCEPT !.size = 3, !.keys = {"k"}],
   [By("run_type") EXCEPT !.error = FALSE, !.include_deleted = TRUE],
   [All EXCEPT !.group_by = <<"feedback_key", "tag">>, !.model = "m"],
   [All EXCEPT !.model = "m", !.max_segments = 1], [All EXCEPT !.size = None]}

Left(changes, feedback_calls, queries) == [changes |-> changes, calls |-> feedback_calls, queries |-> queries]
MCBounds == {Left(2, 0, 1), Left(0, 3, 0), Left(1, 1, 1)}

\* Callers are only compared with each other.
CallerSymmetry == Permutations(Callers)
=============================================================================
