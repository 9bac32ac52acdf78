--------------------------- MODULE MCRunFilters ----------------------------
(***************************************************************************)
(* FilterMeaning on three segments and the filters that combine two atoms   *)
(* of every kind.                                                          *)
(***************************************************************************)
EXTENDS FilterMeaning

CONSTANTS r1, r2, r3, g1, g2, g3

\* Characters 10 and 11 make the words; 12 is a stop word; xyx is cut to xy.
x == <<10>>
y == <<11>>
xy == <<10, 11>>
xyx == <<10, 11, 10>>
the == <<12>>

MCStopWords == {the}

MCNamePath == <<22>>
MCRunTypePath == <<23>>
MCStatusPath == <<24>>
MCInputsPath == <<20>>
MCLsInputsPath == <<21, Dot, 20>>
MCErrorText == <<<<30>>>>

ok == <<<<31>>>>

Scalar(text) == [is |-> "scalar", text |-> text]
Null == [is |-> "null"]
Invalid == [is |-> "invalid"]
Array(kids) == [is |-> "array", kids |-> kids]
Object(kids) == [is |-> "object", kids |-> kids]
Pair(key, json) == [key |-> key, json |-> json]
Inputs(json) == Object(<<Pair(<<20>>, json)>>)
LsInputs(json) == Object(<<Pair(<<21>>, Inputs(json))>>)

ARun(id, generated, name, status, json) ==
    [run_id |-> id, generated_run_id |-> generated, name |-> name, run_type |-> <<y>>,
     status |-> status, model |-> None, latency |-> Number(2), start_time |-> Number(2),
     total_tokens |-> None, total_cost |-> Number(3), is_root |-> True,
     tags |-> {}, metadata |-> {}, feedback |-> {}, attributes |-> json]

Meta(k, v) == [key |-> k, value |-> v]
Feedback(to, k, score) == [to |-> to, key |-> k, score |-> score]

\* Phrases within and across leaves, one token at the same path of several leaves,
\* a field of the run and an attribute of the same path.
Mixed ==
    <<[ARun(r1, g1, <<x, y>>, ok,
            Object(<<Pair(<<20>>, Object(<<Pair(<<40>>, Scalar(<<x, y>>)),
                                           Pair(<<41>>, Array(<<Scalar(<<x>>), Scalar(<<y>>)>>))>>)),
                     Pair(<<22>>, Scalar(<<xy>>))>>))
        EXCEPT !.tags = {<<x>>}, !.total_tokens = Number(2), !.metadata = {Meta(<<x>>, <<x>>), Meta(<<y>>, <<y>>)},
               !.feedback = {Feedback(r1, <<x>>, Number(1)), Feedback(g1, <<y>>, Number(2))}],
      [ARun(None, g2, <<y>>, MCErrorText, LsInputs(Scalar(<<y, x>>)))
        EXCEPT !.model = <<x>>, !.latency = Number(4), !.metadata = {Meta(<<x>>, <<y>>)},
               !.feedback = {Feedback(r1, <<x>>, Number(2))}],
      [ARun(r3, g3, <<xyx, the>>, ok, Invalid)
        EXCEPT !.tags = {<<x>>, <<y>>}, !.is_root = False, !.total_tokens = Number(0), !.metadata = {Meta(<<y>>, <<x>>)},
               !.feedback = {Feedback(g3, <<y>>, None)}]>>

\* More positions and rows than a block holds.
Long ==
    <<ARun(r1, g1, <<x>>, ok, Inputs(Scalar(<<x, x, x, y, x>>))),
      ARun(r2, g2, <<x>>, ok, Inputs(Array(<<Scalar(<<y, x, x>>), Scalar(<<x, y>>)>>))),
      ARun(r3, g3, <<x>>, ok, Inputs(Scalar(<<x, y, x, y, x, y>>)))>>

\* More leaves than are indexed, and a longer value; null and empty leaves.
Wide ==
    <<ARun(r1, g1, <<>>, ok,
           Object(<<Pair(<<40>>, Scalar(<<x>>)), Pair(<<41>>, Null), Pair(<<42>>, Object(<<>>)),
                    Pair(<<20>>, Scalar(<<y>>)), Pair(<<43>>, Scalar(<<xy>>))>>)),
      ARun(None, g2, <<the>>, MCErrorText, Object(<<Pair(<<20, Dot, 40>>, Array(<<Null, Inputs(Null)>>))>>))>>

MCSegments == {Mixed, Long, Wide}

Compare(op, field, type, value) ==
    [is |-> "compare", op |-> op, field |-> field, type |-> type, value |-> value]
Has(field, value) == [is |-> "has", field |-> field, value |-> value]
In(field, values) == [is |-> "in", field |-> field, values |-> values]
Includes(field, value, negated) ==
    [is |-> "contains", field |-> field, value |-> value, negated |-> negated]
Search(field, words, phrases) ==
    [is |-> "search", field |-> field, query |-> [words |-> words, phrases |-> phrases]]
JsonKey(field, pattern) == [is |-> "json_key", field |-> field, pattern |-> pattern]
JsonKeySearch(field, path, words) ==
    [is |-> "json_key_search", field |-> field, path |-> path, query |-> [words |-> words, phrases |-> {}]]

PairAtoms ==
    {Compare(op, "metadata_key", "text", <<x>>) : op \in {"eq", "neq"}}
    \cup {Compare(op, "metadata_value", "text", <<y>>) : op \in {"eq", "neq", "lt"}}
    \cup {Compare("eq", "feedback_key", "text", <<x>>)}
    \cup {Compare(op, "feedback_score", "number", Number(2)) : op \in {"neq", "gte"}}
    \cup {Compare("lt", "feedback_score", "text", <<y>>)}
    \cup {In("metadata_key", <<<<y>>>>), Includes("metadata_value", <<x>>, TRUE)}

ColumnAtoms ==
    {Compare("neq", "name", "text", <<y>>), Compare("gt", "latency", "number", Number(2)),
     Compare("gt", "latency", "text", <<x>>), Compare("lt", "latency", "numeral", Number(3)),
     Compare("gte", "total_tokens", "number", Number(3)), Compare("neq", "total_tokens", "number", Number(2)),
     Compare("gt", "total_tokens", "number", Number(-1)), Compare("lte", "total_tokens", "numeral", Number(3)),
     Compare("eq", "start_time", "time", Number(2)), Compare("eq", "start_time", "numeral", Number(2)),
     Compare("gte", "total_cost", "numeral", Number(3)), Compare("neq", "is_root", "text", False),
     Compare("neq", "model", "text", <<y>>),
     Compare("eq", "is_root", "bool", True), Compare("neq", "error", "bool", True),
     Compare("neq", "id", "text", r1), In("id", <<r1, g2>>),
     Compare("neq", "tags", "text", <<y>>), In("tags", <<<<y>>>>), In("name", <<>>),
     Includes("name", <<y>>, FALSE), Has("metadata_key", <<x>>)}

SearchAtoms ==
    {Search(None, <<x>>, {}), Search(None, <<>>, {<<x, y>>}), Search("inputs", <<x>>, {<<x, y, x>>}),
     Search("inputs", <<>>, {<<x, x, x>>}),
     Search("name", <<>>, {<<y, xy>>}), Search("model", <<x>>, {}), Search(None, <<the>>, {}),
     JsonKey(None, <<20, Star>>), JsonKey(None, <<Star, 40>>), JsonKey("inputs", <<40>>),
     JsonKeySearch("inputs", <<>>, <<y>>), JsonKeySearch(None, <<20, Dot, 41>>, <<x, y>>),
     Compare("eq", "inputs", "text", <<x, y>>), Compare("neq", "inputs", "text", <<y>>),
     Compare("gt", "inputs", "text", <<y>>), Has("inputs", <<Star, 20>>),
     In("attributes_json", <<<<y>>, <<xy>>>>), Includes("inputs", <<xyx>>, TRUE)}

MCFilters ==
    LET atoms == PairAtoms \cup ColumnAtoms \cup SearchAtoms
        some  == {Search(None, <<x>>, {}), Compare("eq", "metadata_key", "text", <<x>>),
                  Compare("neq", "metadata_value", "text", <<y>>)}
    IN  {And(<<a>>) : a \in atoms} \cup {Or(<<>>)}
        \cup {And(<<a, b>>) : a \in PairAtoms, b \in PairAtoms}
        \cup {And(<<a, b>>) : a \in SearchAtoms, b \in SearchAtoms \cup ColumnAtoms \cup some}
        \cup {Or(<<a, b>>) : a \in SearchAtoms, b \in SearchAtoms \cup some}
        \cup {And(<<a, Or(<<b, c>>)>>) : a \in some, b \in some, c \in some}
        \cup {And(<<a, And(<<b, c>>)>>) : a \in some, b \in some, c \in some}
        \cup {And(<<a, Or(<<b, And(<<c, Or(<<c>>)>>)>>)>>) : a \in some, b \in some, c \in some}
============================================================================
