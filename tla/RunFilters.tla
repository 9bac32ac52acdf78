---------------------------- MODULE RunFilters -----------------------------
(***************************************************************************)
(* The filter language (src/query/filter.rs, filter/phase6.rs) and how a   *)
(* query applies a filter.  The scalar part is compiled to SQL over        *)
(* run_heads and its index tables, in SQL's three-valued logic; the search *)
(* part becomes a SearchPredicate that the search index of the segment     *)
(* answers.  A run is in the answer if it passes both.                     *)
(***************************************************************************)
EXTENDS SearchIndex

CONSTANTS
    NamePath, RunTypePath, StatusPath,  \* paths of a run's own fields in the index
    InputsPath, LsInputsPath,           \* "inputs" and "langsmith.inputs"
    ErrorText,                          \* the status of a run that failed
    MaxFilterDepth,                     \* MAX_FILTER_DEPTH
    MaxFilterNodes,                     \* MAX_FILTER_NODES
    Segments,                           \* the segments considered: sequences of runs
    Filters                             \* the filters considered

VARIABLES
    runs,       \* rows of run_heads, one per record of the segment, and their index tables
    filter,     \* the query's FilterExpr
    kept,       \* rows that pass the scalar part
    answer      \* rows of the answer

filterVars == <<runs, filter, kept, answer>>

allVars == <<searchVars, filterVars>>

----------------------------------------------------------------------------
\* Fields.

TextColumns == {"name", "status", "model"}
NumberColumns == {"latency", "start_time", "total_tokens", "total_cost"}
PayloadFields == {"inputs", "attributes_json"}
MetadataFields == {"metadata_key", "metadata_value"}
FeedbackFields == {"feedback_key", "feedback_score"}

\* A value is a text; a number and a Boolean are texts of one character.  Numbers are
\* counted in halves (of a token, of a nanosecond, ...): an odd one has a fraction.
Number(n) == <<<<n>>>>
True == Number(1)
False == Number(0)

And(kids) == [is |-> "and", kids |-> kids]
Or(kids) == [is |-> "or", kids |-> kids]

HasKids(e) == e.is \in {"and", "or"}

RECURSIVE Depth(_)
Depth(e) == IF HasKids(e) /\ e.kids # <<>>
            THEN 1 + Max({Depth(kid) : kid \in ToSet(e.kids)}) ELSE 0

RECURSIVE Nodes(_)
Nodes(e) == IF HasKids(e) THEN 1 + SumSeq([i \in DOMAIN e.kids |-> Nodes(e.kids[i])]) ELSE 1

\* parse_expr refuses what is nested too deeply or too large.
Parses(e) == Depth(e) <= MaxFilterDepth /\ Nodes(e) <= MaxFilterNodes

\* is_phase6_atom, contains_phase6_atom, contains_scalar_atom.
IsSearchAtom(e) ==
    \/ e.is \in {"search", "json_key", "json_key_search"}
    \/ e.is \in {"compare", "has", "in", "contains"} /\ e.field \in PayloadFields

RECURSIVE ContainsSearch(_)
ContainsSearch(e) ==
    IF HasKids(e) THEN \E kid \in ToSet(e.kids) : ContainsSearch(kid) ELSE IsSearchAtom(e)

RECURSIVE ContainsScalar(_)
ContainsScalar(e) ==
    IF HasKids(e) THEN \E kid \in ToSet(e.kids) : ContainsScalar(kid) ELSE ~IsSearchAtom(e)

----------------------------------------------------------------------------
\* Compiling the scalar part (filter.rs).  The SQL is a tree; Refused is an error.

Refused == [sql |-> "refused"]

\* A number cut to a whole one, toward zero: `as i64`.
Truncated(value) ==
    LET n == value[1][1]
    IN  Number(IF n >= 0 THEN n - (n % 2) ELSE n + (n % 2))

IsWhole(value) == Truncated(value) = value

\* What a filter's value is converted to for a column; None is an error.  The string
\* of a "numeral" spells a number, that of a "time" is RFC 3339.
AsI64(e) ==
    CASE e.type = "number" -> Truncated(e.value)
      [] e.type = "numeral" /\ IsWhole(e.value) -> e.value
      [] OTHER -> None

AsF64(e) == IF e.type \in {"number", "numeral"} THEN e.value ELSE None

\* Seconds become nanoseconds, and their fractions are cut.
AsDurationNanos(e) == IF AsF64(e) = None THEN None ELSE Truncated(e.value)

AsTimeNanos(e) ==
    CASE e.type = "time" -> e.value
      [] e.type = "number" -> Truncated(e.value)
      [] OTHER -> None

\* The strings "true" and "false" are accepted.
AsBool(e) == IF e.type = "bool" \/ (e.type = "text" /\ e.value \in {True, False}) THEN e.value ELSE None

Converted(e) ==
    CASE e.field = "latency" -> AsDurationNanos(e)
      [] e.field = "start_time" -> AsTimeNanos(e)
      [] e.field = "total_tokens" -> AsI64(e)
      [] e.field \in {"total_cost", "feedback_score"} -> AsF64(e)
      [] e.field \in {"is_root", "error"} -> AsBool(e)
      [] OTHER -> e.value

SqlNot(s) == IF s = Refused THEN Refused ELSE [sql |-> "not", kid |-> s]

SqlAll(sql, kids) == IF Refused \in ToSet(kids) THEN Refused ELSE [sql |-> sql, kids |-> kids]

Column(op, column, value) == [sql |-> "column", op |-> op, column |-> column, value |-> value]

OneOf(column, values) == [sql |-> "in", column |-> column, values |-> values]

Like(column, value) == [sql |-> "like", column |-> column, value |-> value]

\* A row of an index table (run_tags, run_metadata, feedback) meets all conditions.
Exists(table, conditions) ==
    IF Refused \in ToSet(conditions) THEN Refused
    ELSE [sql |-> "exists", table |-> table, conditions |-> conditions]

\* The column compared with the converted value.
Comparison(op, column, e) ==
    IF Converted(e) = None THEN Refused ELSE Column(op, column, Converted(e))

IsId(id) == [sql |-> "id", id |-> id]

RowColumn(field) ==
    CASE field = "metadata_key" -> "key"
      [] field = "metadata_value" -> "value"
      [] field = "feedback_key" -> "key"
      [] field = "feedback_score" -> "score"

TableOf(field) == IF field \in MetadataFields THEN "metadata" ELSE "feedback"

\* compile_metadata_atom, compile_feedback_atom: no row is equal, or some row compares.
CompileRowAtom(e) ==
    LET Some(op) == Exists(TableOf(e.field), <<Comparison(op, RowColumn(e.field), e)>>)
    IN  IF e.op = "neq" THEN SqlNot(Some("eq")) ELSE Some(e.op)

\* compile_compare: the operators and values that a field takes.
CompileCompare(e) ==
    LET equality == e.op \in {"eq", "neq"}
        Negated(s) == IF e.op = "neq" THEN SqlNot(s) ELSE s
    IN  CASE e.field \in TextColumns \cup NumberColumns -> Comparison(e.op, e.field, e)
          [] e.field = "is_root" -> IF equality THEN Comparison(e.op, "is_root", e) ELSE Refused
          [] e.field = "error" ->
               IF equality /\ Converted(e) # None
               THEN Column(IF (e.op = "eq") = (e.value = True) THEN "eq" ELSE "neq", "status", ErrorText)
               ELSE Refused
          [] e.field = "tags" ->
               IF equality THEN Negated(Exists("tags", <<Column("eq", "tag", e.value)>>)) ELSE Refused
          [] e.field = "id" -> IF equality THEN Negated(IsId(e.value)) ELSE Refused
          [] e.field \in MetadataFields \cup FeedbackFields -> CompileRowAtom(e)
          [] e.field \in PayloadFields -> Refused

CompileHas(e) ==
    CASE e.field = "tags" -> Exists("tags", <<Column("eq", "tag", e.value)>>)
      [] e.field = "metadata_key" -> Exists("metadata", <<Column("eq", "key", e.value)>>)
      [] OTHER -> Refused

CompileIn(e) ==
    IF e.values = <<>> THEN Refused
    ELSE CASE e.field = "tags" -> Exists("tags", <<OneOf("tag", e.values)>>)
           [] e.field \in MetadataFields -> Exists("metadata", <<OneOf(RowColumn(e.field), e.values)>>)
           [] e.field = "id" -> SqlAll("or", [i \in DOMAIN e.values |-> IsId(e.values[i])])
           [] e.field \in TextColumns -> OneOf(e.field, e.values)
           [] OTHER -> Refused

CompileContains(e) ==
    LET s == CASE e.field \in TextColumns -> Like(e.field, e.value)
               [] e.field = "metadata_value" -> Exists("metadata", <<Like("value", e.value)>>)
               [] OTHER -> Refused
    IN  IF e.negated THEN SqlNot(s) ELSE s

\* is_positive_metadata_key_condition, is_positive_feedback_key_condition.
IsAnchor(table, e) ==
    \/ e.is = "compare" /\ e.op # "neq" /\ e.field = (IF table = "metadata" THEN "metadata_key" ELSE "feedback_key")
    \/ e.is = "in" /\ table = "metadata" /\ e.field = "metadata_key"

\* metadata_row_condition, feedback_row_condition: the conditions of an and() that
\* have to hold in one row of the table.  A negative one is joined only to an anchor.
IsRowCondition(table, e, anchored) ==
    \/ /\ e.is = "compare" /\ e.field \in MetadataFields \cup FeedbackFields
       /\ TableOf(e.field) = table
       /\ e.op = "neq" => anchored /\ e.field \notin {"metadata_key", "feedback_key"}
    \/ e.is = "in" /\ table = "metadata" /\ e.field = "metadata_key"

\* metadata_compare_condition, feedback_compare_condition.
RowConditionSql(e) ==
    IF e.is = "in" THEN OneOf("key", e.values) ELSE Comparison(e.op, RowColumn(e.field), e)

\* The table, if any, in whose one row a child of an and() is to hold.
JoinedTable(kids, e) ==
    LET Joins(table) == IsRowCondition(table, e, \E kid \in ToSet(kids) : IsAnchor(table, kid))
    IN  IF Joins("metadata") THEN "metadata" ELSE IF Joins("feedback") THEN "feedback" ELSE "none"

RECURSIVE CompileExpr(_)
CompileExpr(e) ==
    CASE HasKids(e) /\ e.kids = <<>> -> Refused
      [] e.is = "and" /\ e.kids # <<>> ->
           LET Joined(table) == SelectSeq(e.kids, LAMBDA kid : JoinedTable(e.kids, kid) = table)
               alone == Joined("none")
               Row(table) ==
                 IF Joined(table) = <<>> THEN <<>>
                 ELSE <<Exists(table, [i \in DOMAIN Joined(table) |-> RowConditionSql(Joined(table)[i])])>>
           IN  SqlAll("and", [i \in DOMAIN alone |-> CompileExpr(alone[i])]
                             \o Row("metadata") \o Row("feedback"))
      [] e.is = "or" /\ e.kids # <<>> -> SqlAll("or", [i \in DOMAIN e.kids |-> CompileExpr(e.kids[i])])
      [] e.is = "compare" -> CompileCompare(e)
      [] e.is = "has" -> CompileHas(e)
      [] e.is = "in" -> CompileIn(e)
      [] e.is = "contains" -> CompileContains(e)
      [] e.is \in {"search", "json_key", "json_key_search"} -> Refused

\* scalar_prefilter_expr: the filter without its search atoms; None if nothing is left.
RECURSIVE ScalarPart(_)
ScalarPart(e) ==
    IF e.is = "and"
    THEN LET parts == [i \in DOMAIN e.kids |-> ScalarPart(e.kids[i])]
             left  == SelectSeq(parts, LAMBDA part : part # None)
         IN  CASE Refused \in ToSet(parts) -> Refused
               [] Refused \notin ToSet(parts) /\ Len(left) = 0 -> None
               [] Refused \notin ToSet(parts) /\ Len(left) = 1 -> left[1]
               [] Refused \notin ToSet(parts) /\ Len(left) > 1 -> And(left)
    ELSE IF e.is = "or" /\ ContainsSearch(e)
    THEN IF ContainsScalar(e) THEN Refused ELSE None
    ELSE IF IsSearchAtom(e) THEN None ELSE e

\* compile_run_head_prefilter_for_projects.
Prefilter(e) ==
    LET part == ScalarPart(e)
    IN  IF part = None \/ part = Refused THEN part ELSE CompileExpr(part)

----------------------------------------------------------------------------
\* What the metastore evaluates: SQL's three truth values.

And3(S) == IF "F" \in S THEN "F" ELSE IF "U" \in S THEN "U" ELSE "T"
Or3(S) == IF "T" \in S THEN "T" ELSE IF "U" \in S THEN "U" ELSE "F"
Not3(v) == CASE v = "T" -> "F" [] v = "F" -> "T" [] v = "U" -> "U"
Bool3(b) == IF b THEN "T" ELSE "F"

LessThan(a, b) == Before(ValueBytes(a), ValueBytes(b))

Holds(op, a, b) ==
    CASE op = "eq" -> a = b
      [] op = "neq" -> a # b
      [] op = "gt" -> LessThan(b, a)
      [] op = "gte" -> a = b \/ LessThan(b, a)
      [] op = "lt" -> LessThan(a, b)
      [] op = "lte" -> a = b \/ LessThan(a, b)

IsInfix(needle, hay) ==
    \E i \in 0..(Len(hay) - Len(needle)) : SubSeq(hay, i + 1, i + Len(needle)) = needle

\* A condition on the columns of one row of a table; a missing value is unknown.
EvalCondition(c, row) ==
    IF row[c.column] = None THEN "U"
    ELSE Bool3(CASE c.sql = "column" -> Holds(c.op, row[c.column], c.value)
                 [] c.sql = "in" -> row[c.column] \in ToSet(c.values)
                 [] c.sql = "like" -> IsInfix(ValueBytes(c.value), ValueBytes(row[c.column])))

\* The rows of an index table that belong to a run; feedback is joined by run id.
TableRows(table, run) ==
    CASE table = "tags" -> {[tag |-> t] : t \in run.tags}
      [] table = "metadata" -> run.metadata
      [] table = "feedback" ->
           {f \in run.feedback : (run.run_id # None /\ f.to = run.run_id) \/ f.to = run.generated_run_id}

RECURSIVE Eval(_, _)
Eval(s, run) ==
    CASE s.sql = "and" -> And3({Eval(kid, run) : kid \in ToSet(s.kids)})
      [] s.sql = "or" -> Or3({Eval(kid, run) : kid \in ToSet(s.kids)})
      [] s.sql = "not" -> Not3(Eval(s.kid, run))
      [] s.sql = "id" -> Or3({IF run.run_id = None THEN "U" ELSE Bool3(run.run_id = s.id),
                              Bool3(run.generated_run_id = s.id)})
      [] s.sql = "exists" ->
           Bool3(\E row \in TableRows(s.table, run) :
                   \A c \in ToSet(s.conditions) : EvalCondition(c, row) = "T")
      [] s.sql \in {"column", "in", "like"} -> EvalCondition(s, run)

----------------------------------------------------------------------------
\* The search part (phase6.rs).

TextIn(field, q) == [is |-> "text", field |-> field, query |-> ParseQuery(q)]

Scope(kind, path) == [scope |-> kind, path |-> path]

\* payload_scopes, payload_path_prefixes.
PayloadScopes(field) ==
    IF field = "inputs" THEN <<Scope("prefix", LsInputsPath), Scope("prefix", InputsPath)>>
    ELSE <<Scope("all", <<>>)>>

PayloadPaths(field, suffix) ==
    IF field = "inputs"
    THEN [i \in 1..2 |-> LET prefix == <<LsInputsPath, InputsPath>>[i]
                         IN  IF suffix = <<>> THEN prefix ELSE prefix \o <<Dot>> \o suffix]
    ELSE <<suffix>>

\* One scope needs no or().
AnyOf(ps) == IF Len(ps) = 1 THEN ps[1] ELSE Or(ps)

PayloadText(field, q) ==
    AnyOf([i \in DOMAIN PayloadScopes(field) |-> TextIn(PayloadScopes(field)[i], q)])

PayloadValue(field, text) ==
    AnyOf([i \in DOMAIN PayloadScopes(field) |->
             [is |-> "value", field |-> PayloadScopes(field)[i], text |-> text]])

PayloadKey(field, pattern) ==
    AnyOf([i \in DOMAIN PayloadPaths(field, pattern) |->
             [is |-> "key", pattern |-> PayloadPaths(field, pattern)[i]]])

\* indexed_text_path: the fields of a run that are in the index.
IndexedPath(field) ==
    CASE field = "name" -> NamePath [] field = "status" -> StatusPath [] OTHER -> None

Negation(p) == [is |-> "not", kid |-> p]

\* phase6_atom_predicate.
SearchAtom(e) ==
    CASE e.is = "search" ->
           IF e.field = None THEN TextIn(Scope("all", <<>>), e.query)
           ELSE IF e.field \in PayloadFields THEN PayloadText(e.field, e.query)
           ELSE IF IndexedPath(e.field) # None
                THEN TextIn(Scope("exact", IndexedPath(e.field)), e.query) ELSE Refused
      [] e.is = "json_key" ->
           IF e.field = None THEN [is |-> "key", pattern |-> e.pattern]
           ELSE IF e.field \in PayloadFields THEN PayloadKey(e.field, e.pattern) ELSE Refused
      [] e.is = "json_key_search" ->
           IF e.field = None THEN TextIn(Scope("exact", e.path), e.query)
           ELSE IF e.field \in PayloadFields
                THEN AnyOf([i \in DOMAIN PayloadPaths(e.field, e.path) |->
                              TextIn(Scope("exact", PayloadPaths(e.field, e.path)[i]), e.query)])
                ELSE Refused
      [] e.is = "compare" /\ IsSearchAtom(e) ->
           IF e.op = "eq" THEN PayloadValue(e.field, e.value)
           ELSE IF e.op = "neq" THEN Negation(PayloadValue(e.field, e.value)) ELSE Refused
      [] e.is = "has" /\ IsSearchAtom(e) -> PayloadKey(e.field, e.value)
      [] e.is = "in" /\ IsSearchAtom(e) ->
           IF e.values = <<>> THEN Refused
           ELSE AnyOf([i \in DOMAIN e.values |-> PayloadValue(e.field, e.values[i])])
      [] e.is = "contains" /\ IsSearchAtom(e) ->
           LET p == PayloadText(e.field, [words |-> e.value, phrases |-> {}])
           IN  IF e.negated THEN Negation(p) ELSE p
      [] OTHER -> None

\* phase6_predicate_for_expr: None if there is nothing to search for.
RECURSIVE SearchPart(_)
SearchPart(e) ==
    LET parts == [i \in DOMAIN e.kids |-> SearchPart(e.kids[i])]
        found == SelectSeq(parts, LAMBDA p : p # None)
    IN  IF ~HasKids(e) THEN SearchAtom(e)
        ELSE IF e.is = "or" /\ ~ContainsSearch(e) THEN None
        ELSE IF Refused \in ToSet(parts) \/ (e.is = "or" /\ (ContainsScalar(e) \/ found # parts))
             THEN Refused
        ELSE IF found = <<>> THEN None
        ELSE IF Len(found) = 1 THEN found[1]
        ELSE IF e.is = "and" THEN And(found) ELSE Or(found)

----------------------------------------------------------------------------
\* Applying a filter: the planner selects the candidates with the scalar part, then
\* apply_phase6_search_indexes keeps those that the index of their segment matches.

RowsOf(rs) == {i - 1 : i \in DOMAIN rs}

PlanQuery ==
    /\ pc = "plan"
    /\ LET pre    == Prefilter(filter)
           search == SearchPart(filter)
           rows   == IF pre = None THEN RowsOf(runs)
                     ELSE {row \in RowsOf(runs) : Eval(pre, runs[row + 1]) = "T"}
       IN  IF ~Parses(filter) \/ pre = Refused \/ search = Refused
           THEN pc' = "refused" /\ UNCHANGED <<kept, answer, predicate>>
           ELSE /\ kept' = rows
                /\ IF search = None \/ rows = {}
                   THEN pc' = "done" /\ answer' = rows /\ UNCHANGED predicate
                   ELSE pc' = "directory" /\ predicate' = search /\ UNCHANGED answer
    /\ UNCHANGED <<records, file, directory, dictionaries, loaded, hits, runs, filter>>

\* filter_candidate_rows.
FilterCandidates ==
    /\ pc = "matched"
    /\ answer' = kept \cap hits
    /\ pc' = "done"
    /\ UNCHANGED <<records, predicate, file, directory, dictionaries, loaded, hits, runs, filter, kept>>

\* The index holds the name, type and status of a run before its attributes.
OwnFields(run) ==
    <<[path |-> NamePath, text |-> run.name], [path |-> RunTypePath, text |-> run.run_type],
      [path |-> StatusPath, text |-> run.status]>>

Init ==
    /\ runs \in Segments /\ filter \in Filters
    /\ records = [i \in DOMAIN runs |-> [fields |-> OwnFields(runs[i]), json |-> runs[i].attributes]]
    /\ predicate = None
    /\ kept = {} /\ answer = {}
    /\ SearchReset

Next ==
    \/ PlanQuery
    \/ FilterCandidates
    \/ SearchStep /\ UNCHANGED filterVars

Spec == Init /\ [][Next]_allVars
============================================================================
