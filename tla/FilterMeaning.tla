--------------------------- MODULE FilterMeaning ---------------------------
(***************************************************************************)
(* What a filter means, read as one formula over the run and its           *)
(* attributes: the reference for the two compilations of RunFilters (SQL   *)
(* and search predicate) and for everything between the records and the    *)
(* rows that an index query returns (SearchIndex, SearchCodec).            *)
(***************************************************************************)
EXTENDS RunFilters

----------------------------------------------------------------------------
\* Atoms on columns and index tables, with numbers compared as they were written.
\* What is missing is equal to nothing, neither less nor greater, and contains nothing.

PairFields == MetadataFields \cup FeedbackFields

MeetsRow(e, row) ==
    IF e.is = "in" THEN row[RowColumn(e.field)] \in ToSet(e.values)
    ELSE row[RowColumn(e.field)] # None /\ Holds(e.op, row[RowColumn(e.field)], e.value)

CompareMeans(e, run) ==
    CASE e.field \in TextColumns \cup NumberColumns \cup {"is_root"} ->
           IF e.op = "neq" THEN run[e.field] # e.value
           ELSE run[e.field] # None /\ Holds(e.op, run[e.field], e.value)
      [] e.field = "error" -> ((run.status = ErrorText) = (e.value = True)) = (e.op = "eq")
      [] e.field = "tags" -> (e.value \in run.tags) = (e.op = "eq")
      [] e.field = "id" -> (e.value \in {run.run_id, run.generated_run_id}) = (e.op = "eq")
      [] e.field \in PairFields ->
           IF e.op = "neq"
           THEN \A row \in TableRows(TableOf(e.field), run) : row[RowColumn(e.field)] # e.value
           ELSE \E row \in TableRows(TableOf(e.field), run) : MeetsRow(e, row)

ScalarMeans(e, run) ==
    CASE e.is = "compare" -> CompareMeans(e, run)
      [] e.is = "has" /\ e.field = "tags" -> e.value \in run.tags
      [] e.is = "has" /\ e.field = "metadata_key" -> \E m \in run.metadata : m.key = e.value
      [] e.is = "in" /\ e.field = "tags" -> \E t \in run.tags : t \in ToSet(e.values)
      [] e.is = "in" /\ e.field = "id" -> \E id \in ToSet(e.values) : id \in {run.run_id, run.generated_run_id}
      [] e.is = "in" /\ e.field \in MetadataFields -> \E m \in run.metadata : MeetsRow(e, m)
      [] e.is = "in" /\ e.field \in TextColumns -> run[e.field] \in ToSet(e.values)
      [] e.is = "contains" /\ e.field \in TextColumns ->
           (run[e.field] # None /\ IsInfix(ValueBytes(e.value), ValueBytes(run[e.field]))) = ~e.negated
      [] e.is = "contains" /\ e.field = "metadata_value" ->
           (\E m \in run.metadata : IsInfix(ValueBytes(e.value), ValueBytes(m.value))) = ~e.negated

\* The conditions of an and() on the keys and values of one table speak of one
\* pair; "not this value" does so only next to a key.
SpeaksOfAPair(kids, table, e) ==
    LET keyed == \E k \in kids : /\ k.is = "in" \/ (k.is = "compare" /\ k.op # "neq")
                                 /\ k.field = (IF table = "metadata" THEN "metadata_key" ELSE "feedback_key")
        OnTable == e.field \in (IF table = "metadata" THEN MetadataFields ELSE FeedbackFields)
    IN  \/ e.is = "compare" /\ e.op # "neq" /\ OnTable
        \/ e.is = "compare" /\ e.op = "neq" /\ e.field \in {"metadata_value", "feedback_score"} /\ OnTable /\ keyed
        \/ e.is = "in" /\ e.field = "metadata_key" /\ OnTable

----------------------------------------------------------------------------
\* Atoms on the indexed text and paths.

\* A path matches a pattern if its stars can be filled in.
RECURSIVE Glob(_, _)
Glob(path, pattern) ==
    IF pattern = <<>> THEN path = <<>>
    ELSE IF pattern[1] = Star THEN \E i \in 0..Len(path) : Glob(SubSeq(path, i + 1, Len(path)), Tail(pattern))
    ELSE path # <<>> /\ path[1] = pattern[1] /\ Glob(Tail(path), Tail(pattern))

\* The texts a record has at a path.  A field of the run itself and the first
\* attribute of that path read as one text.
TextsAt(record, path) ==
    LET At(e) == e.path = path
        own    == SelectSeq(SubSeq(Entries(record), 1, Len(record.fields)), At)
        leaves == SelectSeq(SubSeq(Entries(record), Len(record.fields) + 1, Len(Entries(record))), At)
    IN  IF own = <<>> \/ leaves = <<>> THEN {e.tokens : e \in ToSet(own \o leaves)}
        ELSE {own[1].tokens \o leaves[1].tokens} \cup {e.tokens : e \in ToSet(Tail(leaves))}

PathsOf(record) == {e.path : e \in ToSet(Entries(record))}

TextMeans(field, q, record) ==
    LET texts  == UNION {TextsAt(record, path) : path \in {p \in PathsOf(record) : MatchesPath(field, p)}}
        parsed == ParseQuery(q)
    IN  /\ parsed.terms \cup parsed.phrases # {}
        /\ \A t \in parsed.terms : \E text \in texts : t \in ToSet(text)
        /\ \A phrase \in parsed.phrases : \E text \in texts : IsInfix(phrase, text)

ValueMeans(field, text, record) ==
    \E e \in ToSet(Entries(record)) : e.exact = text /\ MatchesPath(field, e.path)

PatternMeans(pattern, record) == \E path \in PathsOf(record) : Glob(path, pattern)

\* The fields of the index that a field of the language covers.
ScopesOf(field) ==
    CASE field = None -> {Scope("all", <<>>)}
      [] field \in PayloadFields -> ToSet(PayloadScopes(field))
      [] field = "name" -> {Scope("exact", NamePath)}
      [] field = "status" -> {Scope("exact", StatusPath)}

PathsUnder(field, suffix) == IF field = None THEN {suffix} ELSE ToSet(PayloadPaths(field, suffix))

SearchMeans(e, record) ==
    CASE e.is = "search" -> \E s \in ScopesOf(e.field) : TextMeans(s, e.query, record)
      [] e.is = "json_key" -> \E p \in PathsUnder(e.field, e.pattern) : PatternMeans(p, record)
      [] e.is = "json_key_search" ->
           \E p \in PathsUnder(e.field, e.path) : TextMeans(Scope("exact", p), e.query, record)
      [] e.is = "compare" -> (\E s \in ScopesOf(e.field) : ValueMeans(s, e.value, record)) = (e.op = "eq")
      [] e.is = "has" -> \E p \in PathsUnder(e.field, e.value) : PatternMeans(p, record)
      [] e.is = "in" -> \E s \in ScopesOf(e.field), v \in ToSet(e.values) : ValueMeans(s, v, record)
      [] e.is = "contains" ->
           (\E s \in ScopesOf(e.field) : TextMeans(s, [words |-> e.value, phrases |-> {}], record)) = ~e.negated

----------------------------------------------------------------------------
\* A filter as a whole, for row i.

RECURSIVE Means(_, _)
Means(e, i) ==
    IF e.is = "or" THEN \E kid \in ToSet(e.kids) : Means(kid, i)
    ELSE IF e.is = "and"
    THEN LET kids == ToSet(e.kids)
             Pairs(table) == {kid \in kids : ~HasKids(kid) /\ ~IsSearchAtom(kid) /\ SpeaksOfAPair(kids, table, kid)}
         IN  /\ \A kid \in kids \ (Pairs("metadata") \cup Pairs("feedback")) : Means(kid, i)
             /\ \A table \in {"metadata", "feedback"} :
                  Pairs(table) = {} \/ \E row \in TableRows(table, runs[i]) : \A c \in Pairs(table) : MeetsRow(c, row)
    ELSE IF IsSearchAtom(e) THEN SearchMeans(e, records[i])
    ELSE ScalarMeans(e, runs[i])

RECURSIVE Atoms(_)
Atoms(e) == IF HasKids(e) THEN UNION {Atoms(kid) : kid \in ToSet(e.kids)} ELSE {e}

\* path_matches_pattern takes each part where it first occurs, so a pattern that
\* ends in a part may miss a path.
PatternOf(e) == IF e.is = "json_key" THEN e.pattern ELSE IF e.is = "has" THEN e.value ELSE <<>>

GreedyIsEnough(e) ==
    LET p == PatternOf(e)
    IN  \/ ~IsSearchAtom(e) \/ Star \notin ToSet(p) \/ p[Len(p)] = Star

\* An and() inside an and() whose search atoms leave it one condition hands that
\* condition to the outer and(), which then joins it to its own.
RECURSIVE LosesNoParentheses(_)
LosesNoParentheses(e) ==
    /\ e.is = "and" => \A kid \in ToSet(e.kids) : kid.is = "and" => ~ContainsSearch(kid) \/ ~ContainsScalar(kid)
    /\ HasKids(e) => \A kid \in ToSet(e.kids) : LosesNoParentheses(kid)

\* SQL does not know whether a condition on a missing value holds, and so not whether
\* its negation does: a run without a model is not one whose model differs, and a run
\* that has only its generated id is not one with another id.
LeavesOut(e, run) ==
    /\ \/ e.is = "compare" /\ e.op = "neq"
       \/ e.is = "contains" /\ e.negated
    /\ \/ e.field \in TextColumns \cup NumberColumns /\ run[e.field] = None
       \/ e.field = "id" /\ run.run_id = None

\* compile_i64_column cuts the fraction of a number, so that a run with just the whole
\* part compares with it as equal: gte(total_tokens, 1.5) takes a run with one token.
CutsAFraction(e, run) ==
    /\ e.is = "compare" /\ e.field \in {"latency", "start_time", "total_tokens"}
    /\ ~IsWhole(e.value) /\ run[e.field] = Truncated(e.value)

\* An answered filter selects the runs of which it is true, and no others, but for four
\* things that the code does otherwise: it leaves out runs where a path pattern ends in
\* a part after a star, and where a negative condition meets a missing value; it may
\* misjudge a run whose number is the whole part of the fraction it is compared with;
\* and it may lose the parentheses of an and() inside an and().
\* This relates the SQL prefilter, the search predicate, the encoded index and its three
\* partial reads (compile_expr, phase6_predicate_for_expr, select_search_index_terms,
\* matching_rows) to the filter the user wrote.
FiltersAnswerTheirMeaning ==
    pc = "done" /\ LosesNoParentheses(filter) =>
      \A row \in RowsOf(runs) :
        \/ (row \in answer) = Means(filter, row + 1)
        \/ row \notin answer /\ \E e \in Atoms(filter) : ~GreedyIsEnough(e) \/ LeavesOut(e, runs[row + 1])
        \/ \E e \in Atoms(filter) : CutsAFraction(e, runs[row + 1])

----------------------------------------------------------------------------
\* What the encoded lists of an index say: every occurrence of a term.
DecodedOccurrences(groups, positions) ==
    UNION {UNION {UNION {{[term |-> group.terms[n], row |-> row,
                           at |-> {a[2] : a \in {b \in t.at : b[1] = row}}] : row \in t.rows} :
                           t \in GroupTerm(group, n, positions)} : n \in DOMAIN group.terms} :
             group \in ToSet(groups)}

Occurrences(os) ==
    {[term |-> o.term, row |-> o.row,
      at |-> {x.position : x \in {y \in os : y.term = o.term /\ y.row = o.row}}] : o \in os}

\* The stored object decodes to the index that was built, and the lists of its row
\* groups (deltas, bit-packed blocks, vint tails) to the rows and positions of every
\* term that build_search_index added (encode_search_index, decode_search_index).
IndexRoundTrips ==
    pc = "plan" /\ file # <<>> =>
      \A index \in {DecodeSearchIndex(file)} :
        /\ index.row_count = Len(records)
        /\ DecodedOccurrences(index.values, TRUE) = Occurrences(ValueOccurrences(records))
        /\ {[term |-> o.term, row |-> o.row] : o \in DecodedOccurrences(index.keys, FALSE)}
             = KeyOccurrences(records)
============================================================================
