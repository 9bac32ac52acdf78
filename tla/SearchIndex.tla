---------------------------- MODULE SearchIndex ----------------------------
(***************************************************************************)
(* The full-text and JSON-path index of a segment (src/search/), and how a *)
(* query reads it (src/query/search.rs).  A writer flattens the records    *)
(* into terms, sorts them into row groups and stores the groups as one     *)
(* object.  A query reads the directory, then the dictionaries of the      *)
(* groups that may hold its terms, then the postings and positions of the  *)
(* terms it needs, rebuilds an index that has only those, and evaluates    *)
(* its predicate on that.                                                  *)
(*                                                                         *)
(* A string is a sequence of characters, numbers in the order of their     *)
(* bytes.  The FST of a group is the sequence of its terms, and a record   *)
(* of the file that the code writes in fixed-width integers (a header, a   *)
(* directory entry, a TermInfo) is one cell of it.                         *)
(***************************************************************************)
EXTENDS SearchCodec, FiniteSetsExt

CONSTANTS
    MaxTokenBytes,      \* MAX_TOKEN_BYTES
    StopWords,          \* tokens not indexed: stop words and those under MIN_TOKEN_BYTES
    MaxJsonKeys,        \* MAX_JSON_KEYS_PER_RUN
    MaxValueWords,      \* words that MAX_INDEXED_VALUE_BYTES hold
    GroupPostingsBytes, \* ROW_GROUP_POSTINGS_BYTES
    GroupTermBytes,     \* ROW_GROUP_RAW_TERM_BYTES
    Star,               \* the wildcard of a path pattern
    None

\* The separator of token and path, and the characters that have a place in the order.
Sep == 0
Space == 1
Dot == 2
Equal == 3
MaxChar == 255

VARIABLES
    records,        \* the rows of the segment
    predicate,      \* the query's SearchPredicate
    file,           \* the stored index object, <<>> before it is written
    pc,
    directory,      \* of the query: the directory it read
    dictionaries,   \* of the query: group -> its terms and infos, for keys and values
    loaded,         \* of the query: the index it rebuilt
    hits            \* of the query: the rows that match

searchVars == <<records, predicate, file, pc, directory, dictionaries, loaded, hits>>

----------------------------------------------------------------------------
\* Text (predicate.rs).  A text is a sequence of words in lower case; a word is a string.

\* tokens_for_text.
TokensForText(text) ==
    SelectSeq([i \in DOMAIN text |-> SubSeq(text[i], 1, IF Len(text[i]) < MaxTokenBytes
                                                        THEN Len(text[i]) ELSE MaxTokenBytes)],
              LAMBDA token : token \notin StopWords)

\* SearchQuery::parse: the words outside quotes, and the phrases that have tokens.
ParseQuery(q) ==
    [terms |-> ToSet(TokensForText(q.words)),
     phrases |-> {TokensForText(phrase) : phrase \in q.phrases} \ {<<>>}]

IsStrPrefix(prefix, s) == Len(prefix) <= Len(s) /\ SubSeq(s, 1, Len(prefix)) = prefix

\* SearchField::matches_path.
MatchesPath(field, path) ==
    \/ field.scope = "all"
    \/ path = field.path
    \/ field.scope = "prefix" /\ IsStrPrefix(Append(field.path, Dot), path)

\* The bytes of a value; hex digits keep them apart and in order.
ValueBytes(text) ==
    FlattenSeq([i \in DOMAIN text |-> IF i = 1 THEN text[i] ELSE <<Space>> \o text[i]])

ExactValueToken(text) == <<Equal>> \o ValueBytes(text)

TermValuePrefix(token) == Append(token, Sep)

TermValueKey(token, path) == TermValuePrefix(token) \o path

TermPath(term) ==
    IF Sep \notin ToSet(term) THEN term
    ELSE SubSeq(term, Min({i \in DOMAIN term : term[i] = Sep}) + 1, Len(term))

----------------------------------------------------------------------------
\* The leaves of a JSON document (json_tape.rs): objects extend the path, arrays do
\* not; null and empty containers are leaves without a value.

JoinPath(parent, key) == IF parent = <<>> THEN key ELSE parent \o <<Dot>> \o key

PushLeaf(path, value) == IF path = <<>> THEN <<>> ELSE <<[path |-> path, value |-> value]>>

RECURSIVE TapeLeaves(_, _)
TapeLeaves(path, json) ==
    IF json.is = "scalar" THEN PushLeaf(path, json.text)
    ELSE IF json.is = "null" \/ json.kids = <<>> THEN PushLeaf(path, None)
    ELSE FlattenSeq([i \in DOMAIN json.kids |->
           IF json.is = "object"
           THEN TapeLeaves(JoinPath(path, json.kids[i].key), json.kids[i].json)
           ELSE TapeLeaves(path, json.kids[i])])

\* JsonTape::parse: a document that does not parse has no leaves.
JsonLeaves(json) == IF json.is = "invalid" THEN <<>> ELSE TapeLeaves(<<>>, json)

----------------------------------------------------------------------------
\* Building the index (indexer.rs).

Truncate(s, n) == SubSeq(s, 1, IF Len(s) < n THEN Len(s) ELSE n)

\* What build_search_index adds for a record, in order: its own fields, then its
\* leaves.  A leaf with a value is followed by a gap; only values that are not
\* cut have an exact entry.
FieldEntry(f) == [path |-> f.path, tokens |-> TokensForText(f.text), exact |-> None, gap |-> 0]

LeafEntry(leaf) ==
    IF leaf.value = None
    THEN [path |-> leaf.path, tokens |-> <<>>, exact |-> None, gap |-> 0]
    ELSE [path |-> leaf.path,
          tokens |-> TokensForText(Truncate(leaf.value, MaxValueWords)),
          exact |-> IF Len(leaf.value) <= MaxValueWords THEN leaf.value ELSE None,
          gap |-> 1]

EntriesOf(fields, leaves) ==
    [i \in 1..(Len(fields) + Len(leaves)) |->
       IF i <= Len(fields) THEN FieldEntry(fields[i]) ELSE LeafEntry(leaves[i - Len(fields)])]

Entries(record) == EntriesOf(record.fields, Truncate(JsonLeaves(record.json), MaxJsonKeys))

\* next_position, add_leaf_position_gap: the position of the first token of entry i.
FirstPosition(entries, i) ==
    SumSeq([k \in 1..(i - 1) |-> IF entries[k].path = entries[i].path
                                 THEN Len(entries[k].tokens) + entries[k].gap ELSE 0])

KeyOccurrences(rs) ==
    UNION {{[term |-> e.path, row |-> row - 1] : e \in ToSet(Entries(rs[row]))} :
             row \in DOMAIN rs}

ValueOccurrencesOf(entries, row) ==
    UNION {{[term |-> TermValueKey(entries[i].tokens[j], entries[i].path), row |-> row,
             position |-> FirstPosition(entries, i) + j - 1] : j \in DOMAIN entries[i].tokens}
           \cup (IF entries[i].exact = None THEN {}
                 ELSE {[term |-> TermValueKey(ExactValueToken(entries[i].exact), entries[i].path),
                        row |-> row, position |-> 0]}) : i \in DOMAIN entries}

ValueOccurrences(rs) == UNION {ValueOccurrencesOf(Entries(rs[row]), row - 1) : row \in DOMAIN rs}

----------------------------------------------------------------------------
\* Terms in byte order, and the row groups (mod.rs).

Before(a, b) ==
    \/ a # b /\ IsStrPrefix(a, b)
    \/ \E i \in DOMAIN a \cap DOMAIN b : a[i] < b[i] /\ \A k \in 1..(i - 1) : a[k] = b[k]

Ascending(S) == Sorted(S, <)

\* build_key_entries, build_value_entries: the terms in order, each with its rows
\* and, for a value term, its positions by row.
TermEntry(term, os) ==
    [term |-> term,
     rows |-> Ascending({o.row : o \in os}),
     at |-> {<<o.row, IF "position" \in DOMAIN o THEN o.position ELSE 0>> : o \in os}]

EntriesInOrder(terms, occurrences) ==
    [i \in DOMAIN terms |-> TermEntry(terms[i], {o \in occurrences : o.term = terms[i]})]

TermEntries(occurrences) ==
    EntriesInOrder(Sorted({o.term : o \in occurrences}, Before), occurrences)

PositionLists(entry) ==
    [row \in ToSet(entry.rows) |-> Ascending({p[2] : p \in {q \in entry.at : q[1] = row}})]

EntryPostings(entry) == EncodeU32List(entry.rows)

EntryPositions(entry, include_positions) ==
    IF include_positions THEN EncodePositions(entry.rows, PositionLists(entry)) ELSE <<>>

\* A term with its lists encoded.
EncodedEntry(entry, include_positions) ==
    [term |-> entry.term, doc_count |-> Len(entry.rows), postings |-> EntryPostings(entry),
     positions |-> EntryPositions(entry, include_positions)]

\* encode_row_group: the TermInfo of a term is the place of its lists.
Offset(lists, i) == Len(FlattenSeq(SubSeq(lists, 1, i - 1)))

TermInfo(doc_count, postings, positions, i) ==
    [doc_count |-> doc_count,
     postings_offset |-> Offset(postings, i), postings_len |-> Len(postings[i]),
     positions_offset |-> Offset(positions, i), positions_len |-> Len(positions[i])]

RowGroup(group, postings, positions) ==
    [min_term |-> group[1].term,
     max_term |-> group[Len(group)].term,
     terms |-> [i \in DOMAIN group |-> group[i].term],
     infos |-> [i \in DOMAIN group |-> TermInfo(group[i].doc_count, postings, positions, i)],
     postings |-> FlattenSeq(postings),
     positions |-> FlattenSeq(positions)]

EncodeRowGroup(group) ==
    RowGroup(group, [i \in DOMAIN group |-> group[i].postings], [i \in DOMAIN group |-> group[i].positions])

\* build_row_groups: a group is closed when the next term would make it too large.
GroupHasRoom(group, e) ==
    /\ SumSeq([i \in DOMAIN group |-> Len(group[i].postings) + Len(group[i].positions)])
         + Len(e.postings) + Len(e.positions) <= GroupPostingsBytes
    /\ SumSeq([i \in DOMAIN group |-> Len(group[i].term)]) + Len(e.term) <= GroupTermBytes

AddToGroups(groups, e) ==
    IF groups # <<>> /\ GroupHasRoom(Last(groups), e)
    THEN [groups EXCEPT ![Len(groups)] = Append(@, e)]
    ELSE Append(groups, <<e>>)

EncodeGroups(groups) == [g \in DOMAIN groups |-> EncodeRowGroup(groups[g])]

EncodedEntries(entries, include_positions) ==
    [i \in DOMAIN entries |-> EncodedEntry(entries[i], include_positions)]

BuildRowGroups(entries, include_positions) ==
    EncodeGroups(FoldLeft(AddToGroups, <<>>, EncodedEntries(entries, include_positions)))

BuildSearchIndex(rs) ==
    [row_count |-> Len(rs),
     keys |-> BuildRowGroups(TermEntries(KeyOccurrences(rs)), FALSE),
     values |-> BuildRowGroups(TermEntries(ValueOccurrences(rs)), TRUE)]

----------------------------------------------------------------------------
\* The stored object (codec.rs): header, directory, and the four sections of each
\* group, first of the key groups, then of the value groups.

Sections(group) == <<group.terms, group.infos, group.postings, group.positions>>

HeaderLen == 1

\* Where each section of a group is, if its first is at start.
SectionsAt(group, sections, start) ==
    LET At(n) == RangeOf(start + Offset(sections, n), Len(sections[n]))
    IN  [min_term |-> group.min_term, max_term |-> group.max_term,
         fst |-> At(1), term_infos |-> At(2), postings |-> At(3), positions |-> At(4)]

GroupBytes(groups) == [g \in DOMAIN groups |-> FlattenSeq(Sections(groups[g]))]

\* The directory: where each section of each group is.
DirectoryOf(groups, bytes) ==
    [g \in DOMAIN groups |->
       SectionsAt(groups[g], Sections(groups[g]), HeaderLen + Len(groups) + Offset(bytes, g))]

EncodeParts(header, groups, bytes) == <<header>> \o DirectoryOf(groups, bytes) \o FlattenSeq(bytes)

EncodeGroupsOf(index, groups) ==
    EncodeParts([row_count |-> index.row_count, keys |-> Len(index.keys), directory_len |-> Len(groups)],
                groups, GroupBytes(groups))

EncodeSearchIndex(index) == EncodeGroupsOf(index, index.keys \o index.values)

\* load_search_index_directory: two reads, the header and what it says the directory is.
ReadEntries(f, header) ==
    IF header.directory_len = 0 THEN <<>>
    ELSE ReadRanges(f, <<RangeOf(HeaderLen, header.directory_len)>>)[1]

SplitDirectory(header, entries) ==
    [row_count |-> header.row_count,
     keys |-> SubSeq(entries, 1, header.keys),
     values |-> SubSeq(entries, header.keys + 1, Len(entries))]

DirectoryAfter(f, header) == SplitDirectory(header, ReadEntries(f, header))

LoadDirectory(f) == DirectoryAfter(f, ReadRanges(f, <<RangeOf(0, HeaderLen)>>)[1][1])

\* decode_search_index: the whole object at once.
DecodeGroups(f, entries) ==
    [g \in DOMAIN entries |->
       LET e == entries[g]
       IN  [min_term |-> e.min_term, max_term |-> e.max_term,
            terms |-> Slice(f, e.fst), infos |-> Slice(f, e.term_infos),
            postings |-> Slice(f, e.postings), positions |-> Slice(f, e.positions)]]

DecodeWith(f, d) ==
    [row_count |-> d.row_count, keys |-> DecodeGroups(f, d.keys), values |-> DecodeGroups(f, d.values)]

DecodeSearchIndex(f) == DecodeWith(f, LoadDirectory(f))

----------------------------------------------------------------------------
\* Which groups may hold a term (mod.rs).

MayContainExact(min_term, max_term, key) ==
    (min_term = key \/ Before(min_term, key)) /\ (key = max_term \/ Before(key, max_term))

\* next_prefix: the least string after all those with this prefix.
NextPrefix(prefix) ==
    LET keep == {i \in DOMAIN prefix : prefix[i] # MaxChar}
    IN  IF keep = {} THEN None
        ELSE SubSeq(prefix, 1, Max(keep) - 1) \o <<prefix[Max(keep)] + 1>>

OverlapsPrefix(min_term, max_term, prefix) ==
    /\ ~Before(max_term, prefix)
    /\ NextPrefix(prefix) = None \/ Before(min_term, NextPrefix(prefix))

\* A term lookup: one exact term, all with a prefix, or (a pattern with inner
\* wildcards) all.  field restricts the paths, phrases need positions.
Exactly(key) == [how |-> "exact", str |-> key, field |-> None, positions |-> FALSE]

Prefixed(prefix) == [how |-> "prefix", str |-> prefix, field |-> None, positions |-> FALSE]

Matching(pattern) == [how |-> "pattern", str |-> pattern, field |-> None, positions |-> FALSE]

\* path_matches_pattern: each part is looked for from the left of what remains.
PatternParts(pattern) ==
    LET stars == {i \in DOMAIN pattern : pattern[i] = Star}
        starts == {i \in DOMAIN pattern : i \notin stars /\ (i = 1 \/ i - 1 \in stars)}
        PartAt(i) == SubSeq(pattern, i, Max({k \in i..Len(pattern) : i..k \cap stars = {}}))
    IN  [n \in 1..Cardinality(starts) |-> PartAt(Ascending(starts)[n])]

PathMatchesPattern(path, pattern) ==
    LET parts == PatternParts(pattern)
        anchored == pattern # <<>> /\ pattern[1] # Star
        Found(rest, part) == {i \in 0..(Len(rest) - Len(part)) : SubSeq(rest, i + 1, i + Len(part)) = part}
        Take(rest, n) ==
          IF rest = None THEN None
          ELSE LET at == Found(rest, parts[n]) \cap (IF n = 1 /\ anchored THEN {0} ELSE 0..Len(rest))
               IN  IF at = {} THEN None
                   ELSE SubSeq(rest, Min(at) + Len(parts[n]) + 1, Len(rest))
        rest == FoldLeft(Take, path, [n \in DOMAIN parts |-> n])
    IN  IF Star \notin ToSet(pattern) THEN path = pattern
        ELSE rest # None /\ (pattern[Len(pattern)] = Star \/ rest = <<>>)

\* The lookup of a path pattern: without a wildcard, with one at its end, or other.
KeyLookup(pattern) ==
    IF Star \notin ToSet(pattern) THEN Exactly(pattern)
    ELSE IF pattern[Len(pattern)] = Star /\ Star \notin ToSet(Front(pattern)) THEN Prefixed(Front(pattern))
    ELSE Matching(pattern)

\* The lookup of a token in a field.
ValueLookup(field, token, positions) ==
    IF field.scope = "exact"
    THEN [Exactly(TermValueKey(token, field.path)) EXCEPT !.positions = positions]
    ELSE [Prefixed(TermValuePrefix(token)) EXCEPT !.positions = positions, !.field = field]

GroupMayHold(entry, lookup) ==
    \/ lookup.how = "exact" /\ MayContainExact(entry.min_term, entry.max_term, lookup.str)
    \/ lookup.how = "prefix" /\ OverlapsPrefix(entry.min_term, entry.max_term, lookup.str)
    \/ lookup.how = "pattern"

TermMatches(term, lookup) ==
    \/ lookup.how = "exact" /\ term = lookup.str
    \/ lookup.how = "prefix" /\ IsStrPrefix(lookup.str, term)
    \/ lookup.how = "pattern" /\ PathMatchesPattern(term, lookup.str)

InField(term, lookup) == lookup.field = None \/ MatchesPath(lookup.field, TermPath(term))

----------------------------------------------------------------------------
\* What a predicate looks up (selection.rs).

RECURSIVE Lookups(_, _)
Lookups(p, kind) ==
    IF p.is \in {"and", "or"} THEN UNION {Lookups(kid, kind) : kid \in ToSet(p.kids)}
    ELSE IF p.is = "not" THEN Lookups(p.kid, kind)
    ELSE IF p.is = "key" THEN IF kind = "keys" THEN {KeyLookup(p.pattern)} ELSE {}
    ELSE IF kind = "keys" THEN {}
    ELSE IF p.is = "value" THEN {ValueLookup(p.field, ExactValueToken(p.text), FALSE)}
    ELSE {ValueLookup(p.field, token, FALSE) : token \in p.query.terms}
         \cup UNION {{ValueLookup(p.field, token, Len(phrase) > 1) : token \in ToSet(phrase)} :
                       phrase \in p.query.phrases}

Kinds == {"keys", "values"}

\* select_search_index_groups.
SelectGroups(d, p) ==
    [kind \in Kinds |->
       {g \in DOMAIN d[kind] : \E l \in Lookups(p, kind) : GroupMayHold(d[kind][g], l)}]

\* Pairs of kind and group, in the order in which the code walks them.
WalkOf(kind, gs) == [i \in DOMAIN gs |-> <<kind, gs[i]>>]

Walk(groups) == WalkOf("keys", Ascending(groups["keys"])) \o WalkOf("values", Ascending(groups["values"]))

\* load_selected_dictionaries: one request for the terms and infos of the groups.
DictionaryRanges(d, plan) ==
    FlattenSeq([i \in DOMAIN plan |->
                  LET e == d[plan[i][1]][plan[i][2]] IN <<e.fst, e.term_infos>>])

PlaceOf(plan, w) == CHOOSE i \in DOMAIN plan : plan[i] = w

DictionaryAt(chunks, place) == [terms |-> chunks[2 * place - 1], infos |-> chunks[2 * place]]

DictionariesOf(groups, plan, chunks) ==
    [kind \in Kinds |-> [g \in groups[kind] |-> DictionaryAt(chunks, PlaceOf(plan, <<kind, g>>))]]

DictionariesOfPlan(f, d, groups, plan) ==
    DictionariesOf(groups, plan, ReadRanges(f, DictionaryRanges(d, plan)))

LoadDictionaries(f, d, groups) == DictionariesOfPlan(f, d, groups, Walk(groups))

\* Variant: the last lookup of a term decides whether its positions are needed.
MergeSelectedTermAll(lookups) == \A l \in lookups : l.positions

\* merge_selected_term: one lookup that needs positions is enough.
MergeSelectedTerm(lookups) == \E l \in lookups : l.positions

\* select_search_index_terms: the ordinals to load, with or without positions.
WantedBy(term, lookups) == {l \in lookups : TermMatches(term, l) /\ InField(term, l)}

SelectOf(terms, lookups) ==
    {[ordinal |-> s[1], positions |-> MergeSelectedTerm(s[2])] :
       s \in {w \in {<<n, WantedBy(terms[n], lookups)>> : n \in DOMAIN terms} : w[2] # {}}}

SelectTerms(dicts, p) ==
    [kind \in Kinds |-> [g \in DOMAIN dicts[kind] |-> SelectOf(dicts[kind][g].terms, Lookups(p, kind))]]

NoInfo == [doc_count |-> 0, postings_offset |-> 0, postings_len |-> 0,
           positions_offset |-> 0, positions_len |-> 0]

\* subrange, and the ranges of a selected term.
TermRanges(e, info, with_positions) ==
    <<RangeOf(e.postings.start + info.postings_offset, info.postings_len)>>
    \o (IF with_positions
        THEN <<RangeOf(e.positions.start + info.positions_offset, info.positions_len)>> ELSE <<>>)

\* The selected terms of a group, in order; a term with what is read of it.
Picked(terms) == Sorted(terms, LAMBDA a, b : a.ordinal < b.ordinal)

PlanTerm(e, kind, info, t) ==
    [ordinal |-> t.ordinal, doc_count |-> info.doc_count,
     ranges |-> TermRanges(e, info, kind = "values" /\ t.positions /\ info.positions_len > 0)]

PlanGroup(e, kind, dictionary, picked) ==
    [n \in DOMAIN picked |-> PlanTerm(e, kind, dictionary.infos[picked[n].ordinal], picked[n])]

\* The groups that have selected terms, each with its plan.
PlanWalk(d, dicts, terms, walk) ==
    [i \in DOMAIN walk |->
       LET kind == walk[i][1]
           g    == walk[i][2]
       IN  [kind |-> kind, entry |-> d[kind][g], dictionary |-> dicts[kind][g],
            terms |-> PlanGroup(d[kind][g], kind, dicts[kind][g], Picked(terms[kind][g]))]]

PlanTerms(d, dicts, terms) ==
    PlanWalk(d, dicts, terms,
             Walk([kind \in Kinds |-> {g \in DOMAIN terms[kind] : terms[kind][g] # {}}]))

RangesOf(planned) == FlattenSeq([n \in DOMAIN planned |-> planned[n].ranges])

\* A group rebuilt from what was read of its terms; the others have no rows.
RebuildInfo(planned, postings, positions, ordinal) ==
    IF \E n \in DOMAIN planned : planned[n].ordinal = ordinal
    THEN LET n == CHOOSE m \in DOMAIN planned : planned[m].ordinal = ordinal
         IN  TermInfo(planned[n].doc_count, postings, positions, n)
    ELSE NoInfo

RebuildGroup(x, postings, positions) ==
    [min_term |-> x.entry.min_term, max_term |-> x.entry.max_term, terms |-> x.dictionary.terms,
     infos |-> [o \in DOMAIN x.dictionary.infos |-> RebuildInfo(x.terms, postings, positions, o)],
     postings |-> FlattenSeq(postings), positions |-> FlattenSeq(positions)]

\* The lists of the terms are the chunks of the group, in turn.
RebuildFrom(x, chunks) ==
    LET At(n) == Offset([m \in DOMAIN x.terms |-> x.terms[m].ranges], n) + 1
    IN  RebuildGroup(x, [n \in DOMAIN x.terms |-> chunks[At(n)]],
                        [n \in DOMAIN x.terms |->
                           IF Len(x.terms[n].ranges) = 2 THEN chunks[At(n) + 1] ELSE <<>>])

RebuildAll(plan, ranges, chunks) ==
    [i \in DOMAIN plan |->
       [kind |-> plan[i].kind,
        group |-> RebuildFrom(plan[i], SubSeq(chunks, Offset(ranges, i) + 1, Len(chunks)))]]

GroupsOfKind(rebuilt, kind) ==
    LET mine == SelectSeq(rebuilt, LAMBDA r : r.kind = kind) IN [i \in DOMAIN mine |-> mine[i].group]

Rejoined(row_count, rebuilt) ==
    [row_count |-> row_count,
     keys |-> GroupsOfKind(rebuilt, "keys"), values |-> GroupsOfKind(rebuilt, "values")]

LoadPlanned(f, row_count, plan, ranges) ==
    Rejoined(row_count, RebuildAll(plan, ranges, ReadRanges(f, FlattenSeq(ranges))))

LoadPlan(f, row_count, plan) ==
    LoadPlanned(f, row_count, plan, [i \in DOMAIN plan |-> RangesOf(plan[i].terms)])

\* load_term_slices: one request for the lists of the selected terms, joined again
\* into groups whose other terms have no rows.
LoadTerms(f, d, dicts, terms) == LoadPlan(f, d.row_count, PlanTerms(d, dicts, terms))

----------------------------------------------------------------------------
\* Evaluating a predicate on an index (mod.rs).

\* group_term_by_ordinal: a term of a group with its lists decoded; a list that does
\* not decode makes the term disappear.
RowsOfTerm(group, info) ==
    DecodeU32List(Slice(group.postings, RangeOf(info.postings_offset, info.postings_len)), info.doc_count)

ListsOfTerm(group, info, rows, positions) ==
    IF positions /\ info.positions_len > 0
    THEN DecodePositions(Slice(group.positions, RangeOf(info.positions_offset, info.positions_len)), rows)
    ELSE {[i \in DOMAIN rows |-> <<>>]}

DecodedTerm(term, rows, lists) ==
    [path |-> TermPath(term), rows |-> ToSet(rows),
     at |-> UNION {{<<rows[i], p>> : p \in ToSet(lists[i])} : i \in DOMAIN rows}]

GroupTerm(group, n, positions) ==
    UNION {{DecodedTerm(group.terms[n], rows, lists) :
              lists \in ListsOfTerm(group, group.infos[n], rows, positions)} :
             rows \in RowsOfTerm(group, group.infos[n])}

\* The terms a lookup finds in the groups that may hold them.
FoundTerms(groups, l) ==
    UNION {UNION {{t \in GroupTerm(group, n, l.positions) :
                     l.field = None \/ MatchesPath(l.field, t.path)} :
                    n \in {k \in DOMAIN group.terms : TermMatches(group.terms[k], l)}} :
             group \in {g \in ToSet(groups) : GroupMayHold(g, l)}}

\* rows_for_phrase: the tokens at successive positions of one path of one row; a
\* phrase of one token needs no positions.
OccurrencesOf(terms) == UNION {{<<a[1], t.path, a[2]>> : a \in t.at} : t \in terms}

RowsInSequence(found) ==
    {o[1] : o \in {x \in OccurrencesOf(found[1]) : \A i \in DOMAIN found :
                      \E t \in found[i] : t.path = x[2] /\ <<x[1], x[3] + i - 1>> \in t.at}}

RowsForPhrase(found) ==
    IF Len(found) = 1 THEN UNION {t.rows : t \in found[1]} ELSE RowsInSequence(found)

PhraseTerms(index, field, phrase) ==
    [i \in DOMAIN phrase |-> FoundTerms(index.values, ValueLookup(field, phrase[i], Len(phrase) > 1))]

\* rows_for_query: a term is a phrase of one token.
RowsOfAll(required) ==
    IF required = {} THEN {} ELSE {row \in UNION required : \A rows \in required : row \in rows}

RowsForQuery(index, field, q) ==
    RowsOfAll({RowsForPhrase(PhraseTerms(index, field, phrase)) :
                 phrase \in {<<t>> : t \in q.terms} \cup q.phrases})

RowsForAtom(index, p) ==
    IF p.is = "text" THEN RowsForQuery(index, p.field, p.query)
    ELSE UNION {t.rows : t \in IF p.is = "key" THEN FoundTerms(index.keys, KeyLookup(p.pattern))
                               ELSE FoundTerms(index.values,
                                               ValueLookup(p.field, ExactValueToken(p.text), FALSE))}

Combine(is, row_count, kids) ==
    IF is = "and" THEN {row \in 0..(row_count - 1) : \A rows \in kids : row \in rows}
    ELSE IF is = "or" THEN UNION kids
    ELSE 0..(row_count - 1) \ UNION kids

RECURSIVE MatchingRows(_, _)
MatchingRows(index, p) ==
    IF p.is \in {"and", "or", "not"}
    THEN Combine(p.is, index.row_count,
                 {MatchingRows(index, kid) : kid \in IF p.is = "not" THEN {p.kid} ELSE ToSet(p.kids)})
    ELSE RowsForAtom(index, p)

----------------------------------------------------------------------------
\* A writer stores the index of a segment; a query reads it in three requests, each
\* of which may fail, and evaluates its predicate.

NoDirectory == [row_count |-> 0, keys |-> <<>>, values |-> <<>>]

NoDictionaries == [kind \in Kinds |-> <<>>]

SearchReset ==
    /\ file = <<>> /\ pc = "write" /\ directory = NoDirectory
    /\ dictionaries = NoDictionaries /\ loaded = NoDirectory /\ hits = {}

\* build_search_index and encode_search_index, on the way of a segment to the store.
WriteIndex ==
    /\ pc = "write"
    /\ file' = EncodeSearchIndex(BuildSearchIndex(records))
    /\ pc' = "plan"
    /\ UNCHANGED <<records, predicate, directory, dictionaries, loaded, hits>>

\* A segment written before there were search indexes has none.
WriteNoIndex ==
    /\ pc = "write"
    /\ pc' = "plan"
    /\ UNCHANGED <<records, predicate, file, directory, dictionaries, loaded, hits>>

ReadDirectory ==
    /\ pc = "directory" /\ file # <<>>
    /\ directory' = LoadDirectory(file)
    /\ pc' = "dictionaries"
    /\ UNCHANGED <<records, predicate, file, dictionaries, loaded, hits>>

ReadDictionaries ==
    /\ pc = "dictionaries"
    /\ dictionaries' = LoadDictionaries(file, directory, SelectGroups(directory, predicate))
    /\ pc' = "terms"
    /\ UNCHANGED <<records, predicate, file, directory, loaded, hits>>

ReadTerms ==
    /\ pc = "terms"
    /\ loaded' = LoadTerms(file, directory, dictionaries, SelectTerms(dictionaries, predicate))
    /\ pc' = "match"
    /\ UNCHANGED <<records, predicate, file, directory, dictionaries, hits>>

Match ==
    /\ pc = "match"
    /\ hits' = MatchingRows(loaded, predicate)
    /\ pc' = "matched"
    /\ UNCHANGED <<records, predicate, file, directory, dictionaries, loaded>>

\* There is no index, its object is gone or the store fails: the query fails.
ReadFails ==
    /\ pc \in {"directory", "dictionaries", "terms"}
    /\ pc' = "failed"
    /\ UNCHANGED <<records, predicate, file, directory, dictionaries, loaded, hits>>

SearchStep == \/ WriteIndex \/ WriteNoIndex \/ ReadDirectory \/ ReadDictionaries \/ ReadTerms \/ Match \/ ReadFails
============================================================================
