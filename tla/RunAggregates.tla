--------------------------- MODULE RunAggregates ---------------------------
(***************************************************************************)
(* How runs are aggregated.  An aggregate query of a dashboard's shape is  *)
(* answered from rollups; any other plans in Postgres, reads the segments  *)
(* in partitions, loads tags and feedback, and groups what it has read.    *)
(* The rollups of runs are rewritten in the transaction of every write     *)
(* (DerivedTables interleaves those); the rollups of feedback by           *)
(* insert_feedback, whose statements commit one by one.                    *)
(***************************************************************************)
EXTENDS Integers, Sequences, FiniteSets, FiniteSetsExt, SequencesExt

CONSTANTS Projects,  \* a sequence: project names in their order
          Runs,      \* run keys: project, trace and span
          Records,   \* versions of runs that may be written
          Worlds,    \* what may be stored at first: sequences of segments
          Feedback,  \* feedback records that may be sent
          Callers,   \* calls of insert_feedback that may overlap
          Queries,   \* what a client may ask
          Bucket,    \* AGGREGATE_ROLLUP_BUCKET_UNIX_NANOS
          Chunk,     \* segments to a partition, or to a batch on one node
          Bounds,    \* bounds on the numbers of changes, calls and queries
          None       \* no value

\* tokens stands for the metrics of tokens and costs; run_id is chosen by clients.
Record == [run : Runs, run_id : STRING, project : Range(Projects), start : Int, type : STRING,
           error : BOOLEAN, model : STRING \cup {None}, latency : Nat, first_token : Nat \cup {None},
           tokens : Nat \cup {None}, score : Nat \cup {None}, tags : SUBSET STRING]

\* A row of the feedback table; a score is counted in quarters.
FeedbackRecord == [id : Nat, run_id : STRING, project : Range(Projects) \cup {None}, key : STRING,
                   score : Int \cup {None}, created : Int]

\* RunAggregateQuery: filters, groups, the size of a time bucket, the feedback keys;
\* max_segments stands for the limits of a plan.
Query == [projects : SUBSET STRING, min : Int \cup {None}, max : Int \cup {None},
          type : STRING \cup {None}, error : BOOLEAN \cup {None}, model : STRING \cup {None},
          include_deleted : BOOLEAN, group_by : Seq(STRING), size : Int \cup {None},
          keys : SUBSET STRING, max_segments : Nat \cup {None}]

\* An average, kept as its sum and count, and the statistics that rollups and scans give.
Measure ==
  (Int \X Nat) \cup [count : Nat, sum : Int \cup (Int \X Nat), avg : Int \X Nat]
    \cup [count : Nat, sum : Int, avg : Int \X Nat, min : Int, max : Int,
          p50 : Int \cup {None}, p95 : Int \cup {None}, p99 : Int \cup {None}]

\* The versions of runs that there can be.
Versions == Records \cup UNION {UNION {Range(w[s]) : s \in DOMAIN w} : w \in Worlds}

ASSUME RunAggregatesAssumption ==
  /\ Bucket \in Nat \ {0} /\ Chunk \in Nat \ {0}
  /\ Projects \in Seq(STRING)
  /\ Records \subseteq Record /\ Worlds \subseteq Seq(Seq(Record))
  /\ Feedback \subseteq FeedbackRecord
  /\ Queries \subseteq Query
  /\ None \notin Int /\ None \notin STRING /\ None \notin BOOLEAN
  /\ None \notin [seg : Nat, row : Nat] /\ None \notin Measure
  /\ IsFiniteSet(Runs) /\ \A rec \in Versions : IsFiniteSet(rec.tags)
  \* The key of a run has its project.
  /\ \A a, b \in Versions : a.run = b.run => a.project = b.project
  \* parse_group_by keeps no group twice.
  /\ \A query \in Queries : Cardinality(Range(query.group_by)) = Len(query.group_by)

VARIABLES segments,          \* the rows of each segment, and whether its objects exist
          heads,             \* run_heads: the segment and row of a run's version, or None
          deletions,         \* runs with a row in run_deletions
          run_tags,          \* the tags of each run
          rollups,           \* run_metric_rollups
          feedback,          \* the feedback table: rows with distinct ids
          feedback_rollups,  \* feedback_metric_rollups
          calls,             \* insert_feedback of each caller
          q,                 \* the aggregate query in progress
          left,              \* how many changes, calls and queries may still come
          lone,              \* history: callers that no other call has overlapped
          planned            \* history: the rows that matched when the query was planned

store == <<segments, heads, deletions, run_tags, rollups>>
scores == <<feedback, feedback_rollups, calls, lone>>
vars == <<store, scores, q, left, planned>>

----------------------------------------------------------------------------
(* Measures: statistics of the values of a function. *)

CeilDiv(a, b) == (a + b - 1) \div b

\* percentile and percentile_i64: the value at an index of the sorted values,
\* which is the one that this many others precede.
Percentile(f, p) ==
  LET n == Cardinality(DOMAIN f)
      index == Min({CeilDiv((n - 1) * p, 100), n - 1})
  IN  CHOOSE v \in Range(f) :
        /\ Cardinality({x \in DOMAIN f : f[x] < v}) =< index
        /\ index < Cardinality({x \in DOMAIN f : f[x] =< v})

Known(f) == [x \in {y \in DOMAIN f : f[y] # None} |-> f[x]]

Total(f) == MapThenSumSet(LAMBDA x : f[x], DOMAIN f)

\* An average is kept as its sum and count.
Average(f) == IF DOMAIN f = {} THEN None ELSE <<Total(f), Cardinality(DOMAIN f)>>

\* SummaryAccumulator.
NumericStats(f, percentiles) ==
  LET known == Known(f)
      P(p) == IF percentiles THEN Percentile(known, p) ELSE None
  IN  IF DOMAIN known = {} THEN None
      ELSE [count |-> Cardinality(DOMAIN known), sum |-> Total(known), avg |-> Average(known),
            min |-> Min(Range(known)), max |-> Max(Range(known)),
            p50 |-> P(50), p95 |-> P(95), p99 |-> P(99)]

\* feedback_distribution and, with those that have no score, feedback_distribution_json;
\* scores are counted in quarters.
Band(s) == IF s = None THEN "missing" ELSE IF s < 0 THEN "lt_0" ELSE IF s > 4 THEN "gt_1"
           ELSE <<"0_to_0_25", "0_25_to_0_5", "0_5_to_0_75", "0_75_to_1">>[Min({s, 3}) + 1]

Distribution(S) ==
  [b \in {Band(f.score) : f \in S} |-> Cardinality({f \in S : Band(f.score) = b})]

\* FeedbackScoreStats::from_summary, and the statistics of a feedback rollup.
FeedbackStats(S) ==
  [stats |-> NumericStats([f \in S |-> f.score], TRUE), distribution |-> Distribution(S)]

\* time_bucket and rollup_time_bucket; \div rounds down, as div_euclid does.
BucketOf(time, size) == (time \div size) * size

----------------------------------------------------------------------------
(* Rollups of runs. *)

RowOf(h) == segments[h.seg].rows[h.row]
Visible(r) == heads[r] # None /\ r \notin deletions
LiveRecords == {RowOf(heads[r]) : r \in {x \in Runs : Visible(x)}}

Or(value, default) == IF value = None THEN default ELSE value
Text(bool) == IF bool THEN "true" ELSE "false"

GroupValue(kind, rec) ==
  CASE kind = "project" -> rec.project
    [] kind = "run_type" -> rec.type
    [] kind = "model" -> Or(rec.model, "unknown")
    [] kind = "error" -> Text(rec.error)

Errors(S) == Cardinality({rec \in S : rec.error})

\* RollupAccumulator.
RollupStats(S) ==
  LET tokens == Known([rec \in S |-> rec.tokens])
  IN  [run_count |-> Cardinality(S), error_count |-> Errors(S),
       latency |-> NumericStats([rec \in S |-> rec.latency], TRUE),
       tokens_sum |-> IF DOMAIN tokens = {} THEN None ELSE Total(tokens),
       tokens_avg |-> Average(tokens),
       score_avg |-> Average(Known([rec \in S |-> rec.score]))]

\* refresh_project_aggregate_rollups, for the runs of a project.
RollupRows(project, recs) ==
  UNION {LET key(rec) == <<BucketOf(rec.start, Bucket), GroupValue(kind, rec)>>
         IN  {[project |-> project, kind |-> kind, bucket |-> k[1], value |-> k[2],
               stats |-> RollupStats({rec \in recs : key(rec) = k})] : k \in {key(rec) : rec \in recs}}
         : kind \in {"project", "run_type", "model", "error"}}

\* The refresh in the transaction of a write or delete in the project.
Refreshed(project) ==
  {row \in rollups : row.project # project}
    \cup RollupRows(project, {rec \in LiveRecords' : rec.project = project})

----------------------------------------------------------------------------
(* Answers from rollups. *)

Groups(query) == Range(query.group_by)

\* rollup_kind.
RollupKind(query) ==
  LET rest == Groups(query) \ {"project", "time_bucket"}
  IN  IF ~({"project", "time_bucket"} \subseteq Groups(query)) THEN None
      ELSE IF rest = {} THEN "project"
      ELSE IF Cardinality(rest) = 1 /\ rest \subseteq {"run_type", "model", "error", "feedback_key"}
           THEN CHOOSE g \in rest : TRUE
      ELSE None

\* rollup_filters_are_exact.
RollupFiltersAreExact(query) ==
  /\ query.error # None => RollupKind(query) = "error"
  /\ query.type # None => RollupKind(query) = "run_type"

\* Variant: the upper limit, which is inclusive, must be the start of a bucket.
CoverToTheStartOfABucket(query) ==
  /\ query.min = None \/ query.min % Bucket = 0
  /\ query.max = None \/ query.max % Bucket = 0

\* time_filters_cover_whole_rollup_buckets: both limits are inclusive.
TimeFiltersCoverWholeRollupBuckets(query) ==
  /\ query.min = None \/ query.min % Bucket = 0
  /\ query.max = None \/ (query.max + 1) % Bucket = 0

\* rollup_eligible; model stands for the three filter expressions.
RollupEligible(query) ==
  /\ RollupKind(query) # None
  /\ query.model = None /\ ~query.include_deleted
  /\ query.size = Bucket
  /\ RollupFiltersAreExact(query)
  /\ TimeFiltersCoverWholeRollupBuckets(query)

\* The predicates that rollup_sql has for both tables.
RollupInRange(query, row) ==
  /\ row.project \in query.projects
  /\ query.min = None \/ row.bucket >= query.min
  /\ query.max = None \/ row.bucket =< query.max

\* Names of groups in an answer go with their values.
GroupOf(query, row, value) ==
  [g \in Groups(query) |->
     CASE g = "project" -> row.project [] g = "time_bucket" -> row.bucket [] OTHER -> value]

\* rollup_numeric: the count is that of the runs, with a value or without.
RollupNumeric(sum, avg, count) ==
  IF sum = None /\ avg = None THEN None ELSE [count |-> count, sum |-> sum, avg |-> avg]

\* run_rollup_row.
RunRollupRow(query, row) ==
  LET s == row.stats
  IN  [group |-> GroupOf(query, row, row.value), count |-> s.run_count,
       error_count |-> s.error_count, latency |-> s.latency, first_token |-> None,
       tokens |-> RollupNumeric(s.tokens_sum, s.tokens_avg, s.run_count),
       score |-> IF s.score_avg = None THEN None
                 ELSE [count |-> s.run_count, avg |-> s.score_avg,
                       sum |-> <<s.score_avg[1] * s.run_count, s.score_avg[2]>>],
       feedback |-> <<>>]

\* feedback_rollup_row.
FeedbackRollupRow(query, row) ==
  [group |-> GroupOf(query, row, row.key), count |-> row.count, error_count |-> 0,
   latency |-> None, first_token |-> None, tokens |-> None, score |-> None,
   feedback |-> [k \in {row.key} |-> row.stats]]

\* rollup_sql and the rows made of its result.
RollupAnswer(query) ==
  IF RollupKind(query) = "feedback_key"
  THEN {FeedbackRollupRow(query, row) : row \in
          {x \in feedback_rollups : /\ RollupInRange(query, x)
                                    /\ query.keys = {} \/ x.key \in query.keys}}
  ELSE {RunRollupRow(query, row) : row \in
          {x \in rollups : /\ RollupInRange(query, x) /\ x.kind = RollupKind(query)
                           /\ query.type = None \/ x.value = query.type
                           /\ query.error = None \/ x.value = Text(query.error)}}

----------------------------------------------------------------------------
(* Answers from segments. *)

\* run_query_predicates, on a head or on a row of a segment.
FieldsMatch(query, rec) ==
  /\ rec.project \in query.projects
  /\ query.min = None \/ rec.start >= query.min
  /\ query.max = None \/ rec.start =< query.max
  /\ query.type \in {None, rec.type}
  /\ query.error = None \/ query.error = rec.error
  /\ query.model \in {None, rec.model}

\* The heads that load_run_query_plan finds.
Candidates(query) ==
  {heads[r] : r \in {x \in Runs : /\ heads[x] # None
                                  /\ query.include_deleted \/ Visible(x)
                                  /\ FieldsMatch(query, RowOf(heads[x]))}}

\* expand_group_variants, for the groups with one value.
ValueOf(query, g, rec) ==
  CASE g = "project" -> rec.project
    [] g = "time_bucket" -> BucketOf(rec.start, query.size)
    [] g = "run_type" -> rec.type
    [] g = "model" -> Or(rec.model, "unknown")
    [] g = "error" -> Text(rec.error)

\* group_variants of a run: the groups it counts in, each with the scores that it
\* brings there.  Every tag is a variant of its own and, grouped by feedback key,
\* every score.
GroupVariants(query, rec, tags, given) ==
  LET mine == {f \in given : f.run = rec.run /\ (query.keys = {} \/ f.key \in query.keys)}
      tagged == IF "tag" \in Groups(query) /\ tags[rec.run] # {} THEN tags[rec.run]
                ELSE {"untagged"}
      Group(t, key) == [g \in Groups(query) |-> CASE g = "tag" -> t [] g = "feedback_key" -> key
                                                   [] OTHER -> ValueOf(query, g, rec)]
  IN  IF "feedback_key" \in Groups(query)
      THEN {[rec |-> rec, group |-> Group(t, f.key), feedback |-> {f}] : t \in tagged, f \in mine}
      ELSE {[rec |-> rec, group |-> Group(t, None),
             feedback |-> IF query.keys = {} THEN {} ELSE mine] : t \in tagged}

\* AggregateAccumulator: a row of the answer, of the variants with one group.
Accumulated(group, S) ==
  LET given == UNION {{[id |-> f.id, rec |-> v.rec, key |-> f.key, score |-> f.score]
                         : f \in v.feedback} : v \in S}
  IN  [group |-> group, count |-> Cardinality(S), error_count |-> Cardinality({v \in S : v.rec.error}),
       latency |-> NumericStats([v \in S |-> v.rec.latency], TRUE),
       first_token |-> NumericStats([v \in S |-> v.rec.first_token], TRUE),
       tokens |-> NumericStats([v \in S |-> v.rec.tokens], FALSE),
       score |-> NumericStats([v \in S |-> v.rec.score], FALSE),
       feedback |-> [k \in {f.key : f \in given} |-> FeedbackStats({f \in given : f.key = k})]]

\* aggregate_rows.
AggregateRows(query, recs, tags, given) ==
  LET variants == UNION {GroupVariants(query, rec, tags, given) : rec \in recs}
  IN  {Accumulated(g, {v \in variants : v.group = g}) : g \in {v.group : v \in variants}}

----------------------------------------------------------------------------
(* An aggregate query. *)

Idle == [pc |-> "idle", query |-> None, distributed |-> FALSE, rows |-> {}, todo |-> {},
         read |-> {}, tags |-> <<>>, given |-> {}, failed |-> FALSE, source |-> None, answer |-> {}]

Running == q.pc \notin {"idle", "answered", "error"}

\* validate_aggregate_query.
Valid(query) == query.projects # {} /\ ("time_bucket" \in Groups(query) => Or(query.size, 0) > 0)

\* aggregate_runs or aggregate_runs_distributed.
Ask ==
  /\ ~Running /\ left.queries > 0
  /\ left' = [left EXCEPT !.queries = @ - 1]
  /\ \E query \in Queries, distributed \in BOOLEAN :
       q' = [Idle EXCEPT !.query = query, !.distributed = distributed,
                         !.pc = IF Valid(query) THEN "rollup" ELSE "error"]
  /\ UNCHANGED <<store, scores, planned>>

\* try_rollup_aggregate.
TryRollup ==
  /\ q.pc = "rollup"
  /\ q' = IF RollupEligible(q.query)
          THEN [q EXCEPT !.pc = "answered", !.answer = RollupAnswer(q.query),
                         !.source = IF RollupKind(q.query) = "feedback_key" THEN "feedback_rollup"
                                    ELSE "rollup"]
          ELSE [q EXCEPT !.pc = "plan"]
  /\ UNCHANGED <<store, scores, left, planned>>

\* plan_aggregate_partitions, or the batches of load_aggregate_rows_with_datafusion.
Partitions(segs) ==
  LET place(s) == Cardinality({t \in segs : t < s}) \div Chunk
  IN  {{s \in segs : place(s) = i} : i \in {place(s) : s \in segs}}

\* load_run_query_plan with its limits (max_segments stands for them and for those of
\* the workers), and the split into partitions.  All segments have metric columns.
Plan ==
  /\ q.pc = "plan"
  /\ LET rows == Candidates(q.query)
         segs == {h.seg : h \in rows}
     IN  q' = IF q.query.max_segments # None /\ Cardinality(segs) > q.query.max_segments
              THEN [q EXCEPT !.pc = "error"]
              ELSE [q EXCEPT !.pc = "read", !.rows = rows, !.todo = Partitions(segs)]
  /\ planned' = {RowOf(h) : h \in Candidates(q.query)}
  /\ UNCHANGED <<store, scores, left>>

\* Variant: rows are chosen by the keys of the candidates and not by their row_index.
RowsByKey(part) ==
  {rec \in UNION {Range(segments[s].rows) : s \in part} :
     rec.run \in {RowOf(h).run : h \in q.rows} /\ FieldsMatch(q.query, rec)}

\* aggregate_datafusion_sql for the segments of a partition: their candidate rows,
\* filtered once more by their columns.
AggregateRunRows(part) ==
  {rec \in {RowOf(h) : h \in {x \in q.rows : x.seg \in part}} : FieldsMatch(q.query, rec)}

\* execute_aggregate_partition.  The partitions of a distributed query come in any
\* order and a failure is noticed at the end; one node goes through its batches in
\* order and stops.
ReadPartition ==
  /\ q.pc = "read"
  /\ \E part \in q.todo :
       /\ q.distributed \/ \A other \in q.todo : Min(part) =< Min(other)
       /\ q' = IF \A s \in part : segments[s].object
               THEN [q EXCEPT !.todo = @ \ {part}, !.read = @ \cup AggregateRunRows(part)]
               ELSE IF q.distributed THEN [q EXCEPT !.todo = @ \ {part}, !.failed = TRUE]
               ELSE [q EXCEPT !.pc = "error"]
  /\ UNCHANGED <<store, scores, left, planned>>

\* load_tags, for the runs of the plan, when they are asked for.
LoadTags ==
  /\ q.pc = "read" /\ q.todo = {}
  /\ q' = IF q.failed THEN [q EXCEPT !.pc = "error"]
          ELSE [q EXCEPT !.pc = "feedback",
                         !.tags = IF "tag" \in Groups(q.query) THEN run_tags ELSE <<>>]
  /\ UNCHANGED <<store, scores, left, planned>>

\* load_feedback_scores: by the run_ids that the heads of the rows have now.
Given(query, recs) ==
  LET scored(rec) == {f \in feedback : /\ f.run_id = RowOf(heads[rec.run]).run_id
                                       /\ f.score # None /\ f.project \in {None, rec.project}
                                       /\ query.keys = {} \/ f.key \in query.keys}
  IN  UNION {{[run |-> rec.run, id |-> f.id, key |-> f.key, score |-> f.score] : f \in scored(rec)}
             : rec \in recs}

\* They are loaded when they are grouped by or asked for, ...
FeedbackFor(query, recs) ==
  IF "feedback_key" \in Groups(query) \/ query.keys # {} THEN Given(query, recs) ELSE {}

\* ... and the rows are grouped.
LoadFeedbackAndGroup ==
  /\ q.pc = "feedback"
  /\ LET given == FeedbackFor(q.query, q.read)
     IN  q' = [q EXCEPT !.pc = "answered", !.source = "vortex", !.given = given,
                        !.answer = AggregateRows(q.query, q.read, q.tags, given)]
  /\ UNCHANGED <<store, scores, left, planned>>

\* The wall clock limit, a cancellation, a lost connection or a failed read.
QueryFails ==
  /\ Running
  /\ q' = [q EXCEPT !.pc = "error"]
  /\ UNCHANGED <<store, scores, left, planned>>

----------------------------------------------------------------------------
(* Changes of the store. *)

Changed ==
  /\ left.changes > 0
  /\ left' = [left EXCEPT !.changes = @ - 1]
  /\ UNCHANGED <<scores, q, planned>>

\* persist_segment: a version of a run, its head, its tags and its project's rollups.
WriteRun ==
  /\ \E rec \in Records :
       /\ segments' = Append(segments, [rows |-> <<rec>>, object |-> TRUE])
       /\ heads' = [heads EXCEPT ![rec.run] = [seg |-> Len(segments) + 1, row |-> 1]]
       /\ deletions' = deletions
       /\ run_tags' = [run_tags EXCEPT ![rec.run] = rec.tags]
       /\ rollups' = Refreshed(rec.project)
  /\ Changed

\* delete_run_in_tx; the tags stay.
DeleteRun ==
  /\ \E r \in {x \in Runs : Visible(x)} :
       /\ deletions' = deletions \cup {r}
       /\ UNCHANGED <<segments, heads, run_tags>>
       /\ rollups' = Refreshed(RowOf(heads[r]).project)
  /\ Changed

\* The objects of a segment that no run needs any more are cleaned up (TraceStore
\* has the compaction before that).
CleanUp ==
  /\ \E s \in DOMAIN segments :
       /\ segments[s].object /\ \A r \in Runs : heads[r] = None \/ heads[r].seg # s
       /\ segments' = [segments EXCEPT ![s].object = FALSE]
  /\ UNCHANGED <<heads, deletions, run_tags, rollups>>
  /\ Changed

----------------------------------------------------------------------------
(* insert_feedback: every statement commits by itself. *)

NoCall == [pc |-> "idle", sent |-> None, old |-> {}, todo |-> {}, rows |-> {}]
Calling(c) == calls[c].pc \notin {"idle", "ok", "error"}

At(c, pc) == calls[c].pc = pc /\ UNCHANGED <<store, q, planned, left, lone>>

BeginFeedback(c) ==
  /\ ~Calling(c) /\ left.calls > 0
  /\ left' = [left EXCEPT !.calls = @ - 1]
  /\ \E sent \in Feedback : calls' = [calls EXCEPT ![c] = [NoCall EXCEPT !.pc = "old", !.sent = sent]]
  /\ lone' = IF \E d \in Callers : Calling(d) THEN {} ELSE {c}
  /\ UNCHANGED <<store, q, planned, feedback, feedback_rollups>>

\* The row's old project is read ...
LoadOldProject(c) ==
  /\ At(c, "old")
  /\ calls' = [calls EXCEPT ![c].pc = "upsert",
                            ![c].old = {f.project : f \in {x \in feedback : x.id = calls[c].sent.id}}]
  /\ UNCHANGED <<feedback, feedback_rollups>>

\* Variant: only the project that was sent is refreshed.
ProjectsSent(call) == {call.sent.project} \ {None}

\* affected_projects: where the feedback was, and where it is.
AffectedProjects(call) == (call.old \cup {call.sent.project}) \ {None}

\* ... and then the row is written; created_at of a row that was there stays.
UpsertFeedback(c) ==
  /\ At(c, "upsert")
  /\ LET sent == calls[c].sent
         was == {f \in feedback : f.id = sent.id}
         row == IF was = {} THEN sent
                ELSE [sent EXCEPT !.created = (CHOOSE f \in was : TRUE).created]
     IN  feedback' = (feedback \ was) \cup {row}
  /\ calls' = [calls EXCEPT ![c].pc = "delete",
                            ![c].todo = AffectedProjects(calls[c])]
  /\ UNCHANGED feedback_rollups

\* The projects are a BTreeSet, taken in their order.
NextProject(c) == Projects[Min({i \in DOMAIN Projects : Projects[i] \in calls[c].todo})]

\* refresh_feedback_metric_rollups of the next project deletes its rows, ...
DeleteFeedbackRollups(c) ==
  /\ At(c, "delete")
  /\ IF calls[c].todo = {}
     THEN calls' = [calls EXCEPT ![c].pc = "ok"] /\ UNCHANGED feedback_rollups
     ELSE /\ calls' = [calls EXCEPT ![c].pc = "select"]
          /\ feedback_rollups' = {row \in feedback_rollups : row.project # NextProject(c)}
  /\ UNCHANGED feedback

\* (FeedbackRollupAccumulator)
FeedbackRollupRows(project) ==
  LET mine == {f \in feedback : f.project = project}
      key(f) == <<BucketOf(f.created, Bucket), f.key>>
  IN  {LET S == {f \in mine : key(f) = k}
       IN  [project |-> project, bucket |-> k[1], key |-> k[2], count |-> Cardinality(S),
            stats |-> FeedbackStats(S)] : k \in {key(f) : f \in mine}}

\* ... reads the project's feedback, ...
SelectFeedback(c) ==
  /\ At(c, "select")
  /\ calls' = [calls EXCEPT ![c].pc = "insert", ![c].rows = FeedbackRollupRows(NextProject(c))]
  /\ UNCHANGED <<feedback, feedback_rollups>>

\* ... and inserts a row for each group; one that is there again makes the call fail.
InsertFeedbackRollup(c) ==
  /\ At(c, "insert")
  /\ IF calls[c].rows = {}
     THEN /\ calls' = [calls EXCEPT ![c].pc = "delete", ![c].todo = @ \ {NextProject(c)}]
          /\ UNCHANGED feedback_rollups
     ELSE \E row \in calls[c].rows :
            IF \E x \in feedback_rollups : /\ x.project = row.project /\ x.bucket = row.bucket
                                           /\ x.key = row.key
            THEN calls' = [calls EXCEPT ![c].pc = "error"] /\ UNCHANGED feedback_rollups
            ELSE /\ calls' = [calls EXCEPT ![c].rows = @ \ {row}]
                 /\ feedback_rollups' = feedback_rollups \cup {row}
  /\ UNCHANGED feedback

\* The connection is lost, or the server stops.
FeedbackFails(c) ==
  /\ Calling(c)
  /\ calls' = [calls EXCEPT ![c].pc = "error"]
  /\ UNCHANGED <<store, q, planned, left, lone, feedback, feedback_rollups>>

----------------------------------------------------------------------------

\* A head is the last version that was written; the rollups are those of the heads.
Init ==
  /\ \E w \in Worlds :
       LET at(r) == {h \in [seg : DOMAIN w, row : 1..2] :
                       h.row \in DOMAIN w[h.seg] /\ w[h.seg][h.row].run = r}
           head(r) == CHOOSE h \in at(r) : \A g \in at(r) : g.seg =< h.seg
           there == {r \in Runs : at(r) # {}}
           now == {w[head(r).seg][head(r).row] : r \in there}
       IN  /\ segments = [s \in DOMAIN w |-> [rows |-> w[s], object |-> TRUE]]
           /\ heads = [r \in Runs |-> IF r \in there THEN head(r) ELSE None]
           /\ run_tags = [r \in Runs |-> UNION {rec.tags : rec \in {x \in now : x.run = r}}]
           /\ rollups = UNION {RollupRows(p, {rec \in now : rec.project = p}) : p \in Range(Projects)}
  /\ deletions = {} /\ feedback = {} /\ feedback_rollups = {}
  /\ calls = [c \in Callers |-> NoCall]
  /\ q = Idle /\ lone = {} /\ planned = {}
  /\ left \in Bounds

QueryStep == Ask \/ TryRollup \/ Plan \/ ReadPartition \/ LoadTags \/ LoadFeedbackAndGroup \/ QueryFails
StoreStep == WriteRun \/ DeleteRun \/ CleanUp
FeedbackStep(c) ==
  \/ BeginFeedback(c) \/ LoadOldProject(c) \/ UpsertFeedback(c) \/ DeleteFeedbackRollups(c)
  \/ SelectFeedback(c) \/ InsertFeedbackRollup(c) \/ FeedbackFails(c)

Next == QueryStep \/ StoreStep \/ \E c \in Callers : FeedbackStep(c)

Spec == Init /\ [][Next]_vars

----------------------------------------------------------------------------
(* Properties. *)

\* What a rollup and a scan both tell of a group.  A rollup has no minimum or maximum
\* of tokens and counts runs where a scan counts their values; it has no latency of
\* the first token; and of the scores that feedback_keys ask for it has none, which
\* rollup_eligible does not look at.
Common(row) ==
  [group |-> row.group, count |-> row.count, error_count |-> row.error_count,
   latency |-> row.latency, tokens |-> IF row.tokens = None THEN None ELSE <<row.tokens.sum, row.tokens.avg>>,
   score |-> IF row.score = None THEN None ELSE row.score.avg]

\* When rollup_eligible takes a query to the rollups, the rows are those that a scan
\* of the runs of that moment gives, with the same groups, counts, errors, latencies,
\* percentiles, sums and averages; for every way that runs are written and deleted.
\* The scan would tell more (Common): the latency of the first token always, and the
\* feedback scores where the query has feedback_keys, which the rollup's answer lacks.
RollupsAnswerLikeTheScan ==
  q.pc = "rollup" /\ RollupEligible(q.query) /\ RollupKind(q.query) # "feedback_key" =>
    LET matching == {RowOf(h) : h \in Candidates(q.query)}
    IN  {Common(row) : row \in RollupAnswer(q.query)}
          = {Common(row) : row \in
               AggregateRows(q.query, matching, run_tags, FeedbackFor(q.query, matching))}

\* Whatever is written, deleted or cleaned up meanwhile, a scan that answers has
\* counted every run of its plan once, and once for each of its tags or scores where
\* it groups by those; however the segments were split, and also when they hold
\* other versions of the run.
ScansCountThePlan ==
  q.pc = "answered" /\ q.source = "vortex" =>
    LET groups == Groups(q.query)
        \* The variants of a run, by its tags and by its scores.
        Tagged(rec) == IF "tag" \in groups THEN Max({1, Cardinality(q.tags[rec.run])}) ELSE 1
        Scored(rec) == IF "feedback_key" \in groups
                       THEN Cardinality({f \in q.given : f.run = rec.run}) ELSE 1
        Times(rec) == Tagged(rec) * Scored(rec)
    IN  /\ Total([row \in q.answer |-> row.count]) = Total([rec \in planned |-> Times(rec)])
        /\ Total([row \in q.answer |-> row.error_count])
             = Total([rec \in {x \in planned : x.error} |-> Times(rec)])

\* A call of insert_feedback that succeeds while no other is in progress leaves the
\* feedback rollups of every project it has touched as the feedback is, whatever
\* earlier calls that overlapped or broke off have left there; also of the project
\* that the feedback was in before.
LoneCallsLeaveTheRollupsRight ==
  \A c \in lone :
    calls[c].pc = "ok" =>
      \A p \in (calls[c].old \cup {calls[c].sent.project}) \ {None} :
        {row \in feedback_rollups : row.project = p} = FeedbackRollupRows(p)
=============================================================================
