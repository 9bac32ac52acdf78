----------------------------- MODULE RunQueries -----------------------------
(***************************************************************************)
(* How runs are listed.  A query plans in Postgres (candidate rows of      *)
(* run_heads, with LIMIT pushed down), narrows the candidates with the     *)
(* search indexes, reads their rows from the segments in batches or, when  *)
(* distributed, in partitions, and filters and pages what it has read.     *)
(* Nothing holds these steps together: between two of them runs are        *)
(* written, deleted, compacted, and objects are cleaned up.  A client of   *)
(* the LangSmith API walks from page to page by the cursor of each answer. *)
(***************************************************************************)
EXTENDS Naturals, Sequences, FiniteSets, FiniteSetsExt, SequencesExt

CONSTANTS Runs,       \* runs; numbers, in the order of their span ids
          Records,    \* versions of runs that may be written
          Worlds,     \* what may be stored at first: sequences of segments
          Queries,    \* what a client may ask
          Configs,    \* DistributedQueryConfig values that pass validation
          BatchSize,  \* MAX_DATAFUSION_SEGMENTS_PER_BATCH
          DefaultLimit, \* candidates allowed a page without limit: 1000
          MaxChanges, \* bound: changes of the store during a query
          None        \* no value

\* A row of a segment.  parent is a run or None; word stands for the payload.
Record == [run : Runs, start : Nat, kind : STRING, parent : Runs \cup {None}, word : STRING]

\* RunQuery, with its RunQueryLimits; cutoff is that of the retention.
Number == Nat \cup {None}
Query == [kind : STRING \cup {None}, since : Number, root : BOOLEAN \cup {None},
          word : STRING \cup {None}, cutoff : Number, limit : Number, offset : Nat,
          include_deleted : BOOLEAN, newest_first : BOOLEAN,
          max_runs : Number, max_segments : Number]

\* What validate_distributed_config lets pass.
Config == [workers : Nat \ {0}, per_partition : Nat \ {0}, in_flight : Nat \ {0},
           max_queued : Number, max_per_worker : Number]

ASSUME RunQueriesAssumption ==
  /\ Runs \subseteq Nat /\ IsFiniteSet(Runs)
  /\ Records \subseteq Record
  /\ Worlds \subseteq Seq(Seq(Records) \ {<<>>})
  /\ Queries \subseteq Query /\ Configs \subseteq Config
  /\ BatchSize \in Nat \ {0} /\ DefaultLimit \in Nat /\ MaxChanges \in Nat
  /\ None \notin Nat

VARIABLES segments,   \* rows, whether compacted, whether the objects exist, whether indexed
          heads,      \* run_heads: the segment and row of a run's version, or None
          deletions,  \* runs with a row in run_deletions
          changes,    \* changes of the store so far
          q,          \* the query in progress
          walk,       \* the client's walk: its request and the pages that it has
          cancelled,  \* the flag of DistributedQueryCancellation
          steady,     \* history: runs that matched since the walk began
          planned,    \* history: the rows that matched when the query was planned
          early       \* history: cancelled before the last partition began, or the last poll

store == <<segments, heads, deletions, changes>>
history == <<steady, planned, early>>
vars == <<segments, heads, deletions, changes, q, walk, cancelled, steady, planned, early>>

----------------------------------------------------------------------------
(* What a query means. *)

\* Where there are rows.
PlacesIn(segs) == UNION {[seg : {s}, row : DOMAIN segs[s].rows] : s \in DOMAIN segs}

RowOf(h) == segments[h.seg].rows[h.row]

Visible(r) == heads[r] # None /\ r \notin deletions

\* The is_root column of run_heads, as the refresh of the trace's tree leaves it:
\* a run whose parent is not there is a root.
RootColumn(r) == RowOf(heads[r]).parent = None \/ ~Visible(RowOf(heads[r]).parent)

\* run_query_predicates, but for is_root.
FieldsMatch(query, rec) ==
  /\ query.kind \in {None, rec.kind}
  /\ query.since = None \/ rec.start >= query.since

\* run_matches_retention_filter.
Retained(query, rec) == query.cutoff = None \/ rec.start >= query.cutoff

\* The run is what the query asks for, as run_head_where_sql reads the heads,
\* with the search predicate of its filter.
Wanted(query, r) ==
  /\ heads[r] # None
  /\ query.include_deleted \/ Visible(r)
  /\ ~segments[heads[r].seg].compacted
  /\ FieldsMatch(query, RowOf(heads[r])) /\ Retained(query, RowOf(heads[r]))
  /\ query.root \in {None, RootColumn(r)}

HasWord(query, rec) == query.word \in {None, rec.word}

\* ORDER BY start_time_unix_nano, span_id.
Before(query, a, b) ==
  IF a.start = b.start THEN a.run < b.run
  ELSE IF query.newest_first THEN a.start > b.start ELSE a.start < b.start

\* The i-th row is the one that i - 1 others precede.
Rank(query, rec, recs) == Cardinality({r \in recs : Before(query, r, rec)})

InOrder(query, recs) ==
  [i \in 1..Cardinality(recs) |-> CHOOSE rec \in recs : Rank(query, rec, recs) = i - 1]

Take(s, limit) == IF limit = None \/ limit >= Len(s) THEN s ELSE SubSeq(s, 1, limit)

\* page_datafusion_runs.
PageDatafusionRuns(query, recs) ==
  LET sorted == InOrder(query, recs)
  IN  Take(SubSeq(sorted, query.offset + 1, Len(sorted)), query.limit)

----------------------------------------------------------------------------
(* Steps of a query. *)

Idle == [pc |-> "idle", mode |-> "server", query |-> None, config |-> None,
         polling |-> FALSE, registered |-> FALSE, woken |-> FALSE, notified |-> FALSE,
         rows |-> {}, deleted |-> {}, todo |-> <<>>, running |-> {}, result |-> {},
         failed |-> FALSE, answer |-> <<>>]

Init ==
  /\ \E w \in Worlds, unindexed \in SUBSET {1} :
       segments = [s \in DOMAIN w |-> [rows |-> w[s], compacted |-> FALSE, object |-> TRUE,
                                       indexed |-> s \notin unindexed]]
  /\ heads = [r \in Runs |->
       LET mine == {h \in PlacesIn(segments) : RowOf(h).run = r}
       IN  IF mine = {} THEN None ELSE CHOOSE h \in mine : \A g \in mine : g.seg =< h.seg]
  /\ deletions = {}
  /\ changes = 0
  /\ q = Idle
  /\ walk = [state |-> "new", query |-> None, offset |-> 0, seen |-> <<>>]
  /\ cancelled = FALSE
  /\ steady = {}
  /\ planned = {}
  /\ early = FALSE

\* What a walk asks for: all runs, apart from the page.
WantedBy(query) == {r \in Runs : Wanted(query, r) /\ HasWord(query, RowOf(heads[r]))}

\* Variant: a page asks for just as many runs as it shows.
PageQueryWithoutOneMore(query, offset) ==
  [query EXCEPT !.offset = offset, !.newest_first = TRUE,
                !.max_runs = (IF query.limit = None THEN DefaultLimit ELSE query.limit) + offset + 1]

\* query_runs of the LangSmith API: a page asks for one run more than its limit,
\* newest first, and allows as many candidates.
PageQuery(query, offset) ==
  [query EXCEPT !.offset = offset, !.newest_first = TRUE,
                !.limit = IF @ = None THEN None ELSE @ + 1,
                !.max_runs = (IF query.limit = None THEN DefaultLimit ELSE query.limit) + offset + 1]

BeginWalk ==
  /\ walk.state = "new"
  /\ \E query \in Queries :
       /\ walk' = [walk EXCEPT !.state = "walking", !.query = query, !.offset = query.offset]
       /\ steady' = WantedBy(query)
  /\ UNCHANGED <<store, q, cancelled, planned, early>>

\* The next page of the API (which knows neither deleted runs nor cutoffs), a call
\* of list_runs (whose page is final), or one of list_runs_distributed_with_cancellation.
Ask ==
  /\ walk.state = "walking" /\ q.pc = "idle"
  /\ \/ /\ ~walk.query.include_deleted /\ walk.query.cutoff = None
        /\ q' = [Idle EXCEPT !.pc = "plan", !.query = PageQuery(walk.query, walk.offset)]
     \/ /\ walk.offset = walk.query.offset
        /\ q' = [Idle EXCEPT !.pc = "plan", !.mode = "list", !.query = walk.query]
     \/ /\ walk.offset = walk.query.offset
        /\ \E c \in Configs : q' = [Idle EXCEPT !.pc = "check", !.mode = "distributed",
                                                !.query = walk.query, !.config = c]
  /\ UNCHANGED <<store, walk, cancelled, history>>

Running == q.pc \notin {"idle", "answered", "error"}

\* The task of a distributed query steps only while it is being polled.
At(pc) == q.pc = pc /\ (q.mode = "distributed" => q.polling)

\* A poll begins.  The select looks first whether it was woken, and then ends with
\* that error; it does not look again before the poll returns.
Poll ==
  /\ q.mode = "distributed" /\ Running /\ ~q.polling
  /\ q' = IF q.woken THEN [q EXCEPT !.pc = "error"] ELSE [q EXCEPT !.polling = TRUE]
  /\ UNCHANGED <<store, walk, cancelled, history>>

\* cancelled(), in the first poll: the flag is tested, and only then is the task
\* registered; the select polls this before the query.
TestFlag ==
  /\ At("check")
  /\ q' = [q EXCEPT !.pc = IF cancelled THEN "error" ELSE "register"]
  /\ UNCHANGED <<store, walk, cancelled, history>>

\* notified().
Register ==
  /\ At("register")
  /\ q' = [q EXCEPT !.pc = "reject", !.registered = TRUE]
  /\ UNCHANGED <<store, walk, cancelled, history>>

\* The first reject_if_cancelled of list_runs_distributed_inner.
RejectIfCancelled ==
  /\ At("reject")
  /\ q' = [q EXCEPT !.pc = IF cancelled THEN "error" ELSE "plan"]
  /\ UNCHANGED <<store, walk, cancelled, history>>

\* Variant: the pushed-down LIMIT forgets the offset.
CandidatesOfOnePage(query) ==
  LET ordered == InOrder(query, {RowOf(heads[r]) : r \in {x \in Runs : Wanted(query, x)}})
      kept == IF query.word # None \/ query.limit \in {None, 0} THEN ordered
              ELSE Take(ordered, query.limit)
  IN  {heads[rec.run] : rec \in Range(kept)}

\* run_candidate_runs_sql: the heads that match, as many as the page needs.  A
\* search narrows them later, so then there is no LIMIT; nor when it would be 0.
Candidates(query) ==
  LET ordered == InOrder(query, {RowOf(heads[r]) : r \in {x \in Runs : Wanted(query, x)}})
      upto == IF query.limit = None THEN None ELSE query.limit + query.offset
      kept == IF query.word # None \/ upto \in {None, 0} THEN ordered ELSE Take(ordered, upto)
  IN  {heads[rec.run] : rec \in Range(kept)}

\* enforce_limits: max_candidate_runs waits for the search, when there is one.
WithinLimits(query, rows) ==
  /\ query.max_segments = None \/ Cardinality({h.seg : h \in rows}) =< query.max_segments
  /\ query.word # None \/ query.max_runs = None \/ Cardinality(rows) =< query.max_runs

\* load_run_query_plan.
Plan ==
  /\ At("plan")
  /\ LET rows == Candidates(q.query)
     IN  q' = IF WithinLimits(q.query, rows)
              THEN [q EXCEPT !.rows = rows,
                             !.pc = IF q.mode = "list" THEN "search" ELSE "deleted"]
              ELSE [q EXCEPT !.pc = "error"]
  /\ planned' = {RowOf(heads[r]) : r \in WantedBy(q.query)}
  /\ UNCHANGED <<store, walk, cancelled, steady, early>>

\* load_deleted_run_keys.  list_runs asks after the search, the others before it,
\* and a distributed query looks at its cancellation next.
LoadDeleted ==
  /\ At("deleted")
  /\ q' = IF q.mode = "distributed" /\ cancelled THEN [q EXCEPT !.pc = "error"]
          ELSE [q EXCEPT !.deleted = IF q.query.include_deleted THEN {} ELSE deletions,
                         !.pc = IF q.mode = "list" THEN "split" ELSE "search"]
  /\ UNCHANGED <<store, walk, cancelled, history>>

\* apply_phase6_search_indexes: every candidate segment needs its index object.
ApplySearchIndexes ==
  /\ At("search")
  /\ LET hits == {h \in q.rows : HasWord(q.query, RowOf(h))}
         usable == \A h \in q.rows : segments[h.seg].indexed /\ segments[h.seg].object
         next == [q EXCEPT !.pc = IF q.mode = "list" THEN "deleted" ELSE "split"]
     IN  q' = IF q.query.word = None THEN next
              ELSE IF usable /\ (q.query.max_runs = None \/ Cardinality(hits) =< q.query.max_runs)
                   THEN [next EXCEPT !.rows = hits]
                   ELSE [q EXCEPT !.pc = "error"]
  /\ UNCHANGED <<store, walk, cancelled, history>>

\* chunks() of the candidate segments, which are sorted by their uri.
Chunks(segs, size) ==
  LET before(s) == Cardinality({t \in segs : t < s})
      count == (Cardinality(segs) + size - 1) \div size
  IN  [i \in 1..count |-> {s \in segs : before(s) \div size = i - 1}]

\* The batches of query_segment_sources_with_datafusion_timed; or plan_partitions
\* with shed_if_overloaded, enforce_worker_budgets and a look at the cancellation.
Split ==
  /\ At("split")
  /\ LET segs == {h.seg : h \in q.rows}
         parts == Chunks(segs, q.config.per_partition)
         refused == \/ q.config.max_queued # None /\ Len(parts) > q.config.max_queued
                    \/ q.config.max_per_worker # None
                       /\ \E i \in DOMAIN parts : Cardinality(parts[i]) > q.config.max_per_worker
     IN  q' = IF q.mode # "distributed"
              THEN [q EXCEPT !.pc = "read", !.todo = Chunks(segs, BatchSize)]
              ELSE IF refused \/ cancelled THEN [q EXCEPT !.pc = "error"]
                   ELSE [q EXCEPT !.pc = "read", !.todo = parts]
  /\ UNCHANGED <<store, walk, cancelled, history>>

\* Variant: a run's row is looked up by its key, in the first segment that has one,
\* and not by its row_index.
ReadSegmentsByKey(segs) ==
  LET keys == {RowOf(h).run : h \in q.rows}
      found == {h \in PlacesIn(segments) : RowOf(h).run \in keys /\ \E x \in q.rows : x.seg = h.seg}
      first == {h \in found : \A g \in found : RowOf(g).run = RowOf(h).run => h.seg =< g.seg}
  IN  {rec \in {RowOf(h) : h \in {x \in first : x.seg \in segs}} : FieldsMatch(q.query, rec)}

\* segment_source_sql: the candidate rows of some segments, by their row_index.
SegmentRows(segs) == {RowOf(h) : h \in {x \in q.rows : x.seg \in segs}}

\* run_head_datafusion_sql for some segments: their candidate rows, filtered once
\* more by the columns of the rows, as many as the page and its offset need.
ReadSegments(segs) ==
  LET \* parent_span_id IS NULL AS is_root
      match == {rec \in SegmentRows(segs) : /\ FieldsMatch(q.query, rec)
                                            /\ q.query.root \in {None, rec.parent = None}}
      upto == IF q.query.limit = None THEN None ELSE q.query.limit + q.query.offset
  IN  Range(Take(InOrder(q.query, match), upto))

\* The objects of a segment are all there, or the read fails.
Readable(segs) == \A s \in segs : segments[s].object

\* Variant: segments that are gone are passed over.
ReadBatchThatIsLeft ==
  /\ At("read") /\ q.mode # "distributed" /\ q.todo # <<>>
  /\ q' = [q EXCEPT !.todo = Tail(@),
                    !.result = @ \cup ReadSegments({s \in Head(q.todo) : segments[s].object})]
  /\ UNCHANGED <<store, walk, cancelled, history>>

\* A query of one node reads its batches one after the other.
ReadBatch ==
  /\ At("read") /\ q.mode # "distributed" /\ q.todo # <<>>
  /\ LET batch == Head(q.todo)
     IN  q' = IF Readable(batch)
              THEN [q EXCEPT !.todo = Tail(@), !.result = @ \cup ReadSegments(batch)]
              ELSE [q EXCEPT !.pc = "error"]
  /\ UNCHANGED <<store, walk, cancelled, history>>

\* Variant: a place is kept for the coordinator, and none is left for a single worker.
PlacesBesideTheCoordinator(c) == Min({c.in_flight, c.workers}) - 1

WorkerLimit(c) == Max({1, Min({c.in_flight, c.workers})})

\* Variant: the partitions start without a look at the flag.
StartUnchecked ==
  /\ At("read") /\ q.mode = "distributed" /\ q.todo # <<>>
  /\ Cardinality(q.running) < WorkerLimit(q.config)
  /\ q' = [q EXCEPT !.running = @ \cup {Head(q.todo)}, !.todo = Tail(@)]
  /\ UNCHANGED <<store, walk, cancelled, history>>

\* buffer_unordered: the next partition begins when there is room, unless the
\* query was cancelled, which fails the partition and lets the others go on.
StartPartition ==
  /\ At("read") /\ q.mode = "distributed" /\ q.todo # <<>>
  /\ Cardinality(q.running) < WorkerLimit(q.config)
  /\ q' = [q EXCEPT !.todo = Tail(@),
                    !.running = IF cancelled THEN @ ELSE @ \cup {Head(q.todo)},
                    !.failed = @ \/ cancelled]
  /\ UNCHANGED <<store, walk, cancelled, history>>

\* execute_partition.
FinishPartition ==
  /\ At("read") /\ q.mode = "distributed"
  /\ \E p \in q.running :
       q' = [q EXCEPT !.running = @ \ {p},
                      !.result = IF Readable(p) THEN @ \cup ReadSegments(p) ELSE @,
                      !.failed = @ \/ ~Readable(p)]
  /\ UNCHANGED <<store, walk, cancelled, history>>

\* The filters that follow the read, in every mode.
KeepListed(recs) == {rec \in recs : rec.run \notin q.deleted /\ Retained(q.query, rec)}

Finished == q.todo = <<>> /\ q.running = {}

\* One node pages and then filters; the coordinator filters and then pages.
Answer ==
  /\ At("read") /\ Finished
  /\ LET paged == Range(PageDatafusionRuns(q.query, q.result))
         rows == IF q.mode = "distributed" THEN PageDatafusionRuns(q.query, KeepListed(q.result))
                 ELSE InOrder(q.query, KeepListed(paged))
     IN  q' = IF q.failed THEN [q EXCEPT !.pc = "error"]
              ELSE [q EXCEPT !.pc = "answered", !.answer = rows]
  /\ UNCHANGED <<store, walk, cancelled, history>>

\* The query waits for the database, for index objects, or for partitions: all that
\* there are, or as many as may run at a time.
Awaits ==
  \/ q.pc = "plan"
  \/ q.pc = "deleted" /\ ~q.query.include_deleted
  \/ q.pc = "search" /\ q.query.word # None
  \/ /\ q.pc = "read" /\ q.running # {}
     /\ q.todo = <<>> \/ Cardinality(q.running) >= WorkerLimit(q.config)

\* What the query waits for is not there yet, and the poll ends.
Suspend ==
  /\ q.mode = "distributed" /\ q.polling /\ Awaits
  /\ q' = [q EXCEPT !.polling = FALSE]
  /\ early' = (early \/ q.notified)
  /\ UNCHANGED <<store, walk, cancelled, steady, planned>>

\* The error of the wall clock limit, of a lost connection, or of a read.
Fail ==
  /\ Running
  /\ q' = [q EXCEPT !.pc = "error"]
  /\ UNCHANGED <<store, walk, cancelled, history>>

\* from_runs_with_limit_and_diagnostics: the cursor, when there is one run more
\* than the page holds.
TakePage ==
  /\ q.pc = "answered" /\ q.mode = "server"
  /\ LET limit == walk.query.limit
         more == limit # None /\ Len(q.answer) > limit
     IN  walk' = [walk EXCEPT !.seen = @ \o Take(q.answer, limit),
                              !.offset = IF more THEN @ + limit ELSE @,
                              !.state = IF more THEN @ ELSE "done"]
  /\ q' = Idle
  /\ UNCHANGED <<store, cancelled, history>>

TakeAnswer ==
  /\ q.pc = "answered" /\ q.mode # "server"
  /\ walk' = [walk EXCEPT !.seen = q.answer, !.state = "answered"]
  /\ UNCHANGED <<store, q, cancelled, history>>

TakeError ==
  /\ q.pc = "error"
  /\ walk' = [walk EXCEPT !.state = "failed"]
  /\ q' = Idle
  /\ UNCHANGED <<store, cancelled, history>>

----------------------------------------------------------------------------
(* What happens meanwhile. *)

\* cancel() sets the flag ...
Cancel ==
  /\ ~cancelled /\ q.mode = "distributed" /\ Running
  /\ cancelled' = TRUE
  /\ early' = ~(q.pc = "read" /\ q.todo = <<>>)
  /\ UNCHANGED <<store, q, walk, steady, planned>>

\* ... wakes the task, if it is registered by then, and returns.  A poll that is under
\* way goes on; it is the next one that ends the query.
Notify ==
  /\ cancelled /\ Running /\ ~q.notified
  /\ q' = [q EXCEPT !.notified = TRUE, !.woken = q.registered]
  /\ early' = (early \/ ~q.polling)
  /\ UNCHANGED <<store, walk, cancelled, steady, planned>>

\* What the change leaves of the runs that matched all the time.
Changed ==
  /\ changes < MaxChanges /\ walk.state = "walking"
  /\ UNCHANGED <<q, walk, cancelled, planned, early>>
  /\ changes' = changes + 1
  /\ steady' = steady \cap WantedBy(walk.query)'

\* Variant: the head is set to the number of segments before the new one.
WriteRunBeside ==
  /\ \E rec \in Records :
       /\ segments' = Append(segments, [rows |-> <<rec>>, compacted |-> FALSE, object |-> TRUE,
                                        indexed |-> TRUE])
       /\ heads' = [heads EXCEPT ![rec.run] = [seg |-> Len(segments), row |-> 1]]
  /\ UNCHANGED deletions
  /\ Changed

\* persist_metadata: a version of a run, in a segment of its own.
WriteRun ==
  /\ \E rec \in Records :
       /\ segments' = Append(segments, [rows |-> <<rec>>, compacted |-> FALSE, object |-> TRUE,
                                        indexed |-> TRUE])
       /\ heads' = [heads EXCEPT ![rec.run] = [seg |-> Len(segments) + 1, row |-> 1]]
  /\ UNCHANGED deletions
  /\ Changed

\* delete_run.
DeleteRun ==
  /\ \E r \in Runs : Visible(r) /\ deletions' = deletions \cup {r}
  /\ UNCHANGED <<segments, heads>>
  /\ Changed

\* compact_project: the visible runs of the live segments move to a new one.
Compact ==
  /\ LET old == {s \in DOMAIN segments : ~segments[s].compacted}
         moved == {r \in Runs : Visible(r)}
         place(r) == Cardinality({x \in moved : x =< r})
         rows == [i \in 1..Cardinality(moved) |-> RowOf(heads[CHOOSE r \in moved : place(r) = i])]
         new == Len(segments) + 1
     IN  /\ Cardinality(old) > 1 /\ moved # {}
         /\ segments' = Append([s \in DOMAIN segments |->
                                  [segments[s] EXCEPT !.compacted = @ \/ s \in old]],
                               [rows |-> rows, compacted |-> FALSE, object |-> TRUE,
                                indexed |-> TRUE])
         /\ heads' = [r \in Runs |-> IF r \in moved THEN [seg |-> new, row |-> place(r)]
                                     ELSE heads[r]]
  /\ UNCHANGED deletions
  /\ Changed

\* cleanup_compacted_objects_at.
CleanUp ==
  /\ \E s \in DOMAIN segments :
       /\ segments[s].compacted /\ segments[s].object
       /\ segments' = [segments EXCEPT ![s].object = FALSE]
  /\ UNCHANGED <<heads, deletions>>
  /\ Changed

QueryStep ==
  \/ BeginWalk \/ Ask \/ TestFlag \/ Register \/ RejectIfCancelled
  \/ Plan \/ LoadDeleted \/ ApplySearchIndexes \/ Split
  \/ ReadBatch \/ StartPartition \/ FinishPartition \/ Answer \/ TakePage \/ TakeAnswer \/ TakeError
StoreStep == WriteRun \/ DeleteRun \/ Compact \/ CleanUp

Rest == walk.state \in {"done", "answered", "failed"} /\ UNCHANGED vars

Next == QueryStep \/ Poll \/ Suspend \/ StoreStep \/ Cancel \/ Notify \/ Fail \/ Rest

\* The runtime polls a task again and again, and at last one poll finds the answer of
\* the database or of the object store; no one is obliged to change the store, to
\* cancel, or to let a call fail.
Spec == Init /\ [][Next]_vars /\ WF_vars(Poll) /\ SF_vars(QueryStep)

----------------------------------------------------------------------------
(* Properties. *)

Segment == [rows : Seq(Records) \ {<<>>}, compacted : BOOLEAN, object : BOOLEAN, indexed : BOOLEAN]

Pcs == {"idle", "check", "register", "reject", "plan", "deleted", "search", "split", "read",
        "answered", "error"}

QueryState ==
  [pc : Pcs, mode : {"server", "list", "distributed"},
   query : Query \cup {None}, config : Config \cup {None},
   polling : BOOLEAN, registered : BOOLEAN, woken : BOOLEAN, notified : BOOLEAN,
   rows : SUBSET [seg : Nat, row : Nat], deleted : SUBSET Runs, todo : Seq(SUBSET Nat),
   running : SUBSET SUBSET Nat, result : SUBSET Records, failed : BOOLEAN, answer : Seq(Records)]

QueryTypeOK ==
  /\ q \in QueryState
  /\ q.rows \subseteq PlacesIn(segments)
  /\ q.pc # "idle" => q.query \in Query /\ (q.mode = "distributed" => q.config \in Config)

\* The store, the query and the walk hold values of their kinds; a head names a
\* row of its run, and a candidate a row that is there.
TypeOK ==
  /\ segments \in Seq(Segment)
  /\ heads \in [Runs -> PlacesIn(segments) \cup {None}]
  /\ \A r \in Runs : heads[r] # None => RowOf(heads[r]).run = r
  /\ deletions \subseteq Runs /\ changes \in 0..MaxChanges
  /\ QueryTypeOK
  /\ walk \in [state : {"new", "walking", "done", "answered", "failed"},
               query : Queries \cup {None}, offset : Nat, seen : Seq(Records)]
  /\ walk.state # "new" => walk.query \in Queries
  /\ cancelled \in BOOLEAN /\ early \in BOOLEAN
  /\ steady \subseteq Runs /\ planned \subseteq Records

\* With nothing else happening an answer is the page: what the query describes,
\* sorted, without the offset, and up to the limit, on one node and distributed,
\* however the segments are cut (the LIMITs of the planner, of each batch and of
\* each partition lose nothing that the page needs).  Queries for is_root are left
\* out: the planner takes orphans for roots, and the rows do not.
AnswersAreThePage ==
  walk.state = "answered" /\ changes = 0 /\ walk.query.root = None =>
    walk.seen = PageDatafusionRuns(walk.query, {RowOf(heads[r]) : r \in WantedBy(walk.query)})

\* Whatever happens meanwhile, an answer holds, in order and once each, rows that
\* matched when the query was planned: never a version that was not current then,
\* nor a run that was already deleted, nor more than the limit.
AnswersComeFromThePlan ==
  q.pc = "answered" =>
    /\ Range(q.answer) \subseteq planned
    /\ \A i, j \in DOMAIN q.answer : i < j => Before(q.query, q.answer[i], q.answer[j])
    /\ q.query.limit # None => Len(q.answer) =< q.query.limit

\* Whatever happens meanwhile, an answer without limit has every run that was
\* there all the time, through rewrites and compactions: a query that cannot read
\* one of its segments any more fails rather than leave its runs out.
UnlimitedAnswersMissNothing ==
  /\ walk.state \in {"answered", "done"}
  /\ walk.query.limit = None /\ walk.query.offset = 0 /\ walk.query.root = None
  => steady \subseteq {rec.run : rec \in Range(walk.seen)}

\* A client that follows the cursors to the end, while nothing changes, has seen
\* each run once.
WalksAreComplete ==
  walk.state = "done" /\ changes = 0 /\ walk.query.root = None /\ walk.query.offset = 0 =>
    /\ {rec.run : rec \in Range(walk.seen)} = steady
    /\ Len(walk.seen) = Cardinality(steady)

\* A query that was cancelled before its last partition began, or whose cancel()
\* returned before its last poll did begin, gives no answer; also when the flag was
\* set between its test and the registration, so that no one was woken.  In the poll
\* that finds the last partition read no one looks any more: a cancel() that comes
\* and returns meanwhile, on another thread, does not keep the answer back.
CancelledQueriesGiveNoAnswer == early => q.pc # "answered" /\ walk.state # "answered"

\* A walk ends, whatever is cancelled, changed or lost meanwhile, unless its limit is 0.
\* That limit is accepted, and as long as there is a run its cursor names the same
\* page for ever (from_runs_with_limit_and_diagnostics).
EveryWalkEnds ==
  <>(walk.state \in {"done", "answered", "failed"} \/ (walk.state = "walking" /\ walk.query.limit = 0))

----------------------------------------------------------------------------
(* Inductive strengthenings, for the proofs. *)

\* The client and its query: which request a query answers, and what a query has
\* before it plans.
WalkInv ==
  /\ walk.state = "new" => walk.seen = <<>>
  /\ walk.state \in {"new", "done", "failed"} => q.pc = "idle"
  /\ walk.state = "answered" => q.pc = "answered" /\ q.mode # "server" /\ walk.seen = q.answer
  /\ q.pc # "idle" =>
       q.query = IF q.mode = "server" THEN PageQuery(walk.query, walk.offset) ELSE walk.query
  /\ q.pc = "idle" => q.mode = "server"
  /\ q.pc \in {"check", "register", "reject"} => q.mode = "distributed"
  /\ q.pc \in {"check", "register", "reject", "plan"} => q.deleted = {}
  /\ q.pc \notin {"read", "answered", "error"} => q.result = {} /\ q.running = {} /\ ~q.failed

\* What an early cancel() leaves to a query: the flag, a failed partition or one to
\* come, or a poll to begin that finds the task woken.
CancelInv ==
  /\ early => cancelled /\ q.pc # "answered"
  /\ cancelled => q.mode = "distributed" \/ walk.state = "failed"
  /\ q.mode = "distributed" /\ ~q.registered => q.pc \in {"check", "register", "error"}
  /\ q.notified => cancelled
  /\ q.notified /\ q.pc \in {"plan", "deleted", "search", "split", "read"} => q.woken
  /\ early /\ q.pc = "read" => q.failed \/ q.todo # <<>> \/ (q.woken /\ ~q.polling)

OneRowEach(recs) == \A a, b \in recs : a.run = b.run => a = b

HasPlan == q.pc \in {"deleted", "search", "split", "read"}

\* The search has narrowed the candidates.
Searched == q.pc \in {"split", "read"} \/ (q.pc = "deleted" /\ q.mode = "list")

\* Candidates and rows read are rows of the plan.
PlanInv ==
  /\ IsFiniteSet(planned) /\ OneRowEach(planned)
  /\ HasPlan => /\ \A h \in q.rows : HasWord(q.query, RowOf(h)) \/ Searched => RowOf(h) \in planned
                /\ q.result \subseteq planned
  /\ AnswersComeFromThePlan

\* The row is among those up to the end of the page.
UpToPage(query, rec) ==
  query.limit = None \/ Rank(query, rec, planned) < query.limit + query.offset

Waiting(seg) == (\E i \in DOMAIN q.todo : seg \in q.todo[i]) \/ \E p \in q.running : seg \in p

\* Of the plan, the rows up to the end of the page are candidates until they are read.
LimitInv ==
  HasPlan /\ q.query.root = None => \A rec \in planned :
    /\ FieldsMatch(q.query, rec) /\ Retained(q.query, rec) /\ HasWord(q.query, rec)
    /\ UpToPage(q.query, rec) =>
         \/ q.failed \/ rec \in q.result
         \/ \E h \in q.rows : RowOf(h) = rec /\ (q.pc = "read" => Waiting(h.seg))

Unlimited == walk.query.limit = None /\ walk.query.offset = 0 /\ walk.query.root = None

\* Runs that match all the time are in the plan, and not among the deleted ones.
SteadyInv ==
  /\ walk.state = "walking" => steady \subseteq WantedBy(walk.query)
  /\ walk.state = "walking" /\ HasPlan /\ q.query.limit = None =>
       /\ steady \subseteq {rec.run : rec \in planned}
       /\ steady \cap q.deleted = {}
  /\ walk.state = "walking" /\ Unlimited => walk.offset = 0
  /\ walk.state = "walking" /\ Unlimited /\ q.pc = "answered" =>
       steady \subseteq {rec.run : rec \in Range(q.answer)}
  /\ UnlimitedAnswersMissNothing

\* What there is to see for a walk.
Current(query) == {RowOf(heads[r]) : r \in WantedBy(query)}

\* While nothing changes, the plan is what there is, an answer is its page, and the
\* pages that a walk has seen are the first rows, up to its offset.
QuietInv ==
  changes = 0 =>
    /\ deletions = {}
    /\ HasPlan \/ q.pc = "answered" => q.deleted = {} /\ planned = Current(q.query)
    /\ q.pc = "answered" /\ q.query.root = None =>
         q.answer = PageDatafusionRuns(q.query, planned)
    /\ walk.state # "new" => steady = WantedBy(walk.query)
    /\ LET all == InOrder(PageQuery(walk.query, 0), Current(walk.query))
       IN  walk.state # "new" /\ walk.query.root = None /\ walk.query.offset = 0 =>
             /\ walk.state = "walking" => /\ walk.offset =< Len(all)
                                          /\ walk.seen = SubSeq(all, 1, walk.offset)
             /\ walk.state = "done" => walk.seen = all
=============================================================================
