# KevinDB in TLA+

KevinDB stores LLM traces: span records go to immutable Vortex segments in an
object store, and Postgres holds the metadata that decides which of them a
reader sees. This directory models the parts of it where steps of several tasks,
failures and retries meet, checks them with TLC on small instances, and proves
the main safety properties with TLAPS for every instance. Paths below are
relative to the repository.

## 1. The system

| Component | State it keeps | Operations | Talks to |
|---|---|---|---|
| Ingest buffer (`src/ingest.rs`) | per-partition records, waiters, `flushing` mark; `Notify flush_finished` | `ingest_records`, `flush`, shutdown flush | segment writes; HTTP handlers |
| Segment writes (`src/ingest.rs`, `src/ingest/metadata.rs`) | objects; `trace_segments`, `run_events`, `run_heads`, `run_locators`, `trace_locators` | `persist_partition_records`, `persist_segment`, `persist_metadata` | object store, Postgres |
| Derived tables (`src/ingest/{tree,thread,indexes}.rs`) | ancestors, roots, threads, tags, rollups | maintained in the metadata transaction | Postgres |
| Project compaction (`src/ingest.rs`) | none between calls | `compact_project`: list, read, rewrite, mark | query engine, segment writes |
| Compaction service (`src/ingest/compaction.rs`) | `compaction_leases` | loop, pass, acquire, release | compaction |
| Deletes and retention (`src/query.rs`, `src/query/retention.rs`) | `run_deletions`, tombstone events, deletion marks | `delete_run`, `expire_project_runs_before` | Postgres |
| Cleanup (`src/query/cleanup.rs`) | `object_deleted_at_unix_nano` | compacted-object cleanup, orphan sweep | object store, Postgres |
| Queries (`src/query.rs`, `src/query/planner.rs`, `random_access.rs`, `distributed.rs`, `search.rs`, `aggregates*`) | none; cancellation flag | list, load by id, replay, trees, threads, aggregates | Postgres, object store |
| Filters and search index (`src/query/filter*`, `src/search/*`) | none | parse, compile to SQL, build and select | planner |
| Object cache (`crates/kevindb-server/src/cache.rs`) | cached reads, keys by path | get, put, delete | object store |
| LangSmith API (`crates/kevindb-server/src/langsmith*`) | feedback rows | create and patch runs (read-modify-write), queries | ingest, queries |
| Server, config, OTLP, metrics, routing, benchmarks | counters, `project_routes` | wiring, parsing, conversion | all |

What is hard: objects and metadata live in two stores without a common
transaction; every `await` is a point where another task, a crash or a lost
answer intervenes; compaction decides from lists that are stale when it writes;
the order of events mixes client clocks with database ids; a flush answers other
people's calls; a lease may expire under its holder. `PROJECT.json` lists these
hazards with their lines and the properties aimed at them.

What makes the parts correct: metadata never points at a missing object; a run
that was not deleted stays visible, at its latest version, through whatever
compaction and cleanup do; listing, lookup and replay agree; an acknowledged
record is durable; every call is answered; a live lease is exclusive and a dead
one does not block; a query answers with what its filter means, on one node and on
many, from rollups and from segments; a cache in front of the store is not noticed.

## 2. Modules

| Module | What it is |
|---|---|
| `TraceStore` | the storage core: writers, compactors, deletes, retention, cleanup over the object store and the Postgres tables |
| `OrphanSweep` | `TraceStore` composed with `cleanup_orphaned_objects` |
| `IngestBuffer` | `ingest_records` and `flush` with their waiters, and the server around them |
| `CompactionLease` | the compaction service and `compaction_leases` |
| `DerivedTables` | the tree, thread and rollup tables that every metadata transaction rebuilds |
| `RunQueries` | listing runs: plan, search indexes, segment reads, pages and cursors, distributed queries and their cancellation |
| `RunAggregates` | aggregates from rollups and from segments, and `insert_feedback` |
| `SearchCodec`, `SearchIndex` | the search index of a segment: its lists in bits, its terms and row groups, and how a query reads it in parts |
| `RunFilters`, `FilterMeaning` | filters compiled to SQL and to search predicates; what a filter means, stated without either |
| `ObjectReads`, `ObjectStore`, `ObjectCache` | reads of objects and ranges; the store that callers are promised; the cache that implements it |
| `TraceStoreProofs`, `OrphanSweepProofs`, `IngestBufferProofs`, `CompactionLeaseProofs`, `DerivedTablesProofs`, `ObjectCacheProofs`, `RunQueriesProofs`, `RunAggregatesProofs` | the theorems |
| `MC*` and `*.cfg` | the instances that TLC checks |

`OrphanSweep` extends `TraceStore`, as the sweep works on the same store.
`IngestBuffer` replaces `persist_partition_records` by what a flush sees of it
(chunks become durable one by one, the call may fail at any point, an error may
hide a commit); `CompactionLease` likewise replaces `compact_project`. Nothing in
`TraceStore` depends on a lease: two compactors may always overlap. `DerivedTables`
opens up the transaction that is one step of `TraceStore`: there the heads are
given and the statements that follow them are the subject. `RunQueries` and
`RunAggregates` are the readers: there a write, a delete, a compaction or a cleanup
is one step between the steps of a query. `FilterMeaning` extends `RunFilters`, which
extends `SearchIndex`, which extends `SearchCodec`, as the bytes of the index decide
what a filter finds; `RunQueries` abstracts all four to a word that a row has or
has not.

### TraceStore

One project, as every statement of the code is restricted to one
`project_name`. A run stands for its `(trace_id, span_id)`. An event id is the
pair `(tx, pos)`: ids are drawn from one counter when the segment object is
put, because a transaction may draw its ids long before it commits. A head or
locator row is the event whose version it names (`ver`: segment and content) and
the event that its upsert guard compares with (`last`: time and id); a delete
moves only `last`.

| Action | Code |
|---|---|
| `Submit`, `Acknowledge` | a flush hands a batch over, and tells its waiters |
| `FilterDone`, `FilterChunk` | `filter_duplicate_records` and the chunk of `max_spans_per_segment` |
| `PutSegment`, `PutSearchIndex` | the two puts of `persist_segment` |
| `CommitWritten`, `CommitUnanswered`, `CommitConflict` | the metadata transaction: committed; committed with the answer lost; rolled back on a duplicate key |
| `Fail` | an error or a crash at any await; what was put stays |
| `CompactList`, `CompactPlan`, `CompactRead`, `CompactMark` | `compact_project`, with `Persist` between read and mark |
| `DeleteRun`, `RetentionSelect`, `RetentionExpire`, `RetentionFail` | `delete_run`, `expire_project_runs_before` with its select outside the transaction |
| `CleanupSelect`, `CleanupDelete`, `CleanupMark`, `CleanupFail` | `cleanup_compacted_objects_at`, one step per object |

Content is abstracted to a value `val`; object names, encodings and the columns
that no property reads are left out. `now` and cutoffs are any of `Times`, so the
server's clock may be behind or ahead of the clients'. The grace period of the
cleanup is any choice of compacted segments. A cleanup or sweep that is a dry
run changes nothing.

### IngestBuffer

`buffers` is `PendingState`; `pc` is the await at which each call stands; `batch`
the `FlushBatch` it owns; `inbox` what its oneshot receivers hold. A buffer that
the code removes from the map is an empty buffer here. `notified()` is created
under the lock, so `FlushWait` is one step and a later `notify_waiters` reaches
it. `Disconnect` drops the handler's future at its await, as hyper does; `Shutdown`
is the `flush_pending_ingest` of `main`, after the handlers are gone. What
`filter_duplicate_records` keeps of a batch (`Fresh`) is stated by the rank of each
kept position and not with `SelectSeq`, of whose definition the prover knows nothing.

### CompactionLease

Time is relative: a lease row holds the time until it expires and a service the
time since it read its clock, so `Tick` moves everything at once and the state
space is finite (a lease that ran out longer than `MaxLag` ago is kept at that). A service reads the clock before it connects, and may be
`MaxLag` late. `Stop` is any error: `run_compaction_service_loop` ends at the
first one, and leaves its lease. Holder ids are distinct.

### DerivedTables

A transaction of `persist_metadata`, `delete_run` or retention is a sequence of
statements at Postgres' default READ COMMITTED: each sees what was committed when
it began plus the rows of its own transaction, and waits for rows that another
transaction has written. `tx[w]` holds the rows that connection `w` has written and
not committed; `Commit` applies them, `Fail` (an error, or being the victim of a
deadlock) drops them.

| Action | Code |
|---|---|
| `Begin`, `UpsertHead`, `DeleteHead` | the transaction, the upsert of each head with its guard and its first root, `delete_run_in_tx` |
| `TreeSelect`, `TreeDelete`, `TreeLock`, `TreeInsert`, `TreeConflict`, `TreeHeads` | `refresh_trace_tree_metadata`; a delete chooses its rows before it waits for them |
| `ThreadDelete`, `ThreadLock`, `ThreadUpsert`, `SummaryRead`, `SummaryWrite`, `TraceDone` | `refresh_trace_thread_metadata`, with `ON DELETE CASCADE` |
| `StatsUpsert`, `RefreshRollups` | `refresh_project_filter_stats` as the row lock that it is, and the rollups |

`BuildTraceTreeIndex` is the numbering of `src/ingest/tree.rs` as recursive
functions, and is compared with ancestors computed by transitive closure. Edges
follow their nodes and messages their row of `thread_traces`; the sums of a thread
are one count; the counts in `project_filter_stats` and the upsert of the route are
left out. The project row exists from the start, as after
`set_project_retention_policy`. `Init` chooses the deployment: one connection, or
two that overlap.

### RunQueries

`q` is one query between its awaits: plan, select of deleted runs, search indexes,
batches of segments (or partitions), answer. The rows of the plan are pairs of
segment and `row_index`, as in the code: that is what a later version in the same
segment must not disturb. `walk` is a client of the LangSmith API that asks for one
run more than its page and follows the cursor, an offset.

| Action | Code |
|---|---|
| `BeginWalk`, `Ask`, `TakePage`, `TakeAnswer`, `TakeError` | `query_runs` and its cursor; a query of the engine |
| `Plan`, `LoadDeleted`, `ApplySearchIndexes` | `load_run_query_plan` with LIMIT and limits, `load_deleted_run_keys`, `apply_phase6_search_indexes` |
| `Split`, `ReadBatch`, `StartPartition`, `FinishPartition`, `Answer` | batches in order on one node; `plan_partitions`, shedding, budgets and `buffer_unordered`; filter, sort and page |
| `TestFlag`, `Register`, `RejectIfCancelled`, `Cancel`, `Notify` | `DistributedQueryCancellation`: the flag and the `Notify` are two steps on both sides |
| `Poll`, `Suspend` | the `biased` select of `list_runs_distributed_without_wall_time`: a poll looks at `cancelled()` first and then goes on until an await is not ready (`Awaits`) |
| `WriteRun`, `DeleteRun`, `Compact`, `CleanUp`, `Fail` | the store meanwhile; a timeout or a lost connection |

The time limit and the limits on reads at runtime are `Fail`. Filters on other
columns behave as `kind` does; tree and thread filters are left out. A request without
a limit asks for `DefaultLimit` rows, its offset and one more; a limit of 0 is accepted,
as by the API.

### RunAggregates

A query is eligible for rollups or goes the way of a scan: plan, partitions, tags,
feedback (`FeedbackFor`: grouped by, or asked for with `feedback_keys`), groups.
Averages are pairs of sum and count, scores count in quarters, and `tokens` stands for
the six metrics of tokens and costs. `insert_feedback` runs
without a transaction, so each of its statements is an action (`LoadOldProject`,
`UpsertFeedback`, `DeleteFeedbackRollups`, `SelectFeedback`, `InsertFeedbackRollup`)
and two calls interleave. The rollups of runs are rewritten with the write, in one
step: `DerivedTables` shows that overlapping transactions keep them right.

### SearchCodec, SearchIndex, RunFilters, FilterMeaning

`SearchCodec` has the variable-length integers, the bit-packed blocks and the
coalesced range reads, with the widths as constants (`ByteBits`, `BlockLen`) so that
blocks fill and overflow on small lists. `SearchIndex` builds terms, positions and
row groups, lays them out as one file, and reads it back as `load_matching_rows`
does: `ReadDirectory`, `ReadDictionaries`, `ReadTerms`, `Match`. A string is a
sequence of characters in byte order, as prefix ranges and truncation depend on it;
the FST is the sorted sequence of its terms. A number in a filter is counted in halves,
so that `as_i64`, `as_duration_nanos` and `as_time_nanos` cut something off (`Converted`,
`Truncated`), and a value has a type, so that a conversion can refuse it. `RunFilters` takes a filter as a syntax
tree, compiles it to SQL (evaluated with its three truth values) and to a search
predicate, and intersects their rows. `FilterMeaning` states what the filter means,
on records and without an index. What Postgres does with the SQL is external.

### ObjectReads, ObjectStore, ObjectCache

`ObjectCache` has one step for each access to the cache, to `keys_by_path` and to the
inner store. `segment_uri` puts the time and a sequence number into every path, so a
path names one content; `ObjectStore` is what callers are promised then: a call takes
effect once, at one moment, a read returns the requested bytes of an object that was
written, or that it is missing, and only when it is; the bytes of a deleted object may
still be served.
`Hybrid` is the cache with a disk tier, whose entries survive a restart while the key
index does not. A write that fails may have stored its object.

## 3. Runs

| Run | Instance | Shows |
|---|---|---|
| `lifecycle` | 1 writer, 1 compactor, 2 runs, 4 transactions or objects; deletes, retention, cleanup; all failures | `TypeOK`, `ReferencedObjectsExist`, `VisibleRunsAreListed`, `ReplayGivesTheLiveHead`, `LookupAgreesWithListing`, `ReclaimedSegmentsLeaveNothing`, `CompactorsCoverTheirSegments` |
| `writers` | 2 writers that retry batches with two versions of one run, out of time order, cut differently | `AckedBatchesAreDurable`, `ReplayGivesTheLiveHead` |
| `sweep` | `lifecycle` with 3 objects and a sweep that meets no task in the middle of a write | `SweepSparesReferencedObjects`, `SweepLeavesNoOrphans` |
| `sweep_race` (violation) | the same without that restriction | `ReferencedObjectsExist` fails |
| `answers` | 3 calls, 2 partitions, one call a retry, every client may disconnect, fairness | `TypeOK`, `OkMeansDurable`, `KeepsArrivalOrder`, `NoRecordIsLost`, `OnlyTwoThingsKeepCallsWaiting` |
| `retry` (violation) | 3 calls, one a retry of another | `EveryCallReturns` fails |
| `leases` | 2 services, 2 projects, lease of 2 ticks, lag 1, 1 restart, one steady service, fairness | `TypeOK`, `LiveLeaseIsExclusive`, `BacklogIsTakenUp` |
| `derived` | 4 runs in 2 traces, 2 threads, 2 groups, 3 ingest transactions and any deletes; one connection with every shape of tree, or two overlapping ones | `TypeOK`, `TreeMatchesTheHeads`, `ThreadsMatchTheHeads`, `RollupsMatchTheHeads`, `HeadRootsAgreeWithTheTree` |
| `queries` | 3 runs in 2 or 3 segments, with an old version beside new rows; 10 queries (limits, 0 among them, offsets, order, filters, a root query), one node or 1-2 workers; 2 changes of the store, a cancel, fairness | `TypeOK`, `AnswersAreThePage`, `AnswersComeFromThePlan`, `UnlimitedAnswersMissNothing`, `WalksAreComplete`, `CancelledQueriesGiveNoAnswer`, `EveryWalkEnds` |
| `aggregates` | 3 runs in 2 projects and 2 buckets, 14 queries, one of them eligible for rollups and with feedback keys; 2 changes, or 3 calls of `insert_feedback` by 2 interchangeable callers, or one of each beside a query | `RollupsAnswerLikeTheScan`, `ScansCountThePlan`, `LoneCallsLeaveTheRollupsRight` |
| `search` | 3 segments; every filter of two atoms of any kind (whole numbers, fractions and values of a wrong type), and nested ones; bytes of 3 bits, blocks of 2 | `FiltersAnswerTheirMeaning`, `IndexRoundTrips` |
| `cache` | 2 callers, 2 paths; reads of the whole object, of a suffix, of a range past the end and of an empty one; 2 entries, a disk tier; 4 calls and restarts | `TypeOK`, `CachedReadsAreExact`, `InvalidationReachesEveryEntry`, `BehavesLikeTheStore` |

Every property has a mutant (an operator marked "Variant" just before the
definition that it changes, and a `mutants` entry): the change that a plausible
bug would make, with which TLC finds the property violated.

**Bounds.** Two ingested segments, a replacement and a delete are the
shortest history in which compaction, deletes and cleanup meet: 4 numbers.
Compactors that overlap each other are left to the theorem `CompactionSafety`, which
covers any number of them. Two runs tell "this run" from "the others"; two times
give earlier, equal and later events. Two partitions and three calls give a flusher,
a waiter whose records it flushes, and a call that arrives during the flush. Three
runs in one trace give every chain, fork, orphan and circle that an interval
numbering tells apart, a fourth one a second trace for a thread. The writers of
`writers` and the callers of `cache` are symmetric. Three runs of two starting times
give pages that end between equal starts, and two changes a compaction and the
cleanup of what it replaced, both within one query. Blocks of two and bytes of three
bits give full and partial blocks, empty widths and tails on lists of three.
`CHECK_DEADLOCK FALSE` appears only where the system may come to rest for good: after
a disconnect that leaves a flush hanging (`answers`), and when the bounded
calls, changes and queries are used up (`cache`, `aggregates`, `search`).

**Fairness.** `IngestBuffer` assumes that tokio runs every task that can run and
that database and object store calls end, in success or error (`WF` on each
call's own steps). Nothing obliges a client to call or leave, or a call to fail.
`CompactionLease` assumes that time passes and that a service that is up goes on;
only the services in `Steady` never fail. `RunQueries` assumes that the runtime polls
a task again and again (`WF` on `Poll`), and that at last one poll finds what it waits
for: database and object store answer. A poll may suspend before that any number of
times, which disables the query's steps in between, so this is `SF` on `QueryStep`. No
one has to cancel, to change the store or to fail. The other specifications have no fairness and state no liveness.

**Findings.** The two violation runs are disagreements with the documents:

- `sweep_race`: an orphan sweep has no grace period; objects put before and
  committed after its query are deleted (`docs/operations.md`, "Metadata pointing
  at missing objects is unsafe").
- `retry`: a record and its retry in one buffer make `persist_partition_records`
  loop for ever; the filter asks only what is committed.

**Where a property stops.** Some properties are stated for less than a reader might
expect, because the code does less; each case is a hazard in `PROJECT.json`:

- Calls wait for ever in two ways, which `OnlyTwoThingsKeepCallsWaiting` names: the
  `retry` above, and a handler dropped during its flush, which leaves the partition
  marked as `flushing`.
- A snapshot that compaction writes keeps the event time of the version it read and
  gets a newer id, so it wins over an update of equal time that came in between.
- `TreeMatchesTheHeads` and `ThreadsMatchTheHeads` speak of one transaction at a
  time. Of two that overlap on a trace, neither sees the other's run, and a child
  stays an orphan until the trace is written again; a transaction that found a
  thread empty deletes it, and the cascade takes rows that another one committed
  meanwhile. `RollupsMatchTheHeads` and `HeadRootsAgreeWithTheTree` hold for any
  overlap.
- A tombstone carries the server's clock, and replay of a deleted run whose last
  event is later shows it as live: `ReplayGivesTheLiveHead` speaks of visible runs.
- The planner takes orphans for roots and the rows do not, so pages of a query for
  `is_root` may be short: `AnswersAreThePage` and `WalksAreComplete` leave those
  queries out. A run deleted between the plan and the select of deleted runs
  shortens a page as well, so completeness under change is stated without a limit.
- Only a poll's first act is to look at `cancelled()`. In the poll that finds the last
  partition read, the query filters, pages and answers without another look, so a
  `cancel()` that comes and returns meanwhile on another thread is too late:
  `CancelledQueriesGiveNoAnswer` speaks of a `cancel()` that was called before the last
  partition began or returned before the last poll did.
- With a limit of 0 the cursor names the same page for ever, as long as there is a run:
  `EveryWalkEnds` leaves such walks out.
- Four cases in which a filter does not answer what it says, all named by
  `FiltersAnswerTheirMeaning`. A path pattern whose last part follows a star is matched
  greedily and may miss a path. An `and()` within an `and()` may lose its parentheses
  when its index conditions are taken out. The fraction of a number that is compared
  with an integer column is cut off: `gte(total_tokens, 1.5)` takes a run with one token.
  And a negative condition on a missing value is unknown to SQL, so neither
  `neq(model, x)` finds a run without a model nor `neq(id, x)` one with a generated id only.
- A range that is empty is an error of the store, but comes back from the cache as no
  bytes once the whole object is in it: `ObjectReads!Readings` allows both.
- A feedback rollup counts feedback by its own time and does not know of deleted
  runs, so `RollupsAnswerLikeTheScan` leaves the groups by feedback key out; a
  rollup counts runs where a scan counts values.
- `rollup_eligible` does not look at `feedback_keys`: an eligible query gets none of the
  scores that a scan would attach for them, nor the latency of the first token, which
  rollups do not hold. `RollupsAnswerLikeTheScan` compares the rest (`Common`).
- Calls of `insert_feedback` that overlap may leave wrong rollups, which the next call
  that is alone repairs.

## 4. Proofs

All for every value of the constants that satisfies the named assumptions
(`ConstantsAssumption` of each module, `BatchesAssumption`, `NoLeaseAssumption`,
`SpansAssumption`, `JobsAssumption` and `NoneAssumption` of `DerivedTables`,
`RunQueriesAssumption`, `RunAggregatesAssumption`, those of `ObjectReads` and
`ObjectCache`): any number of runs, writers, compactors, calls, partitions, services,
projects, transactions, paths and callers, any batches, contents, segments, queries
and limits, any bound. They say what kind of value a constant is; that the runs of
`DerivedTables`, and the runs and tags of `RunAggregates`, are finitely many is all
that restricts a size.
TLC has checked every inductive invariant on the instances of section 3.

| Theorem | Statement |
|---|---|
| `TraceStoreProofs` | |
| `TypeCorrectness`, `TypeSafety`, `LookupSafety` | `Spec => [](TypeOK /\ LookupAgreesWithListing)`, and each by itself |
| `ObjectSafety` | `Spec => []ReferencedObjectsExist` |
| `ReclaimSafety` | `Spec => []ReclaimedSegmentsLeaveNothing` |
| `CompactionSafety` | `Spec => []VisibleRunsAreListed` |
| `CompactionCovers` | `Spec => []CompactorsCoverTheirSegments` |
| `ReplaySafety` | `Spec => []ReplayGivesTheLiveHead` |
| `AcknowledgedIsDurable` | `Spec => []AckedBatchesAreDurable` |
| `OrphanSweepProofs` | |
| `SweepSafety` | `SweepSpec => []SweepSparesReferencedObjects` |
| `SweepCompleteness` | `SweepSpec => SweepLeavesNoOrphans`, an action property |
| `IngestBufferProofs` | |
| `TypeSafety` | `Spec => []TypeOK` |
| `AnswersSafety` | `Spec => []OkMeansDurable` |
| `NothingIsLost` | `Spec => []NoRecordIsLost` |
| `ArrivalOrder` | `Spec => []KeepsArrivalOrder` |
| `CompactionLeaseProofs` | |
| `TypeSafety` | `Spec => []TypeOK` |
| `LeaseSafety` | `Spec => []LiveLeaseIsExclusive` |
| `DerivedTablesProofs` | |
| `TypesHold` | `Spec => []TypeOK` |
| `RollupsAreRight` | `Spec => []RollupsMatchTheHeads` |
| `HeadRootsAgree` | `Spec => []HeadRootsAgreeWithTheTree` |
| `ObjectCacheProofs` | |
| `TypeSafety`, `CacheIsExact` | `Spec => [](TypeOK /\ CachedReadsAreExact)` |
| `InvalidationIsComplete` | `Spec => []InvalidationReachesEveryEntry` |
| `CacheImplementsStore` | `Spec => BehavesLikeTheStore`, the refinement of `ObjectStore` |
| `RunQueriesProofs` | |
| `TypeSafety` | `Spec => []TypeOK` |
| `CancelSafety` | `Spec => []CancelledQueriesGiveNoAnswer` |
| `PlanSafety` | `Spec => []AnswersComeFromThePlan` |
| `NothingIsMissed` | `Spec => []UnlimitedAnswersMissNothing` |
| `PageSafety` | `Spec => []AnswersAreThePage` |
| `WalkSafety` | `Spec => []WalksAreComplete` |
| `RunAggregatesProofs` | |
| `ScansAreOfTheirPlan` | `Spec => []ScansReadThePlan` |
| `ScansCount` | `Spec => []ScansCountThePlan` |
| `RollupsAreScans` | `Spec => []RollupsAnswerLikeTheScan` |
| `LoneCallsAreRight` | `Spec => []LoneCallsLeaveTheRollupsRight` |

- *Objects.* `ReferencedObjectsExist` is not inductive: it needs that a task
  about to commit has put both objects under a number of its own
  (`SegmentsInTheMaking`), that the cleanup holds only objects of compacted
  segments (`CleanupIsConfined`), and that compacted segments exist
  (`OldSegmentsExist`). Together: `ObjectInv`.
- *Reclaiming.* `ReclaimInv`: only compacted segments are ever recorded as reclaimed,
  and of the objects of the cleanup's segment only those that it has yet to delete can
  still be there. Nothing puts an object of theirs again, because a number is drawn
  once and objects are put only under a task's own number.
- *Compaction.* `HeadInv` adds what a compactor relies on. Once it has planned,
  every visible run whose version is still in one of its old segments is among
  the rows that it has yet to write (`CompactorsCoverTheirSegments`). Ingest
  may move a run to a new segment, which is never an old one; the rows that the
  duplicate filter drops must therefore have moved their run already: their
  keys carry the batch of old segments (`RowsCarryTheirBatch`), a snapshot is
  younger than that batch (`EventsAreApplied`), and the head of a visible run is
  the latest of its events (`HeadsAreLatest`). This is why
  `compaction_idempotency_key` has to contain the segment ids, which the mutant
  `IdempotencyKeyWithoutBatch` confirms.
- *Replay.* `CurrentInv`: the version that the head of a visible run names is one of
  the run's events, and no tombstone. `HeadsAreLatest` makes it the latest of them in
  the order that replay uses, and two events of a run never tie: each transaction has
  an id of its own and each row its own place in it (`PlacesDiffer`).
- *Acknowledgement.* `AckInv`: each row given to a writer is still to be written
  or its key is among the events, through conflict, retry and unanswered
  commit. With `HeadsAreLatest` the head of an acknowledged run is at its event
  or later, unless the run was deleted.
- *Sweep.* As long as no task has raced a sweep, `ObjectInv` and `ReclaimInv` survive
  the sweep's deletes too, because the sweep is confined (`SweepIsConfined`): nobody
  writes while it runs, the paths that it loaded cover the active segments and name
  only segments, and what it is about to delete spares the active segments and holds
  every orphan. `SweepInv` joins these with the types.
- *Buffer.* Four invariants. `HoldersInv`: a call holds a batch exactly while it
  persists it or answers its waiters, its partition is marked as long, and no two calls
  persist one partition. `AnswersInv`: where a call waits, its records are: in the
  buffer, in the batch, or in the database, and an answer "ok" finds them in the
  last. `LossInv`: a row that arrived stays in one of the three until it is durable;
  the handler that is dropped with a batch leaves the mark, and by `HoldersInv`
  nobody else can clear it (`AbandonedStays`), which is the exception that the
  property names. `OrderInv`: the database, the batch and the buffer of a partition
  are each in the order of arrival, and what is not yet durable comes after what is:
  `batch` before `buffer` is why a failed flush has to put its rows back in front.
  A commit without an answer leaves durable rows in the batch, so the order speaks of
  the rows of a batch whose keys are not in the database; the filter leaves exactly
  those, in their order (`FreshProperties`).
- *Leases.* `LiveLeaseIsRecorded`: a lease that has not run out under its holder
  is the row in the table with the same time left; two holders would be one row.
- *Derived tables.* `TypeInv`: the rows that an open transaction holds are of their
  kind too, and those of a tree are of runs that have a head (`TxOK`). The nodes come
  from `VisitTreeNode`, a recursion bounded by the number of runs: that it yields nodes
  of the trace is shown by taking a least number for which it does not
  (`NumbersByInduction`, from `WFMin`), as for the recursion itself
  (`RecursionExists`). `RollupsInv`: no two transactions have written one head; one that
  has changed a head still has its traces to refresh, or has passed the upsert of
  `project_filter_stats`, which only one can hold, and its rollups count what it sees
  (`RollupsTx`). So what it counted is still what it sees when it commits: any other
  transaction that could commit a change in between would need that row. This is what
  `refresh_project_filter_stats` is for besides its counts. `TreeInv`: of the nodes that
  a transaction sees, each of a run whose head it has written is `Settled`: its trace is
  still to be refreshed, or the node is about to be deleted, or its root is about to be
  written to the head, or head and node agree. No two transactions insert a node of the
  same run (the primary key), and who inserts a node has the head of its run locked
  before it commits.
- *Cache.* `CachedReadsAreExact` needs that the read a caller has in hand, and may
  be about to insert, is exact too (`ReadInHandIsExact`), and that a caller's label,
  call and reply fit together (`CallOK`, part of `TypeOK`); together `Exact`. A slice
  of an exact whole read is exact (`Sliced` against `AsRange`, of the store itself).
  The refinement follows action by action: lookups, inserts, index updates and
  invalidations leave the abstract store unchanged; the step that decides a reply is
  its `Read` or `Write`.
- *Queries.* The order of rows is stated by rank: the i-th row is the one that i - 1
  others precede. From that come the lemmas about pages: the rows of a set that are up
  to the end of its page keep their rank in every part of the set that has them
  (`SameRank`), so a part that has them all has the same page (`PagesAgree`): this is
  why a LIMIT may be pushed down to the planner, to each batch and to each partition,
  if it counts the offset in. `PlanInv`: candidates and rows read are rows of the plan,
  as rows never move within the segments. `LimitInv`: a row of the plan up to the end
  of the page has been read, or is a candidate whose segment waits in a batch or in a
  running partition, or the query has failed; so a finished query that has not failed
  has read its page. `SteadyInv`: a run that matched all the time is in the plan and
  never among the deleted runs that the query has loaded. `QuietInv`: without changes
  the plan is what there is, and what a walk has seen are the first rows up to its
  offset; one row more than the page decides whether there is a cursor.
  `CancelInv`: after an early `cancel()` a query that reads has a failed partition, has
  one left that will look at the flag, or is between two polls with its wake-up in hand,
  which the next poll sees. `WalkInv` ties a query
  to the request of its walk.
- *Aggregates.* `ScanInv`: heads point into segments, whose rows never move; as long as
  a query reads, the rows of its plan are where they were, each of them has been read or
  is in a segment of a partition that has not, or a partition has failed, and nothing
  but the plan is read. `FeedbackInv`: while a call of `insert_feedback` that met no
  other runs, none does; the rollups of the projects that it is done with are right,
  and of the project at hand those inserted and those to be inserted are the right ones.
  Feedback rows change in the call's own upsert only, before the first refresh.
  `VersionsInv` (a head points at a version of its own run) and `CountInv` (what is
  planned is a finite set of versions, tags and scores are those of its runs, and the
  answer groups what was read) give `ScansCount`: the variants of a run are as many as
  its tags times its scores, the variants of different runs and of different groups are
  apart, and the sizes of sets that are apart add up. For the sums, `Total` is shown to
  be the same in whatever order it is taken, by an induction over finite sets.
  `RollupsInv` (the rollups are those of the live runs) is kept because a write or a
  delete changes what is live only in the project that it refreshes: a run's key has
  its project. `RollupsAreScans` then compares row by row. An eligible query counts a
  run once; two runs are in one group exactly when they have one rollup key; limits at
  the edges of buckets and filters on the rollup's own value let all runs of a key
  through or none; the scores that the scan attaches change no count; and sums, averages and percentiles are the same over sets that
  correspond.

Only model-checked: `TreeMatchesTheHeads` and `ThreadsMatchTheHeads`, which compare
recursive numbering, transitive closures and minima over rows; the two properties of
`FilterMeaning`, whose codec, index and evaluation are `RECURSIVE` operators, for which
the prover has no backend; and liveness, which needs `ENABLED`. Induction is available
only in the form used above, for one predicate at a time by a least counterexample.

## 5. Not modelled, and the plan

Next, in this order:

1. `RunUpdates`: the LangSmith create and patch as read-modify-write over
   `TraceStore`'s heads; what concurrent patches may lose. It needs the fields of a
   record apart, which `TraceStore` keeps as one value.
2. Tree filters and thread pages over `DerivedTables`' tables; the reads of random
   access after their locators.
3. Proofs: `ThreadsMatchTheHeads`, for transactions that do not overlap.

Known and outside every property: two concurrent PATCHes of one run, each of which
loads, merges and writes the whole record, lose the fields of one of them
(`langsmith.rs:365`; item 1 of the plan); an update that returns a run to an earlier
content has the earlier idempotency key and is dropped as a duplicate (`ingest.rs:717`);
a bucket with more runs than `max_spans_per_segment` is listed and rewritten by every
pass of the compaction service (`compaction.rs:99`), so that compaction comes to rest
is not stated.

Left out for good: the bytes of a Vortex segment, request and response shapes, the
text form of filters, environment parsing, OTLP conversion, metrics, benchmarks; they
have no control that a model would add to. Routing is one upsert and one lookup;
migrations run once, before anything else.
