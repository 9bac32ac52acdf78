----------------------------- MODULE TraceStore -----------------------------
(***************************************************************************)
(* The storage core of KevinDB: span records are written as immutable      *)
(* segment objects (each with a sibling search index object) to an object  *)
(* store, and become visible when one Postgres transaction inserts their   *)
(* metadata.  The state is the object store, the Postgres tables that      *)
(* decide what a reader sees, and the tasks that write them:               *)
(*                                                                         *)
(*   - writers: calls of Ingestor::persist_partition_records by a flush;   *)
(*   - compactors: calls of Ingestor::compact_project.  Nothing here       *)
(*     excludes two of them on one project: a lease may have expired, and  *)
(*     compact_project is also public;                                     *)
(*   - run deletes, retention expiry and compacted-object cleanup.         *)
(*                                                                         *)
(* One project is modelled: every statement of the code is restricted to   *)
(* one project_name.  A run is its (trace_id, span_id).                    *)
(***************************************************************************)
EXTENDS Naturals, FiniteSets, Sequences

CONSTANTS Runs,               \* the runs; numbers, so that span_id order is theirs
          Vals,               \* the payloads a record may carry (attributes_json, ...)
          Times,              \* timestamps, in nanoseconds
          BucketWidth,        \* INGEST_TIME_BUCKET_UNIX_NANOS
          Batches,            \* the record sequences that a flush may be given
          Writers, Compactors,
          MaxSpansPerSegment, \* IngestConfig::max_spans_per_segment
          MaxSeq,             \* bound: metadata transactions and objects attempted
          NoHead              \* no row in run_heads or run_locators

ClientKinds == {"start", "update", "end"}
RowKinds == ClientKinds \cup {"compact"}
Kinds == RowKinds \cup {"tombstone"}

\* A record as a client sends it.  end = 0 is a run that has not ended.
Record == [run : Runs, kind : ClientKinds, start : Nat, end : Nat, val : Vals]

\* A record on its way into a segment: its place in the batch, and the batch
\* key (the compacted segment ids) when compaction wrote it.
Row == [run : Runs, kind : RowKinds, start : Nat, end : Nat, val : Vals,
        batch : SUBSET Nat, pos : Nat]

\* A row of run_events with the segment row that it names.  (tx, pos) stands
\* for the serial id: ids of one transaction follow the order of its rows.
Event == [run : Runs, kind : Kinds, start : Nat, end : Nat, val : Vals,
          batch : SUBSET Nat, pos : Nat, seg : Nat, tx : Nat, time : Nat]

\* ver is the segment row that holds the current version, last the event whose
\* time and id the guard of the next upsert compares with.
RunHead == [ver : Event, last : Event, deleted : BOOLEAN]
Locator == [ver : Event, last : Event]

Procs == Writers \cup Compactors

ASSUME ConstantsAssumption ==
  /\ Runs \subseteq Nat
  /\ Times \subseteq Nat \ {0}
  /\ BucketWidth \in Nat \ {0}
  /\ MaxSpansPerSegment \in Nat \ {0}
  /\ MaxSeq \in Nat
  /\ Writers \cap Compactors = {}
  /\ NoHead \notin RunHead /\ NoHead \notin Locator

----------------------------------------------------------------------------
(* Event order, idempotency keys and partitions. *)

EventTime(r) == IF r.end > 0 THEN r.end ELSE r.start

Bucket(r) == r.start \div BucketWidth

\* A flush is given the records of one partition.
ASSUME BatchesAssumption ==
  \A b \in Batches :
     /\ b \in Seq(Record) /\ b # <<>>
     /\ \A i, j \in DOMAIN b : Bucket(b[i]) = Bucket(b[j])

\* Variant: compaction's key without the batch.
IdempotencyKeyWithoutBatch(r) == <<r.kind, r.run, r.start, r.end, r.val>>

\* run_event_idempotency_key hashes the content of a record; for compaction
\* compaction_idempotency_key adds the batch of segments it replaces.
IdempotencyKey(r) == <<r.kind, r.run, r.start, r.end, r.val, r.batch>>

\* The guard of every upsert: e is not ordered after f by (event time, id).
NotAfter(e, f) ==
  \/ e.time < f.time
  \/ e.time = f.time /\ e.tx < f.tx
  \/ e.time = f.time /\ e.tx = f.tx /\ e.pos =< f.pos

Latest(E) == CHOOSE e \in E : \A f \in E : NotAfter(f, e)

RowsOf(b) ==
  {[run |-> b[i].run, kind |-> b[i].kind, start |-> b[i].start, end |-> b[i].end,
    val |-> b[i].val, batch |-> {}, pos |-> i] : i \in DOMAIN b}

\* span_record_from_run_summary: the version read, as a snapshot record.
CompactRow(e, old) ==
  [run |-> e.run, kind |-> "compact", start |-> e.start, end |-> e.end,
   val |-> e.val, batch |-> old, pos |-> e.run]

EventOf(r, u) ==
  [run |-> r.run, kind |-> r.kind, start |-> r.start, end |-> r.end, val |-> r.val,
   batch |-> r.batch, pos |-> r.pos, seg |-> u, tx |-> u, time |-> EventTime(r)]

\* The records of the first partition that is left, in partition order.
FirstPartition(todo) == {r \in todo : \A q \in todo : Bucket(r) =< Bucket(q)}

\* The records that go into the next segment: the first max_spans_per_segment.
NextChunk(rows) ==
  {r \in rows : Cardinality({q \in rows : q.pos < r.pos}) < MaxSpansPerSegment}

----------------------------------------------------------------------------
VARIABLES
  objects,         \* the object store: pairs <<number, "segment" or "index">>
  trace_segments,  \* ids in trace_segments
  compacted,       \* ids with compacted_at set
  object_deleted,  \* ids with object_deleted_at_unix_nano set
  run_events,      \* run_events, with the segment row each one names
  run_heads,       \* run_heads, NoHead where there is no row
  run_locators,    \* run_locators and trace_locators: same key, same upsert
  run_deletions,   \* runs with a row in run_deletions
  next,            \* source of object names, segment ids and event ids
  job,             \* the writers and compactors
  expiring,        \* the runs that a retention pass selected
  cleaner,         \* the compacted-object cleanup
  acked            \* history: rows of the batches acknowledged as durable

tables == <<trace_segments, compacted, object_deleted, run_events, run_heads,
            run_locators, run_deletions>>
vars == <<objects, trace_segments, compacted, object_deleted, run_events,
          run_heads, run_locators, run_deletions, next, job, expiring, cleaner,
          acked>>

\* pc is the next await of the task; todo the rows still to write, cur the rows
\* of the segment being written and seg its number.  rows is a writer's whole
\* batch; old and plan are a compactor's segment ids and the versions it read.
IdleJob == [pc |-> "idle", todo |-> {}, cur |-> {}, seg |-> 0, rows |-> {},
            old |-> {}, plan |-> {}]
IdleCleaner == [busy |-> FALSE, candidates |-> {}, left |-> {}]

ObjectsOf(u) == {<<u, "segment">>, <<u, "index">>}
Keys == {IdempotencyKey(e) : e \in {f \in run_events : f.kind # "tombstone"}}
EventsOf(r) == {e \in run_events : e.run = r}

\* The predicate of every read path: run_head_where_sql, load_run_locator and
\* load_trace_segment_sources all ask for both deletion marks to be absent.
Visible(r) == /\ run_heads[r] # NoHead
              /\ ~run_heads[r].deleted
              /\ r \notin run_deletions

Init == /\ objects = {}
        /\ trace_segments = {}
        /\ compacted = {}
        /\ object_deleted = {}
        /\ run_events = {}
        /\ run_heads = [r \in Runs |-> NoHead]
        /\ run_locators = [r \in Runs |-> NoHead]
        /\ run_deletions = {}
        /\ next = 1
        /\ job = [p \in Procs |-> IdleJob]
        /\ expiring = {}
        /\ cleaner = IdleCleaner
        /\ acked = {}

----------------------------------------------------------------------------
(* persist_partition_records: one loop iteration per segment. *)

\* A flush takes a batch, new or retried, to persist.
Submit(w, b) ==
  /\ job[w].pc = "idle"
  /\ job' = [job EXCEPT ![w] = [IdleJob EXCEPT !.pc = "filter",
                                               !.todo = RowsOf(b),
                                               !.rows = RowsOf(b)]]
  /\ UNCHANGED <<objects, tables, next, expiring, cleaner, acked>>

\* The rows of the current partition whose key is not in run_events.
Fresh(p) == {r \in FirstPartition(job[p].todo) : IdempotencyKey(r) \notin Keys}
Rest(p) == job[p].todo \ FirstPartition(job[p].todo)

\* filter_duplicate_records leaves nothing: the partition is done.
FilterDone(p) ==
  /\ job[p].pc = "filter"
  /\ Fresh(p) = {}
  /\ job' = [job EXCEPT ![p] = [@ EXCEPT !.todo = Rest(p),
                        !.pc = IF Rest(p) = {} THEN "done" ELSE "filter"]]
  /\ UNCHANGED <<objects, tables, next, expiring, cleaner, acked>>

\* filter_duplicate_records leaves rows: the first ones become a segment.
FilterChunk(p) ==
  /\ job[p].pc = "filter"
  /\ Fresh(p) # {}
  /\ LET chunk == NextChunk(Fresh(p)) IN
     job' = [job EXCEPT ![p] = [@ EXCEPT !.todo = Rest(p) \cup (Fresh(p) \ chunk),
                                         !.cur = chunk,
                                         !.pc = "put"]]
  /\ UNCHANGED <<objects, tables, next, expiring, cleaner, acked>>

\* Variant: no search index object is put.
PutSegmentAlone(p) ==
  /\ job[p].pc = "put"
  /\ next =< MaxSeq
  /\ objects' = objects \cup {<<next, "segment">>}
  /\ next' = next + 1
  /\ job' = [job EXCEPT ![p] = [@ EXCEPT !.seg = next, !.pc = "commit"]]
  /\ UNCHANGED <<tables, expiring, cleaner, acked>>

\* The segment object is put under a new name.  The ids that the metadata
\* transaction will use are drawn from the same counter here: a transaction
\* may hold them for any time before it commits.
PutSegment(p) ==
  /\ job[p].pc = "put"
  /\ next =< MaxSeq
  /\ objects' = objects \cup {<<next, "segment">>}
  /\ next' = next + 1
  /\ job' = [job EXCEPT ![p] = [@ EXCEPT !.seg = next, !.pc = "index"]]
  /\ UNCHANGED <<tables, expiring, cleaner, acked>>

PutSearchIndex(p) ==
  /\ job[p].pc = "index"
  /\ objects' = objects \cup {<<job[p].seg, "index">>}
  /\ job' = [job EXCEPT ![p] = [@ EXCEPT !.pc = "commit"]]
  /\ UNCHANGED <<tables, next, expiring, cleaner, acked>>

\* An insert into run_events hits a key that is there already, committed by
\* another transaction or inserted by an earlier row of this one.
Conflict(rows) ==
  \/ \E r \in rows : IdempotencyKey(r) \in Keys
  \/ \E r, q \in rows : r # q /\ IdempotencyKey(r) = IdempotencyKey(q)

\* Variants: an upsert that ignores events of equal time, and upserts without
\* their guard.
UpsertHeadIfLater(h, n) ==
  IF h = NoHead \/ h.last.time < n.time
  THEN [ver |-> n, last |-> n, deleted |-> FALSE] ELSE h
UpsertHeadAlways(h, n) == [ver |-> n, last |-> n, deleted |-> FALSE]
UpsertLocatorAlways(l, n) == [ver |-> n, last |-> n]

\* INSERT ... ON CONFLICT DO UPDATE ... WHERE, of event n into run_heads and the
\* two locator tables.  An event that is applied clears the deletion mark.
UpsertHead(h, n) ==
  IF h = NoHead \/ NotAfter(h.last, n)
  THEN [ver |-> n, last |-> n, deleted |-> FALSE]
  ELSE h

UpsertLocator(l, n) ==
  IF l = NoHead \/ NotAfter(l.last, n)
  THEN [ver |-> n, last |-> n]
  ELSE l

\* The whole of persist_metadata for segment u with these rows.  The upserts of
\* the rows of one run, one by one, amount to the upsert of the newest of them.
PersistMetadata(u, rows) ==
  LET E == {EventOf(r, u) : r \in rows}
      touched == {e.run : e \in E}
  IN \E newest \in [touched -> E] :
       /\ \A e \in E : newest[e.run].run = e.run /\ NotAfter(e, newest[e.run])
       /\ trace_segments' = trace_segments \cup {u}
       /\ run_events' = run_events \cup E
       /\ run_heads' = [r \in Runs |-> IF r \in touched
                                       THEN UpsertHead(run_heads[r], newest[r])
                                       ELSE run_heads[r]]
       /\ run_locators' = [r \in Runs |-> IF r \in touched
                                          THEN UpsertLocator(run_locators[r], newest[r])
                                          ELSE run_locators[r]]
       /\ UNCHANGED <<compacted, object_deleted, run_deletions>>

CommitWritten(p) ==
  /\ job[p].pc = "commit"
  /\ ~Conflict(job[p].cur)
  /\ PersistMetadata(job[p].seg, job[p].cur)
  /\ job' = [job EXCEPT ![p] = [@ EXCEPT !.cur = {}, !.seg = 0, !.pc = "filter"]]
  /\ UNCHANGED <<objects, next, expiring, cleaner, acked>>

\* The transaction commits but its answer is lost: the task sees an error.
CommitUnanswered(p) ==
  /\ job[p].pc = "commit"
  /\ ~Conflict(job[p].cur)
  /\ PersistMetadata(job[p].seg, job[p].cur)
  /\ job' = [job EXCEPT ![p] = IdleJob]
  /\ UNCHANGED <<objects, next, expiring, cleaner, acked>>

\* Variant: the rows of the segment that conflicted are dropped.
CommitConflictDropped(p) ==
  /\ job[p].pc = "commit"
  /\ Conflict(job[p].cur)
  /\ job' = [job EXCEPT ![p] = [@ EXCEPT !.cur = {}, !.seg = 0, !.pc = "filter"]]
  /\ UNCHANGED <<objects, tables, next, expiring, cleaner, acked>>

\* DuplicateConflict: rolled back, and the rows go through the filter again.
CommitConflict(p) ==
  /\ job[p].pc = "commit"
  /\ Conflict(job[p].cur)
  /\ job' = [job EXCEPT ![p] = [@ EXCEPT !.todo = job[p].cur \cup job[p].todo,
                                         !.cur = {}, !.seg = 0, !.pc = "filter"]]
  /\ UNCHANGED <<objects, tables, next, expiring, cleaner, acked>>

\* The flush tells its waiters that the batch is durable.
Acknowledge(w) ==
  /\ job[w].pc = "done"
  /\ acked' = acked \cup job[w].rows
  /\ job' = [job EXCEPT ![w] = IdleJob]
  /\ UNCHANGED <<objects, tables, next, expiring, cleaner>>

\* Any step may fail or the process may crash; what it put stays behind.
Fail(p) ==
  /\ job[p].pc # "idle"
  /\ job' = [job EXCEPT ![p] = IdleJob]
  /\ UNCHANGED <<objects, tables, next, expiring, cleaner, acked>>

----------------------------------------------------------------------------
(* compact_project *)

\* active_project_segment_ids
CompactList(c) ==
  /\ job[c].pc = "idle"
  /\ job' = [job EXCEPT ![c] = [IdleJob EXCEPT !.pc = "plan",
                                               !.old = trace_segments \ compacted]]
  /\ UNCHANGED <<objects, tables, next, expiring, cleaner, acked>>

\* list_runs, its plan: the current versions in segments not compacted.
Planned == {run_heads[r].ver : r \in {q \in Runs : /\ Visible(q)
                                                   /\ run_heads[q].ver.seg \notin compacted}}

CompactPlan(c) ==
  /\ job[c].pc = "plan"
  /\ job' = [job EXCEPT ![c] = [@ EXCEPT !.pc = "read", !.plan = Planned]]
  /\ UNCHANGED <<objects, tables, next, expiring, cleaner, acked>>

\* list_runs, its reads: the planned rows without the runs deleted by now.
ReadRows(c) == {CompactRow(e, job[c].old) :
                  e \in {f \in job[c].plan : f.run \notin run_deletions}}

\* Reading needs every planned segment; a missing object is a Fail.
CompactRead(c) ==
  /\ job[c].pc = "read"
  /\ \A e \in job[c].plan : <<e.seg, "segment">> \in objects
  /\ job' = [job EXCEPT ![c] =
               IF ReadRows(c) = {} \/ Cardinality(job[c].old) =< 1
               THEN IdleJob
               ELSE [@ EXCEPT !.pc = "filter", !.todo = ReadRows(c)]]
  /\ UNCHANGED <<objects, tables, next, expiring, cleaner, acked>>

\* Variant: every active segment is marked.
CompactMarkActive(c) ==
  /\ job[c].pc = "done"
  /\ compacted' = trace_segments
  /\ job' = [job EXCEPT ![c] = IdleJob]
  /\ UNCHANGED <<objects, trace_segments, object_deleted, run_events, run_heads,
                 run_locators, run_deletions, next, expiring, cleaner, acked>>

\* mark_segments_compacted
CompactMark(c) ==
  /\ job[c].pc = "done"
  /\ compacted' = compacted \cup job[c].old
  /\ job' = [job EXCEPT ![c] = IdleJob]
  /\ UNCHANGED <<objects, trace_segments, object_deleted, run_events, run_heads,
                 run_locators, run_deletions, next, expiring, cleaner, acked>>

----------------------------------------------------------------------------
(* Logical deletes.  now is the server's clock; event times are the clients',  *)
(* so either may be ahead.                                                     *)

\* Variant: a tombstone with an unknown event type.
TombstoneMislabelled(r, now) ==
  [run_heads[r].ver EXCEPT !.kind = "delete", !.batch = {}, !.tx = next, !.time = now]

\* The tombstone event, or the one that has its idempotency key already.
Tombstone(r, now) ==
  LET same == {e \in run_events : e.kind = "tombstone" /\ e.run = r /\ e.time = now}
  IN IF same # {}
     THEN CHOOSE e \in same : TRUE
     ELSE [run_heads[r].ver EXCEPT !.kind = "tombstone", !.batch = {},
                                   !.tx = next, !.time = now]

\* delete_run_in_tx for each of these runs, in one transaction.
DeleteRunsInTx(R, now) ==
  LET D == {r \in R : run_heads[r] # NoHead /\ ~run_heads[r].deleted}
  IN /\ next =< MaxSeq
     /\ next' = next + 1
     /\ run_events' = run_events \cup {Tombstone(r, now) : r \in D}
     /\ run_heads' = [r \in Runs |->
                        IF r \in D THEN [run_heads[r] EXCEPT !.last = Tombstone(r, now),
                                                             !.deleted = TRUE]
                                   ELSE run_heads[r]]
     /\ run_locators' = [r \in Runs |->
                           IF r \in D THEN [run_locators[r] EXCEPT !.last = Tombstone(r, now)]
                                      ELSE run_locators[r]]
     /\ run_deletions' = run_deletions \cup D
     /\ UNCHANGED <<objects, trace_segments, compacted, object_deleted, job,
                    cleaner, acked>>

DeleteRun(r, now) ==
  /\ run_heads[r] # NoHead
  /\ ~run_heads[r].deleted
  /\ DeleteRunsInTx({r}, now)
  /\ UNCHANGED expiring

\* expire_project_runs_before selects its candidates outside the transaction.
RetentionSelect(cutoff) ==
  /\ expiring = {}
  /\ expiring' = {r \in Runs : /\ run_heads[r] # NoHead
                               /\ ~run_heads[r].deleted
                               /\ run_heads[r].ver.start < cutoff}
  /\ UNCHANGED <<objects, tables, next, job, cleaner, acked>>

RetentionExpire(now) ==
  /\ expiring # {}
  /\ DeleteRunsInTx(expiring, now)
  /\ expiring' = {}

RetentionFail ==
  /\ expiring # {}
  /\ expiring' = {}
  /\ UNCHANGED <<objects, tables, next, job, cleaner, acked>>

----------------------------------------------------------------------------
(* cleanup_compacted_objects.  The grace period decides which of the compacted *)
(* segments are old enough: any of them may be.                                *)

CleanupSelect ==
  /\ ~cleaner.busy
  /\ \E S \in SUBSET (compacted \ object_deleted) :
        /\ S # {}
        /\ cleaner' = [busy |-> TRUE, candidates |-> S,
                       left |-> UNION {ObjectsOf(u) : u \in S}]
  /\ UNCHANGED <<objects, tables, next, job, expiring, acked>>

\* The candidates are deleted by id, the segment before its search index.
DeletedBefore(o, q) == \/ o[1] < q[1]
                       \/ o[1] = q[1] /\ (o[2] = "segment" \/ o = q)

CleanupDelete ==
  \E o \in cleaner.left :
    /\ \A q \in cleaner.left : DeletedBefore(o, q)
    /\ objects' = objects \ {o}
    /\ cleaner' = [cleaner EXCEPT !.left = @ \ {o}]
    /\ UNCHANGED <<tables, next, job, expiring, acked>>

\* Variant: the rows are marked before the objects are deleted.
CleanupMarkEarly ==
  /\ cleaner.busy
  /\ object_deleted' = object_deleted \cup cleaner.candidates
  /\ cleaner' = IdleCleaner
  /\ UNCHANGED <<objects, trace_segments, compacted, run_events, run_heads,
                 run_locators, run_deletions, next, job, expiring, acked>>

CleanupMark ==
  /\ cleaner.busy
  /\ cleaner.left = {}
  /\ object_deleted' = object_deleted \cup cleaner.candidates
  /\ cleaner' = IdleCleaner
  /\ UNCHANGED <<objects, trace_segments, compacted, run_events, run_heads,
                 run_locators, run_deletions, next, job, expiring, acked>>

CleanupFail ==
  /\ cleaner.busy
  /\ cleaner' = IdleCleaner
  /\ UNCHANGED <<objects, tables, next, job, expiring, acked>>

----------------------------------------------------------------------------
Persist(p) == \/ FilterDone(p)
              \/ FilterChunk(p)
              \/ PutSegment(p)
              \/ PutSearchIndex(p)
              \/ CommitWritten(p)
              \/ CommitUnanswered(p)
              \/ CommitConflict(p)
              \/ Fail(p)

Write(w) == \/ \E b \in Batches : Submit(w, b)
            \/ Acknowledge(w)

Compact(c) == \/ CompactList(c)
              \/ CompactPlan(c)
              \/ CompactRead(c)
              \/ CompactMark(c)

Delete == \/ \E r \in Runs, now \in Times : DeleteRun(r, now)
          \/ \E cutoff \in Times : RetentionSelect(cutoff)
          \/ \E now \in Times : RetentionExpire(now)
          \/ RetentionFail

Cleanup == \/ CleanupSelect
           \/ CleanupDelete
           \/ CleanupMark
           \/ CleanupFail

Next == \/ \E p \in Procs : Persist(p)
        \/ \E w \in Writers : Write(w)
        \/ \E c \in Compactors : Compact(c)
        \/ Delete
        \/ Cleanup

Spec == Init /\ [][Next]_vars

----------------------------------------------------------------------------
(* Properties. *)

Phases == {"idle", "plan", "read", "filter", "put", "index", "commit", "done"}
Objects == Nat \X {"segment", "index"}
Job == [pc : Phases, todo : SUBSET Row, cur : SUBSET Row, seg : Nat,
        rows : SUBSET Row, old : SUBSET Nat, plan : SUBSET Event]

\* Every variable holds rows of the shape that the migrations give its table.
TypeOK ==
  /\ objects \subseteq Objects
  /\ trace_segments \subseteq Nat
  /\ compacted \subseteq Nat
  /\ object_deleted \subseteq Nat
  /\ run_events \subseteq Event
  /\ run_heads \in [Runs -> RunHead \cup {NoHead}]
  /\ run_locators \in [Runs -> Locator \cup {NoHead}]
  /\ run_deletions \subseteq Runs
  /\ next \in Nat
  /\ job \in [Procs -> Job]
  /\ expiring \subseteq Runs
  /\ cleaner \in [busy : BOOLEAN, candidates : SUBSET Nat, left : SUBSET Objects]
  /\ acked \subseteq Row

\* docs/operations.md, Failure Modes: metadata never points at a missing
\* object.  Both objects of every segment that queries may read are in the
\* store, whatever writer failed or crashed and wherever a cleanup stopped.
ReferencedObjectsExist ==
  \A u \in trace_segments \ compacted : ObjectsOf(u) \subseteq objects

\* No compaction hides a run: the current version of a run that was not
\* deleted is in a segment that the query planner accepts (compacted_at is
\* null), although compact_project decides from lists it read earlier, two
\* compactors may overlap, and ingest and deletes go on meanwhile.
VisibleRunsAreListed ==
  \A r \in Runs : Visible(r) => run_heads[r].ver.seg \in trace_segments \ compacted

\* An acknowledged batch is durable: every record of it is an event, and its
\* run is deleted or shows that event's version or a later one, through
\* duplicate filtering, conflicts, unanswered commits, retries and compaction.
AckedBatchesAreDurable ==
  \A row \in acked :
    \E e \in run_events :
       /\ IdempotencyKey(e) = IdempotencyKey(row)
       /\ \/ row.run \in run_deletions
          \/ /\ Visible(row.run)
             /\ NotAfter(e, run_heads[row.run].last)

\* replay_event_locator: the events in order of time and id; a tombstone undoes
\* what came before, any other event is the version from then on.  Like the
\* locator that it starts from, replay ignores a run in a compacted segment.
Replay(r) ==
  IF \/ run_locators[r] = NoHead
     \/ run_locators[r].ver.seg \in compacted
     \/ Latest(EventsOf(r)).kind = "tombstone"
  THEN NoHead
  ELSE Latest(EventsOf(r))

\* SMITHDB_PARITY_PLAN.md, Epic 1.1: replaying the events of a run gives its
\* current head.  For the runs that were never deleted: a tombstone carries the
\* server's clock, and may be ordered before the events that it deletes.
ReplayGivesTheLiveHead ==
  \A r \in Runs : Visible(r) => Replay(r) = run_heads[r].ver

\* Loads by run id and by trace (run_locators, trace_locators) find the version
\* that listing finds (run_heads), deletes and out-of-order events included.
LookupAgreesWithListing ==
  \A r \in Runs :
    /\ (run_heads[r] = NoHead) <=> (run_locators[r] = NoHead)
    /\ run_heads[r] # NoHead =>
         /\ run_locators[r].ver = run_heads[r].ver
         /\ run_locators[r].last = run_heads[r].last

\* A segment is recorded as reclaimed only when neither of its objects is left,
\* however often the cleanup failed between two deletes.
ReclaimedSegmentsLeaveNothing ==
  \A u \in object_deleted : ObjectsOf(u) \cap objects = {}

----------------------------------------------------------------------------
(* The inductive invariants: ObjectInv behind ReferencedObjectsExist, with it   *)
(* ReclaimInv behind ReclaimedSegmentsLeaveNothing, HeadInv behind              *)
(* VisibleRunsAreListed, CurrentInv, from which and HeadInv                     *)
(* ReplayGivesTheLiveHead follows, and AckInv, from which and HeadInv           *)
(* AckedBatchesAreDurable follows.                                              *)

Writing(p) == job[p].pc \in {"index", "commit"}

\* The counter is ahead of every number in use; a segment in the making has a
\* number of its own and the objects that its task has put.
SegmentsInTheMaking ==
  /\ \A u \in trace_segments : u < next
  /\ \A e \in run_events : e.tx < next
  /\ \A p \in Procs : Writing(p) =>
       /\ job[p].seg < next
       /\ job[p].seg \notin trace_segments
       /\ <<job[p].seg, "segment">> \in objects
       /\ job[p].pc = "commit" => <<job[p].seg, "index">> \in objects
       /\ \A q \in Procs : Writing(q) /\ q # p => job[q].seg # job[p].seg

\* The cleanup deletes only objects of compacted segments.
CleanupIsConfined ==
  /\ compacted \subseteq trace_segments
  /\ cleaner.candidates \subseteq compacted
  /\ cleaner.left \subseteq UNION {ObjectsOf(u) : u \in cleaner.candidates}

\* What a compactor listed are segments; compacted segments are, too.
OldSegmentsExist == \A c \in Compactors : job[c].old \subseteq trace_segments

ObjectInv == /\ SegmentsInTheMaking
             /\ CleanupIsConfined
             /\ OldSegmentsExist
             /\ ReferencedObjectsExist

\* Only compacted segments are reclaimed, and of a segment that is being
\* reclaimed only the objects that the cleanup has yet to delete can be there.
ReclaimInv ==
  /\ object_deleted \subseteq compacted
  /\ \A u \in cleaner.candidates : ObjectsOf(u) \cap objects \subseteq cleaner.left
  /\ ReclaimedSegmentsLeaveNothing

\* A head is an event of a known segment, a deletion mark on it is backed by
\* run_deletions, and until then it is the latest of the events of its run.
HeadsAreLatest ==
  \A r \in Runs : run_heads[r] # NoHead =>
    LET h == run_heads[r] IN
      /\ h.ver.run = r
      /\ h.ver.seg \in trace_segments
      /\ h.ver.tx = h.ver.seg
      /\ h.ver.time = EventTime(h.ver)
      /\ h.deleted => r \in run_deletions
      /\ ~h.deleted => h.last = h.ver
      /\ Visible(r) => \A e \in run_events : e.run = r => NotAfter(e, h.last)

\* A run has an event only if it has a head, and a snapshot is younger than the
\* segments that it replaces.
EventsAreApplied ==
  \A e \in run_events :
    /\ run_heads[e.run] # NoHead
    /\ e.kind # "tombstone" => e.time = EventTime(e)
    /\ e.kind = "compact" => \A u \in e.batch : u < e.tx

\* The rows by which compactor c will move runs out of its old segments.
Pending(c) == IF job[c].pc = "read"
              THEN {CompactRow(e, job[c].old) : e \in job[c].plan}
              ELSE job[c].todo \cup job[c].cur

\* Once a compactor has planned, every visible run that is still in one of its
\* old segments is among the rows it has yet to write.
Covers(c) ==
  job[c].pc # "idle" =>
    /\ Writing(c) => \A u \in job[c].old : u < job[c].seg
    /\ job[c].pc \notin {"put", "index", "commit"} => job[c].cur = {}
    /\ job[c].pc = "done" => job[c].todo = {}
    /\ job[c].pc # "plan" =>
         \A r \in Runs : Visible(r) /\ run_heads[r].ver.seg \in job[c].old
                           => CompactRow(run_heads[r].ver, job[c].old) \in Pending(c)

CompactorsCoverTheirSegments == \A c \in Compactors : Covers(c)

\* The rows of a compactor carry its batch key; no other task has such rows.
CarriesBatch(p) ==
  \A r \in job[p].todo \cup job[p].cur :
    IF p \in Compactors THEN r.kind = "compact" /\ r.batch = job[p].old
                        ELSE r.kind # "compact"

RowsCarryTheirBatch == \A p \in Procs : CarriesBatch(p)

HeadInv == /\ HeadsAreLatest
           /\ EventsAreApplied
           /\ RowsCarryTheirBatch
           /\ CompactorsCoverTheirSegments
           /\ VisibleRunsAreListed

\* The rows of a batch have their own places in it.
PlacesDiffer(rows) == \A r, q \in rows : r.pos = q.pos => r = q

\* The version of a head is an event other than a tombstone, and two events of a
\* run do not tie: transactions have their own ids, and in one transaction the
\* events of a run have their own places.
CurrentInv ==
  /\ \A r \in Runs : run_heads[r] # NoHead =>
        /\ run_heads[r].ver \in run_events
        /\ run_heads[r].ver.kind # "tombstone"
  /\ \A e, f \in run_events :
        e.run = f.run /\ e.tx = f.tx /\ e.pos = f.pos => e = f
  /\ \A p \in Procs :
        /\ PlacesDiffer(job[p].todo \cup job[p].cur)
        /\ \A e, f \in job[p].plan : e.run = f.run => e = f
        /\ Writing(p) => \A e \in run_events : e.tx # job[p].seg

\* A row that a writer was given is still to be written, or is an event.
KeepsRows(w) ==
  /\ job[w].pc \notin {"put", "index", "commit"} => job[w].cur = {}
  /\ job[w].pc = "done" => job[w].todo = {}
  /\ \A row \in job[w].rows :
       row \in job[w].todo \cup job[w].cur \/ IdempotencyKey(row) \in Keys

AckInv == /\ \A w \in Writers : KeepsRows(w)
          /\ \A row \in acked : IdempotencyKey(row) \in Keys
============================================================================
