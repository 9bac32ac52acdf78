-------------------------- MODULE TraceStoreProofs --------------------------
(***************************************************************************)
(* Proofs about TraceStore, for any runs, batches, writers, compactors and *)
(* bounds: type correctness; that neither a failed task, nor a cleanup,    *)
(* nor overlapping compactions lose what readers may ask for; that replay  *)
(* ends at the head; that an acknowledged record is durable.               *)
(***************************************************************************)
EXTENDS TraceStore, TLAPS

(* Rows, events and job records have their types. *)

LEMMA RowsOfType == \A b \in Batches : RowsOf(b) \subseteq Row
<1>1. SUFFICES ASSUME NEW b \in Batches, NEW i \in DOMAIN b
               PROVE  [run |-> b[i].run, kind |-> b[i].kind, start |-> b[i].start,
                       end |-> b[i].end, val |-> b[i].val, batch |-> {}, pos |-> i] \in Row
      BY DEF RowsOf
<1>2. b \in Seq(Record)
      BY BatchesAssumption
<1>3. i \in Nat /\ b[i] \in Record
      BY <1>2
<1> QED
      BY <1>3 DEF Row, Record, RowKinds

LEMMA EventOfType ==
  ASSUME NEW r \in Row, NEW u \in Nat
  PROVE  /\ EventOf(r, u) \in Event
         /\ EventTime(r) \in Nat
         /\ EventOf(r, u).run = r.run
         /\ EventOf(r, u).kind = r.kind
         /\ EventOf(r, u).batch = r.batch
         /\ EventOf(r, u).pos = r.pos
         /\ EventOf(r, u).seg = u
         /\ EventOf(r, u).tx = u
         /\ EventOf(r, u).time = EventTime(r)
         /\ EventTime(EventOf(r, u)) = EventTime(r)
<1>1. EventTime(r) \in Nat
      BY DEF Row, EventTime
<1> QED
      BY <1>1 DEF EventOf, Event, Row, EventTime, Kinds

LEMMA CompactRowType ==
  ASSUME NEW e \in Event, NEW old \in SUBSET Nat
  PROVE  /\ CompactRow(e, old) \in Row
         /\ CompactRow(e, old).run = e.run
         /\ CompactRow(e, old).kind = "compact"
         /\ CompactRow(e, old).batch = old
         /\ EventTime(CompactRow(e, old)) = EventTime(e)
BY ConstantsAssumption DEF CompactRow, Row, Event, RowKinds, EventTime

LEMMA IdleJobType == IdleJob \in Job
BY DEF IdleJob, Job, Phases

----------------------------------------------------------------------------
(* Type correctness. *)

\* persist_metadata keeps the tables well typed.
LEMMA PersistMetadataType ==
  ASSUME TypeOK, NEW u \in Nat, NEW rows \in SUBSET Row, PersistMetadata(u, rows)
  PROVE  /\ trace_segments' \subseteq Nat
         /\ compacted' \subseteq Nat
         /\ object_deleted' \subseteq Nat
         /\ run_events' \subseteq Event
         /\ run_heads' \in [Runs -> RunHead \cup {NoHead}]
         /\ run_locators' \in [Runs -> Locator \cup {NoHead}]
         /\ run_deletions' \subseteq Runs
<1> DEFINE E == {EventOf(r, u) : r \in rows}
           touched == {e.run : e \in E}
<1>1. E \subseteq Event
      BY EventOfType
<1>2. PICK newest \in [touched -> E] :
        /\ trace_segments' = trace_segments \cup {u}
        /\ run_events' = run_events \cup E
        /\ run_heads' = [r \in Runs |-> IF r \in touched
                                        THEN UpsertHead(run_heads[r], newest[r])
                                        ELSE run_heads[r]]
        /\ run_locators' = [r \in Runs |-> IF r \in touched
                                           THEN UpsertLocator(run_locators[r], newest[r])
                                           ELSE run_locators[r]]
        /\ UNCHANGED <<compacted, object_deleted, run_deletions>>
      BY DEF PersistMetadata
<1>3. \A n \in Event, h \in RunHead \cup {NoHead} : UpsertHead(h, n) \in RunHead \cup {NoHead}
      BY DEF UpsertHead, RunHead
<1>4. \A n \in Event, l \in Locator \cup {NoHead} : UpsertLocator(l, n) \in Locator \cup {NoHead}
      BY DEF UpsertLocator, Locator
<1>5. \A r \in touched : newest[r] \in Event
      BY <1>1
<1> HIDE DEF E, touched
<1>6. run_heads' \in [Runs -> RunHead \cup {NoHead}]
      BY <1>2, <1>3, <1>5 DEF TypeOK
<1>7. run_locators' \in [Runs -> Locator \cup {NoHead}]
      BY <1>2, <1>4, <1>5 DEF TypeOK
<1> QED
      BY <1>1, <1>2, <1>6, <1>7 DEF TypeOK

\* The tombstone of a run that has a head is an event.
LEMMA TombstoneType ==
  ASSUME TypeOK, NEW r \in Runs, run_heads[r] # NoHead, NEW now \in Nat
  PROVE  /\ Tombstone(r, now) \in Event
         /\ Tombstone(r, now).kind = "tombstone"
<1> DEFINE same == {e \in run_events : e.kind = "tombstone" /\ e.run = r /\ e.time = now}
<1>1. CASE same # {}
      <2>1. Tombstone(r, now) \in same
            BY <1>1 DEF Tombstone
      <2> QED
            BY <2>1 DEF TypeOK
<1>2. CASE same = {}
      <2>1. run_heads[r].ver \in Event
            BY DEF TypeOK, RunHead
      <2>2. Tombstone(r, now) = [run_heads[r].ver EXCEPT !.kind = "tombstone", !.batch = {},
                                                         !.tx = next, !.time = now]
            BY <1>2 DEF Tombstone
      <2> QED
            BY <2>1, <2>2 DEF TypeOK, Event, Kinds
<1> QED
      BY <1>1, <1>2

\* delete_run_in_tx keeps the tables well typed, and heads and locators alike.
LEMMA DeleteRunsInTxType ==
  ASSUME TypeOK, LookupAgreesWithListing,
         NEW R \in SUBSET Runs, NEW now \in Times, DeleteRunsInTx(R, now)
  PROVE  /\ run_events' \subseteq Event
         /\ run_heads' \in [Runs -> RunHead \cup {NoHead}]
         /\ run_locators' \in [Runs -> Locator \cup {NoHead}]
         /\ run_deletions' \subseteq Runs
         /\ next' \in Nat
         /\ LookupAgreesWithListing'
<1> DEFINE D == {r \in R : run_heads[r] # NoHead /\ ~run_heads[r].deleted}
<1>1. now \in Nat
      BY ConstantsAssumption
<1>2. \A r \in D : Tombstone(r, now) \in Event
      BY <1>1, TombstoneType
<1>3. \A r \in D : /\ run_heads[r] \in RunHead
                   /\ run_locators[r] \in Locator
      BY DEF TypeOK, LookupAgreesWithListing
<1> DEFINE H(r) == [run_heads[r] EXCEPT !.last = Tombstone(r, now), !.deleted = TRUE]
           L(r) == [run_locators[r] EXCEPT !.last = Tombstone(r, now)]
<1>4. \A r \in D : /\ H(r) \in RunHead
                   /\ H(r).ver = run_heads[r].ver
                   /\ H(r).last = Tombstone(r, now)
      BY <1>2, <1>3 DEF RunHead
<1>5. \A r \in D : /\ L(r) \in Locator
                   /\ L(r).ver = run_locators[r].ver
                   /\ L(r).last = Tombstone(r, now)
      BY <1>2, <1>3 DEF Locator
<1>6. /\ next' = next + 1
      /\ run_events' = run_events \cup {Tombstone(r, now) : r \in D}
      /\ run_heads' = [r \in Runs |-> IF r \in D THEN H(r) ELSE run_heads[r]]
      /\ run_locators' = [r \in Runs |-> IF r \in D THEN L(r) ELSE run_locators[r]]
      /\ run_deletions' = run_deletions \cup D
      BY DEF DeleteRunsInTx
<1>7. D \subseteq Runs
      OBVIOUS
<1> HIDE DEF D, H, L
<1>8. run_heads' \in [Runs -> RunHead \cup {NoHead}]
      BY <1>4, <1>6 DEF TypeOK
<1>9. run_locators' \in [Runs -> Locator \cup {NoHead}]
      BY <1>5, <1>6 DEF TypeOK
<1>10. LookupAgreesWithListing'
  <2> SUFFICES ASSUME NEW r \in Runs
               PROVE  /\ (run_heads'[r] = NoHead) <=> (run_locators'[r] = NoHead)
                      /\ run_heads'[r] # NoHead =>
                           /\ run_locators'[r].ver = run_heads'[r].ver
                           /\ run_locators'[r].last = run_heads'[r].last
      BY DEF LookupAgreesWithListing
  <2>1. CASE r \in D
    <3>1. run_heads'[r] = H(r) /\ run_locators'[r] = L(r)
          BY <2>1, <1>6
    <3>2. run_heads[r] # NoHead
          BY <2>1 DEF D
    <3>3. H(r) # NoHead /\ L(r) # NoHead
          BY <2>1, <1>4, <1>5, ConstantsAssumption
    <3> QED
          BY <2>1, <3>1, <3>2, <3>3, <1>4, <1>5 DEF LookupAgreesWithListing
  <2>2. CASE r \notin D
        BY <2>2, <1>6 DEF LookupAgreesWithListing
  <2> QED
        BY <2>1, <2>2
<1> QED
      BY <1>2, <1>6, <1>7, <1>8, <1>9, <1>10 DEF TypeOK

\* One guarded upsert does the same to a head and to its locator.
LEMMA PersistMetadataLookup ==
  ASSUME TypeOK, LookupAgreesWithListing,
         NEW u \in Nat, NEW rows \in SUBSET Row, PersistMetadata(u, rows)
  PROVE  LookupAgreesWithListing'
<1> DEFINE E == {EventOf(r, u) : r \in rows}
           touched == {e.run : e \in E}
<1>1. PICK newest \in [touched -> E] :
        /\ run_heads' = [r \in Runs |-> IF r \in touched
                                        THEN UpsertHead(run_heads[r], newest[r])
                                        ELSE run_heads[r]]
        /\ run_locators' = [r \in Runs |-> IF r \in touched
                                           THEN UpsertLocator(run_locators[r], newest[r])
                                           ELSE run_locators[r]]
      BY DEF PersistMetadata
<1>2. \A r \in touched : newest[r] \in Event
      BY EventOfType
<1> HIDE DEF E, touched
<1> SUFFICES ASSUME NEW r \in Runs
             PROVE  /\ (run_heads'[r] = NoHead) <=> (run_locators'[r] = NoHead)
                    /\ run_heads'[r] # NoHead =>
                         /\ run_locators'[r].ver = run_heads'[r].ver
                         /\ run_locators'[r].last = run_heads'[r].last
    BY DEF LookupAgreesWithListing
<1>3. CASE r \notin touched
      BY <1>1, <1>3 DEF LookupAgreesWithListing
<1>4. CASE r \in touched
  <2> DEFINE n == newest[r]
             h == [ver |-> n, last |-> n, deleted |-> FALSE]
             l == [ver |-> n, last |-> n]
  <2>1. h \in RunHead /\ l \in Locator
        BY <1>2, <1>4 DEF RunHead, Locator
  <2>2. h # NoHead /\ l # NoHead
        BY <2>1, ConstantsAssumption
  <2>3. CASE run_heads[r] = NoHead \/ NotAfter(run_heads[r].last, n)
    <3>1. run_heads'[r] = h
          BY <1>1, <1>4, <2>3 DEF UpsertHead
    <3>2. run_locators[r] = NoHead \/ NotAfter(run_locators[r].last, n)
          BY <2>3 DEF LookupAgreesWithListing
    <3>3. run_locators'[r] = l
          BY <1>1, <1>4, <3>2 DEF UpsertLocator
    <3> QED
          BY <2>2, <3>1, <3>3
  <2>4. CASE ~(run_heads[r] = NoHead \/ NotAfter(run_heads[r].last, n))
    <3>1. run_heads'[r] = run_heads[r]
          BY <1>1, <1>4, <2>4 DEF UpsertHead
    <3>2. ~(run_locators[r] = NoHead \/ NotAfter(run_locators[r].last, n))
          BY <2>4 DEF LookupAgreesWithListing
    <3>3. run_locators'[r] = run_locators[r]
          BY <1>1, <1>4, <3>2 DEF UpsertLocator
    <3> QED
          BY <3>1, <3>3 DEF LookupAgreesWithListing
  <2> QED
        BY <2>3, <2>4
<1> QED
      BY <1>3, <1>4

\* The steps of persist_partition_records other than the commit.
LEMMA PersistLoopType ==
  ASSUME TypeOK, NEW p \in Procs,
         \/ FilterDone(p) \/ FilterChunk(p) \/ PutSegment(p) \/ PutSearchIndex(p)
         \/ CommitConflict(p) \/ Fail(p)
  PROVE  TypeOK' /\ UNCHANGED <<run_heads, run_locators>>
<1>1. job[p] \in Job
      BY DEF TypeOK
<1>2. CASE FilterDone(p)
  <2>1. Rest(p) \subseteq Row
        BY <1>1 DEF Rest, Job
  <2>2. job' \in [Procs -> Job]
        BY <1>1, <1>2, <2>1 DEF FilterDone, TypeOK, Job, Phases
  <2> QED
        BY <1>2, <2>2 DEF FilterDone, TypeOK, tables
<1>3. CASE FilterChunk(p)
  <2>1. Rest(p) \subseteq Row /\ Fresh(p) \subseteq Row
        BY <1>1 DEF Rest, Fresh, FirstPartition, Job
  <2>2. NextChunk(Fresh(p)) \subseteq Row
        BY <2>1 DEF NextChunk
  <2>3. job' \in [Procs -> Job]
        BY <1>1, <1>3, <2>1, <2>2 DEF FilterChunk, TypeOK, Job, Phases
  <2> QED
        BY <1>3, <2>3 DEF FilterChunk, TypeOK, tables
<1>4. CASE PutSegment(p)
  <2>1. job' \in [Procs -> Job]
        BY <1>1, <1>4 DEF PutSegment, TypeOK, Job, Phases
  <2>2. objects' \subseteq Objects
        BY <1>4 DEF PutSegment, TypeOK, Objects
  <2> QED
        BY <1>4, <2>1, <2>2 DEF PutSegment, TypeOK, tables
<1>5. CASE PutSearchIndex(p)
  <2>1. job' \in [Procs -> Job]
        BY <1>1, <1>5 DEF PutSearchIndex, TypeOK, Job, Phases
  <2>2. objects' \subseteq Objects
        BY <1>1, <1>5 DEF PutSearchIndex, TypeOK, Objects, Job
  <2> QED
        BY <1>5, <2>1, <2>2 DEF PutSearchIndex, TypeOK, tables
<1>6. CASE CommitConflict(p)
  <2>1. job' \in [Procs -> Job]
        BY <1>1, <1>6 DEF CommitConflict, TypeOK, Job, Phases
  <2> QED
        BY <1>6, <2>1 DEF CommitConflict, TypeOK, tables
<1>7. CASE Fail(p)
  <2>1. job' \in [Procs -> Job]
        BY <1>7, IdleJobType DEF Fail, TypeOK
  <2> QED
        BY <1>7, <2>1 DEF Fail, TypeOK, tables
<1> QED
      BY <1>2, <1>3, <1>4, <1>5, <1>6, <1>7

\* The commit of a segment's metadata, answered or not.
LEMMA CommitType ==
  ASSUME TypeOK, LookupAgreesWithListing, NEW p \in Procs,
         CommitWritten(p) \/ CommitUnanswered(p)
  PROVE  TypeOK' /\ LookupAgreesWithListing'
<1>1. job[p] \in Job
      BY DEF TypeOK
<1>2. job[p].seg \in Nat /\ job[p].cur \in SUBSET Row
      BY <1>1 DEF Job
<1>3. PersistMetadata(job[p].seg, job[p].cur)
      BY DEF CommitWritten, CommitUnanswered
<1>4. job' \in [Procs -> Job]
  <2>1. CASE CommitWritten(p)
        BY <1>1, <2>1 DEF CommitWritten, TypeOK, Job, Phases
  <2>2. CASE CommitUnanswered(p)
        BY <2>2, IdleJobType DEF CommitUnanswered, TypeOK
  <2> QED
        BY <2>1, <2>2
<1>5. UNCHANGED <<objects, next, expiring, cleaner, acked>>
      BY DEF CommitWritten, CommitUnanswered
<1>6. LookupAgreesWithListing'
      BY <1>2, <1>3, PersistMetadataLookup
<1>7. /\ trace_segments' \subseteq Nat
      /\ compacted' \subseteq Nat
      /\ object_deleted' \subseteq Nat
      /\ run_events' \subseteq Event
      /\ run_heads' \in [Runs -> RunHead \cup {NoHead}]
      /\ run_locators' \in [Runs -> Locator \cup {NoHead}]
      /\ run_deletions' \subseteq Runs
      BY <1>2, <1>3, PersistMetadataType
<1> QED
      BY <1>4, <1>5, <1>6, <1>7 DEF TypeOK

\* Submitting and acknowledging a batch.
LEMMA WriteType ==
  ASSUME TypeOK, NEW w \in Writers, Write(w)
  PROVE  TypeOK' /\ UNCHANGED <<run_heads, run_locators>>
<1>0. w \in Procs
      BY DEF Procs
<1>1. ASSUME NEW b \in Batches, Submit(w, b)
      PROVE  TypeOK' /\ UNCHANGED <<run_heads, run_locators>>
  <2>1. RowsOf(b) \in SUBSET Row
        BY RowsOfType
  <2>2. [IdleJob EXCEPT !.pc = "filter", !.todo = RowsOf(b), !.rows = RowsOf(b)] \in Job
        BY <2>1 DEF IdleJob, Job, Phases
  <2>3. job' \in [Procs -> Job]
        BY <1>0, <1>1, <2>2 DEF Submit, TypeOK
  <2> QED
        BY <1>1, <2>3 DEF Submit, TypeOK, tables
<1>2. CASE Acknowledge(w)
  <2>1. job' \in [Procs -> Job]
        BY <1>0, <1>2, IdleJobType DEF Acknowledge, TypeOK
  <2>2. job[w] \in Job
        BY <1>0 DEF TypeOK
  <2>3. acked' \subseteq Row
        BY <1>2, <2>2 DEF Acknowledge, TypeOK, Job
  <2> QED
        BY <1>2, <2>1, <2>3 DEF Acknowledge, TypeOK, tables
<1> QED
      BY <1>1, <1>2 DEF Write

\* The steps of compact_project around its writes.
LEMMA CompactType ==
  ASSUME TypeOK, NEW c \in Compactors, Compact(c)
  PROVE  TypeOK' /\ UNCHANGED <<run_heads, run_locators>>
<1>0. c \in Procs
      BY DEF Procs
<1>1. job[c] \in Job
      BY <1>0 DEF TypeOK
<1>2. CASE CompactList(c)
  <2>1. [IdleJob EXCEPT !.pc = "plan", !.old = trace_segments \ compacted] \in Job
        BY DEF IdleJob, Job, Phases, TypeOK
  <2>2. job' \in [Procs -> Job]
        BY <1>0, <1>2, <2>1 DEF CompactList, TypeOK
  <2> QED
        BY <1>2, <2>2 DEF CompactList, TypeOK, tables
<1>3. CASE CompactPlan(c)
  <2>1. Planned \subseteq Event
        BY DEF Planned, Visible, TypeOK, RunHead
  <2>2. job' \in [Procs -> Job]
        BY <1>0, <1>1, <1>3, <2>1 DEF CompactPlan, TypeOK, Job, Phases
  <2> QED
        BY <1>3, <2>2 DEF CompactPlan, TypeOK, tables
<1>4. CASE CompactRead(c)
  <2>1. ReadRows(c) \in SUBSET Row
        BY <1>1, CompactRowType DEF ReadRows, Job
  <2>2. [job[c] EXCEPT !.pc = "filter", !.todo = ReadRows(c)] \in Job
        BY <1>1, <2>1 DEF Job, Phases
  <2>3. job' \in [Procs -> Job]
        BY <1>0, <1>4, <2>2, IdleJobType DEF CompactRead, TypeOK
  <2> QED
        BY <1>4, <2>3 DEF CompactRead, TypeOK, tables
<1>5. CASE CompactMark(c)
  <2>1. job' \in [Procs -> Job]
        BY <1>0, <1>5, IdleJobType DEF CompactMark, TypeOK
  <2>2. compacted' \subseteq Nat
        BY <1>1, <1>5 DEF CompactMark, TypeOK, Job
  <2> QED
        BY <1>5, <2>1, <2>2 DEF CompactMark, TypeOK
<1> QED
      BY <1>2, <1>3, <1>4, <1>5 DEF Compact

\* Deletes and retention.
LEMMA DeleteType ==
  ASSUME TypeOK, LookupAgreesWithListing, Delete
  PROVE  TypeOK' /\ LookupAgreesWithListing'
<1>1. ASSUME NEW R \in SUBSET Runs, NEW now \in Times, DeleteRunsInTx(R, now),
             expiring' \subseteq Runs
      PROVE  TypeOK' /\ LookupAgreesWithListing'
  <2>1. UNCHANGED <<objects, trace_segments, compacted, object_deleted, job, cleaner, acked>>
        BY <1>1 DEF DeleteRunsInTx
  <2>2. /\ run_events' \subseteq Event
        /\ run_heads' \in [Runs -> RunHead \cup {NoHead}]
        /\ run_locators' \in [Runs -> Locator \cup {NoHead}]
        /\ run_deletions' \subseteq Runs
        /\ next' \in Nat
        /\ LookupAgreesWithListing'
        BY <1>1, DeleteRunsInTxType
  <2> QED
        BY <1>1, <2>1, <2>2 DEF TypeOK
<1>2. ASSUME NEW r \in Runs, NEW now \in Times, DeleteRun(r, now)
      PROVE  TypeOK' /\ LookupAgreesWithListing'
  <2>1. {r} \in SUBSET Runs /\ DeleteRunsInTx({r}, now)
        BY <1>2 DEF DeleteRun
  <2>2. expiring' \subseteq Runs
        BY <1>2 DEF DeleteRun, TypeOK
  <2> QED
        BY <1>1, <2>1, <2>2
<1>3. ASSUME NEW now \in Times, RetentionExpire(now)
      PROVE  TypeOK' /\ LookupAgreesWithListing'
  <2>1. expiring \in SUBSET Runs /\ DeleteRunsInTx(expiring, now) /\ expiring' = {}
        BY <1>3 DEF RetentionExpire, TypeOK
  <2> QED
        BY <1>1, <2>1
<1>4. ASSUME NEW cutoff \in Times, RetentionSelect(cutoff)
      PROVE  TypeOK' /\ LookupAgreesWithListing'
      BY <1>4 DEF RetentionSelect, TypeOK, LookupAgreesWithListing, tables
<1>5. CASE RetentionFail
      BY <1>5 DEF RetentionFail, TypeOK, LookupAgreesWithListing, tables
<1> QED
      BY <1>2, <1>3, <1>4, <1>5 DEF Delete

\* The cleanup.
LEMMA CleanupType ==
  ASSUME TypeOK, Cleanup
  PROVE  TypeOK' /\ UNCHANGED <<run_heads, run_locators>>
<1>1. CASE CleanupSelect
  <2>1. PICK S \in SUBSET (compacted \ object_deleted) :
              cleaner' = [busy |-> TRUE, candidates |-> S, left |-> UNION {ObjectsOf(u) : u \in S}]
        BY <1>1 DEF CleanupSelect
  <2>2. S \in SUBSET Nat
        BY DEF TypeOK
  <2>3. UNION {ObjectsOf(u) : u \in S} \in SUBSET Objects
        BY <2>2 DEF ObjectsOf, Objects
  <2> QED
        BY <1>1, <2>1, <2>2, <2>3 DEF CleanupSelect, TypeOK, tables
<1>2. CASE CleanupDelete
      BY <1>2 DEF CleanupDelete, TypeOK, tables
<1>3. CASE CleanupMark
      BY <1>3 DEF CleanupMark, TypeOK, IdleCleaner
<1>4. CASE CleanupFail
      BY <1>4 DEF CleanupFail, TypeOK, tables, IdleCleaner
<1> QED
      BY <1>1, <1>2, <1>3, <1>4 DEF Cleanup

\* One step of the specification.
LEMMA TypeStep ==
  ASSUME TypeOK, LookupAgreesWithListing, [Next]_vars
  PROVE  TypeOK' /\ LookupAgreesWithListing'
<1>1. ASSUME TypeOK', UNCHANGED <<run_heads, run_locators>>
      PROVE  TypeOK' /\ LookupAgreesWithListing'
      BY <1>1 DEF LookupAgreesWithListing
<1>2. ASSUME NEW p \in Procs, Persist(p)
      PROVE  TypeOK' /\ LookupAgreesWithListing'
      BY <1>1, <1>2, PersistLoopType, CommitType DEF Persist
<1>3. ASSUME NEW w \in Writers, Write(w)
      PROVE  TypeOK' /\ LookupAgreesWithListing'
      BY <1>1, <1>3, WriteType
<1>4. ASSUME NEW c \in Compactors, Compact(c)
      PROVE  TypeOK' /\ LookupAgreesWithListing'
      BY <1>1, <1>4, CompactType
<1>5. CASE Delete
      BY <1>5, DeleteType
<1>6. CASE Cleanup
      BY <1>1, <1>6, CleanupType
<1>7. CASE UNCHANGED vars
      BY <1>7 DEF vars, TypeOK, LookupAgreesWithListing
<1> QED
      BY <1>2, <1>3, <1>4, <1>5, <1>6, <1>7 DEF Next

LEMMA TypeInit == Init => TypeOK /\ LookupAgreesWithListing
<1> SUFFICES ASSUME Init PROVE TypeOK /\ LookupAgreesWithListing
    OBVIOUS
<1>1. job \in [Procs -> Job]
      BY IdleJobType DEF Init
<1> QED
      BY <1>1 DEF Init, TypeOK, LookupAgreesWithListing, IdleCleaner

\* Type correctness.  It rests on the agreement of heads and locators: a delete
\* advances the locator of every run whose head it marks.
THEOREM TypeCorrectness == Spec => [](TypeOK /\ LookupAgreesWithListing)
<1>1. (TypeOK /\ LookupAgreesWithListing) /\ [Next]_vars => (TypeOK /\ LookupAgreesWithListing)'
      BY TypeStep
<1> QED
      BY <1>1, TypeInit, PTL DEF Spec

\* Every table, object and task keeps its type, whatever interleaves.
THEOREM TypeSafety == Spec => []TypeOK
BY TypeCorrectness, PTL

\* Lookups by run id and by trace agree with the listing of run_heads: a guarded
\* upsert or a delete never moves one without the other.
THEOREM LookupSafety == Spec => []LookupAgreesWithListing
BY TypeCorrectness, PTL

----------------------------------------------------------------------------
(* Objects: what the metadata refers to is in the store. *)

\* A task moves to a phase in which it writes no segment.
LEMMA QuietStep ==
  ASSUME ObjectInv, NEW p \in Procs,
         \A q \in Procs : q # p => job'[q] = job[q],
         job'[p].pc \notin {"index", "commit"},
         p \in Compactors => job'[p].old \subseteq trace_segments,
         UNCHANGED <<objects, tables, next, cleaner>>
  PROVE  ObjectInv'
<1> USE DEF tables
<1>1. ~Writing(p)'
      BY DEF Writing
<1>2. \A q \in Procs : q # p => (Writing(q)' <=> Writing(q))
      BY DEF Writing
<1>3. SegmentsInTheMaking'
      BY <1>1, <1>2 DEF SegmentsInTheMaking, ObjectInv
<1>4. CleanupIsConfined'
      BY DEF CleanupIsConfined, ObjectInv
<1>5. OldSegmentsExist'
      BY DEF OldSegmentsExist, ObjectInv, Procs
<1>6. ReferencedObjectsExist'
      BY DEF ReferencedObjectsExist, ObjectInv
<1> QED
      BY <1>3, <1>4, <1>5, <1>6 DEF ObjectInv

\* The steps of a task that write no object and no row.
LEMMA ObjectsQuiet ==
  ASSUME TypeOK, ObjectInv,
         \/ \E p \in Procs : \/ FilterDone(p) \/ FilterChunk(p)
                             \/ CommitConflict(p) \/ Fail(p)
         \/ \E w \in Writers : Write(w)
         \/ \E c \in Compactors : CompactList(c) \/ CompactPlan(c) \/ CompactRead(c)
  PROVE  ObjectInv'
<1>0. Writers \subseteq Procs /\ Compactors \subseteq Procs
      BY DEF Procs
<1>1. ASSUME NEW p \in Procs, p \in Compactors
      PROVE  job[p].old \subseteq trace_segments
      BY <1>1 DEF ObjectInv, OldSegmentsExist
<1>2. ASSUME NEW p \in Procs, FilterDone(p) PROVE ObjectInv'
  <2>1. /\ \A q \in Procs : q # p => job'[q] = job[q]
        /\ job'[p].pc \in {"done", "filter"}
        /\ job'[p].old = job[p].old
        BY <1>2 DEF FilterDone, TypeOK, Job
  <2> QED
        BY <1>1, <1>2, <2>1, QuietStep DEF FilterDone
<1>3. ASSUME NEW p \in Procs, FilterChunk(p) PROVE ObjectInv'
  <2>1. /\ \A q \in Procs : q # p => job'[q] = job[q]
        /\ job'[p].pc = "put"
        /\ job'[p].old = job[p].old
        BY <1>3 DEF FilterChunk, TypeOK, Job
  <2> QED
        BY <1>1, <1>3, <2>1, QuietStep DEF FilterChunk
<1>4. ASSUME NEW p \in Procs, CommitConflict(p) PROVE ObjectInv'
  <2>1. /\ \A q \in Procs : q # p => job'[q] = job[q]
        /\ job'[p].pc = "filter"
        /\ job'[p].old = job[p].old
        BY <1>4 DEF CommitConflict, TypeOK, Job
  <2> QED
        BY <1>1, <1>4, <2>1, QuietStep DEF CommitConflict
<1>5. ASSUME NEW p \in Procs, Fail(p) PROVE ObjectInv'
  <2>1. /\ \A q \in Procs : q # p => job'[q] = job[q]
        /\ job'[p].pc = "idle"
        /\ job'[p].old = {}
        BY <1>5 DEF Fail, TypeOK, IdleJob
  <2> QED
        BY <1>5, <2>1, QuietStep DEF Fail
<1>6. ASSUME NEW w \in Writers, Write(w) PROVE ObjectInv'
  <2>1. w \notin Compactors
        BY ConstantsAssumption
  <2>2. ASSUME NEW b \in Batches, Submit(w, b) PROVE ObjectInv'
    <3>1. /\ \A q \in Procs : q # w => job'[q] = job[q]
          /\ job'[w].pc = "filter"
          BY <1>0, <2>2 DEF Submit, TypeOK, IdleJob
    <3> QED
          BY <1>0, <2>1, <2>2, <3>1, QuietStep DEF Submit
  <2>3. CASE Acknowledge(w)
    <3>1. /\ \A q \in Procs : q # w => job'[q] = job[q]
          /\ job'[w].pc = "idle"
          BY <1>0, <2>3 DEF Acknowledge, TypeOK, IdleJob
    <3> QED
          BY <1>0, <2>1, <2>3, <3>1, QuietStep DEF Acknowledge
  <2> QED
        BY <1>6, <2>2, <2>3 DEF Write
<1>7. ASSUME NEW c \in Compactors, CompactList(c) PROVE ObjectInv'
  <2>1. /\ \A q \in Procs : q # c => job'[q] = job[q]
        /\ job'[c].pc = "plan"
        /\ job'[c].old = trace_segments \ compacted
        BY <1>0, <1>7 DEF CompactList, TypeOK, IdleJob
  <2> QED
        BY <1>0, <1>7, <2>1, QuietStep DEF CompactList
<1>8. ASSUME NEW c \in Compactors, CompactPlan(c) PROVE ObjectInv'
  <2>1. /\ \A q \in Procs : q # c => job'[q] = job[q]
        /\ job'[c].pc = "read"
        /\ job'[c].old = job[c].old
        BY <1>0, <1>8 DEF CompactPlan, TypeOK, Job
  <2> QED
        BY <1>0, <1>1, <1>8, <2>1, QuietStep DEF CompactPlan
<1>9. ASSUME NEW c \in Compactors, CompactRead(c) PROVE ObjectInv'
  <2>1. job[c] \in Job
        BY <1>0 DEF TypeOK
  <2>2. /\ \A q \in Procs : q # c => job'[q] = job[q]
        /\ job'[c].pc \in {"idle", "filter"}
        /\ job'[c].old \in {{}, job[c].old}
        BY <1>0, <1>9, <2>1 DEF CompactRead, TypeOK, Job, IdleJob
  <2> QED
        BY <1>0, <1>1, <1>9, <2>2, QuietStep DEF CompactRead
<1> QED
      BY <1>2, <1>3, <1>4, <1>5, <1>6, <1>7, <1>8, <1>9

\* Putting the segment object, under a name that nothing uses yet.
LEMMA ObjectsPutSegment ==
  ASSUME TypeOK, ObjectInv, NEW p \in Procs, PutSegment(p)
  PROVE  ObjectInv'
<1> USE DEF tables
<1>1. /\ \A q \in Procs : q # p => job'[q] = job[q]
      /\ job'[p].pc = "index" /\ job'[p].seg = next /\ job'[p].old = job[p].old
      BY DEF PutSegment, TypeOK, Job
<1>2. /\ objects' = objects \cup {<<next, "segment">>}
      /\ next' = next + 1 /\ next \in Nat
      /\ UNCHANGED <<tables, cleaner>>
      BY DEF PutSegment, TypeOK
<1>3. \A q \in Procs : q # p => (Writing(q)' <=> Writing(q))
      BY <1>1 DEF Writing
<1>4. trace_segments \subseteq Nat /\ \A e \in run_events : e.tx \in Nat
      BY DEF TypeOK, Event
<1>5. \A q \in Procs : job[q].seg \in Nat
      BY DEF TypeOK, Job
<1>6. SegmentsInTheMaking'
  <2>1. (\A u \in trace_segments : u < next)' /\ (\A e \in run_events : e.tx < next)'
        BY <1>2, <1>4 DEF SegmentsInTheMaking, ObjectInv
  <2>2. ASSUME NEW q \in Procs, Writing(q)'
        PROVE  /\ job'[q].seg < next'
               /\ job'[q].seg \notin trace_segments'
               /\ <<job'[q].seg, "segment">> \in objects'
               /\ job'[q].pc = "commit" => <<job'[q].seg, "index">> \in objects'
               /\ \A o \in Procs : Writing(o)' /\ o # q => job'[o].seg # job'[q].seg
    <3>1. CASE q = p
          BY <1>1, <1>2, <1>3, <1>4, <1>5, <3>1 DEF SegmentsInTheMaking, ObjectInv
    <3>2. CASE q # p
          BY <1>1, <1>2, <1>3, <1>5, <2>2, <3>2 DEF SegmentsInTheMaking, ObjectInv
    <3> QED
          BY <3>1, <3>2
  <2> QED
        BY <2>1, <2>2 DEF SegmentsInTheMaking
<1>7. CleanupIsConfined'
      BY <1>2 DEF CleanupIsConfined, ObjectInv
<1>8. OldSegmentsExist'
      BY <1>1, <1>2 DEF OldSegmentsExist, ObjectInv, Procs
<1>9. ReferencedObjectsExist'
      BY <1>2 DEF ReferencedObjectsExist, ObjectInv
<1> QED
      BY <1>6, <1>7, <1>8, <1>9 DEF ObjectInv

\* Putting the search index object beside it.
LEMMA ObjectsPutSearchIndex ==
  ASSUME TypeOK, ObjectInv, NEW p \in Procs, PutSearchIndex(p)
  PROVE  ObjectInv'
<1> USE DEF tables
<1>1. /\ \A q \in Procs : q # p => job'[q] = job[q]
      /\ job'[p].pc = "commit" /\ job'[p].seg = job[p].seg /\ job'[p].old = job[p].old
      BY DEF PutSearchIndex, TypeOK, Job
<1>2. /\ objects' = objects \cup {<<job[p].seg, "index">>}
      /\ UNCHANGED <<tables, next, cleaner>>
      BY DEF PutSearchIndex
<1>3. Writing(p) /\ \A q \in Procs : Writing(q)' <=> Writing(q)
      BY <1>1 DEF Writing, PutSearchIndex
<1>4. SegmentsInTheMaking'
      BY <1>1, <1>2, <1>3 DEF SegmentsInTheMaking, ObjectInv
<1>5. CleanupIsConfined'
      BY <1>2 DEF CleanupIsConfined, ObjectInv
<1>6. OldSegmentsExist'
      BY <1>1, <1>2 DEF OldSegmentsExist, ObjectInv, Procs
<1>7. ReferencedObjectsExist'
      BY <1>2 DEF ReferencedObjectsExist, ObjectInv
<1> QED
      BY <1>4, <1>5, <1>6, <1>7 DEF ObjectInv

\* Committing: the new segment's objects were both put before.
LEMMA ObjectsCommit ==
  ASSUME TypeOK, ObjectInv, NEW p \in Procs, CommitWritten(p) \/ CommitUnanswered(p)
  PROVE  ObjectInv'
<1> DEFINE u == job[p].seg
           E == {EventOf(r, u) : r \in job[p].cur}
<1>1. /\ \A q \in Procs : q # p => job'[q] = job[q]
      /\ job'[p].pc \in {"filter", "idle"}
      /\ job'[p].old \in {{}, job[p].old}
  <2>1. CASE CommitWritten(p)
        BY <2>1 DEF CommitWritten, TypeOK, Job
  <2>2. CASE CommitUnanswered(p)
        BY <2>2 DEF CommitUnanswered, TypeOK, IdleJob
  <2> QED
        BY <2>1, <2>2
<1>2. /\ UNCHANGED <<objects, next, cleaner, compacted, object_deleted>>
      /\ trace_segments' = trace_segments \cup {u}
      /\ run_events' = run_events \cup E
      BY DEF CommitWritten, CommitUnanswered, PersistMetadata
<1>3. job[p].pc = "commit" /\ Writing(p)
      BY DEF CommitWritten, CommitUnanswered, Writing
<1>4. /\ u < next /\ ObjectsOf(u) \subseteq objects
      /\ \A q \in Procs : Writing(q) /\ q # p => job[q].seg # u
      BY <1>3 DEF SegmentsInTheMaking, ObjectInv, ObjectsOf
<1>5. ~Writing(p)' /\ \A q \in Procs : q # p => (Writing(q)' <=> Writing(q))
      BY <1>1 DEF Writing
<1>6. \A e \in E : e.tx = u
  <2>1. u \in Nat /\ job[p].cur \subseteq Row
        BY DEF TypeOK, Job
  <2> QED
        BY <2>1, EventOfType
<1> HIDE DEF u, E
<1>7. SegmentsInTheMaking'
      BY <1>1, <1>2, <1>4, <1>5, <1>6 DEF SegmentsInTheMaking, ObjectInv
<1>8. CleanupIsConfined'
      BY <1>2 DEF CleanupIsConfined, ObjectInv
<1>9. OldSegmentsExist'
      BY <1>1, <1>2 DEF OldSegmentsExist, ObjectInv, Procs
<1>10. ReferencedObjectsExist'
      BY <1>2, <1>4 DEF ReferencedObjectsExist, ObjectInv
<1> QED
      BY <1>7, <1>8, <1>9, <1>10 DEF ObjectInv

\* Marking the old segments compacted.
LEMMA ObjectsCompactMark ==
  ASSUME TypeOK, ObjectInv, NEW c \in Compactors, CompactMark(c)
  PROVE  ObjectInv'
<1>0. c \in Procs
      BY DEF Procs
<1>1. /\ \A q \in Procs : q # c => job'[q] = job[q]
      /\ job'[c].pc = "idle" /\ job'[c].old = {}
      BY <1>0 DEF CompactMark, TypeOK, IdleJob
<1>2. /\ compacted' = compacted \cup job[c].old
      /\ UNCHANGED <<objects, trace_segments, object_deleted, run_events, next, cleaner>>
      BY DEF CompactMark
<1>3. ~Writing(c)' /\ \A q \in Procs : q # c => (Writing(q)' <=> Writing(q))
      BY <1>1 DEF Writing
<1>4. SegmentsInTheMaking'
      BY <1>1, <1>2, <1>3 DEF SegmentsInTheMaking, ObjectInv
<1>5. CleanupIsConfined'
      BY <1>2 DEF CleanupIsConfined, ObjectInv, OldSegmentsExist
<1>6. OldSegmentsExist'
      BY <1>1, <1>2 DEF OldSegmentsExist, ObjectInv, Procs
<1>7. ReferencedObjectsExist'
      BY <1>2 DEF ReferencedObjectsExist, ObjectInv
<1> QED
      BY <1>4, <1>5, <1>6, <1>7 DEF ObjectInv

\* Logical deletes touch no object and no segment row.
LEMMA ObjectsDelete ==
  ASSUME TypeOK, ObjectInv, Delete
  PROVE  ObjectInv'
<1>1. ASSUME UNCHANGED <<objects, trace_segments, compacted, job, cleaner>>, next' \in Nat,
             next =< next', \A e \in run_events' : e.tx < next'
      PROVE  ObjectInv'
  <2>1. \A p \in Procs : Writing(p)' <=> Writing(p)
        BY <1>1 DEF Writing
  <2>2. trace_segments \subseteq Nat /\ next \in Nat /\ \A p \in Procs : job[p].seg \in Nat
        BY DEF TypeOK, Job
  <2>3. SegmentsInTheMaking'
        BY <1>1, <2>1, <2>2 DEF SegmentsInTheMaking, ObjectInv
  <2> QED
        BY <1>1, <2>3 DEF ObjectInv, CleanupIsConfined, OldSegmentsExist, ReferencedObjectsExist
<1>2. ASSUME NEW R \in SUBSET Runs, NEW now \in Times, DeleteRunsInTx(R, now)
      PROVE  ObjectInv'
  <2> DEFINE D == {r \in R : run_heads[r] # NoHead /\ ~run_heads[r].deleted}
  <2>1. /\ next' = next + 1
        /\ run_events' = run_events \cup {Tombstone(r, now) : r \in D}
        /\ UNCHANGED <<objects, trace_segments, compacted, job, cleaner>>
        BY <1>2 DEF DeleteRunsInTx
  <2>2. next \in Nat /\ \A e \in run_events : e.tx \in Nat /\ e.tx < next
        BY DEF TypeOK, Event, ObjectInv, SegmentsInTheMaking
  <2>3. ASSUME NEW r \in D PROVE Tombstone(r, now).tx < next + 1
    <3> DEFINE same == {e \in run_events : e.kind = "tombstone" /\ e.run = r /\ e.time = now}
    <3>1. CASE same # {}
      <4>1. Tombstone(r, now) \in run_events
            BY <3>1 DEF Tombstone
      <4> QED
            BY <2>2, <4>1
    <3>2. CASE same = {}
      <4>1. run_heads[r].ver \in Event
            BY DEF TypeOK, RunHead
      <4>2. Tombstone(r, now) = [run_heads[r].ver EXCEPT !.kind = "tombstone", !.batch = {},
                                                         !.tx = next, !.time = now]
            BY <3>2 DEF Tombstone
      <4> QED
            BY <2>2, <4>1, <4>2 DEF Event
    <3> QED
          BY <3>1, <3>2
  <2> HIDE DEF D
  <2> QED
        BY <1>1, <2>1, <2>2, <2>3
<1>3. ASSUME UNCHANGED <<objects, tables, next, job, cleaner>>
      PROVE  ObjectInv'
      BY <1>1, <1>3 DEF tables, TypeOK, ObjectInv, SegmentsInTheMaking
<1>4. ASSUME NEW r \in Runs, NEW now \in Times, DeleteRun(r, now) PROVE ObjectInv'
      BY <1>2, <1>4 DEF DeleteRun
<1>5. ASSUME NEW now \in Times, RetentionExpire(now) PROVE ObjectInv'
      BY <1>2, <1>5 DEF RetentionExpire, TypeOK
<1>6. ASSUME NEW cutoff \in Times, RetentionSelect(cutoff) PROVE ObjectInv'
      BY <1>3, <1>6 DEF RetentionSelect
<1>7. CASE RetentionFail
      BY <1>3, <1>7 DEF RetentionFail
<1> QED
      BY <1>4, <1>5, <1>6, <1>7 DEF Delete

\* The cleanup deletes objects of compacted segments: none of a segment in the
\* making, which has no row yet, and none of a segment that queries read.
LEMMA ObjectsCleanup ==
  ASSUME TypeOK, ObjectInv, Cleanup
  PROVE  ObjectInv'
<1> USE DEF tables
<1>1. ASSUME UNCHANGED <<objects, trace_segments, compacted, run_events, next, job>>,
             CleanupIsConfined'
      PROVE  ObjectInv'
  <2>1. \A p \in Procs : Writing(p)' <=> Writing(p)
        BY <1>1 DEF Writing
  <2> QED
        BY <1>1, <2>1 DEF ObjectInv, SegmentsInTheMaking, OldSegmentsExist, ReferencedObjectsExist
<1>2. CASE CleanupSelect
      BY <1>1, <1>2 DEF CleanupSelect, ObjectInv, CleanupIsConfined
<1>3. CASE CleanupMark
      BY <1>1, <1>3 DEF CleanupMark, ObjectInv, CleanupIsConfined, IdleCleaner
<1>4. CASE CleanupFail
      BY <1>1, <1>4 DEF CleanupFail, ObjectInv, CleanupIsConfined, IdleCleaner
<1>5. CASE CleanupDelete
  <2>1. PICK o \in cleaner.left : /\ objects' = objects \ {o}
                                  /\ cleaner' = [cleaner EXCEPT !.left = @ \ {o}]
                                  /\ UNCHANGED <<tables, next, job>>
        BY <1>5 DEF CleanupDelete
  <2>2. PICK u \in compacted : o \in ObjectsOf(u)
        BY <2>1 DEF ObjectInv, CleanupIsConfined
  <2>3. u \in trace_segments
        BY DEF ObjectInv, CleanupIsConfined
  <2>4. \A v : v # u => o # <<v, "segment">> /\ o # <<v, "index">>
        BY <2>2 DEF ObjectsOf
  <2>5. \A p \in Procs : Writing(p)' <=> Writing(p)
        BY <2>1 DEF Writing
  <2>6. SegmentsInTheMaking'
        BY <2>1, <2>3, <2>4, <2>5 DEF ObjectInv, SegmentsInTheMaking
  <2>7. CleanupIsConfined'
    <3>1. cleaner'.left \subseteq cleaner.left /\ cleaner'.candidates = cleaner.candidates
          BY <2>1 DEF TypeOK
    <3> QED
          BY <2>1, <3>1 DEF ObjectInv, CleanupIsConfined
  <2>8. ReferencedObjectsExist'
        BY <2>1, <2>2, <2>4 DEF ObjectInv, ReferencedObjectsExist, ObjectsOf
  <2>9. OldSegmentsExist'
        BY <2>1 DEF ObjectInv, OldSegmentsExist
  <2> QED
        BY <2>6, <2>7, <2>8, <2>9 DEF ObjectInv
<1> QED
      BY <1>2, <1>3, <1>4, <1>5 DEF Cleanup

\* One step of the specification.
LEMMA ObjectStep ==
  ASSUME TypeOK, ObjectInv, [Next]_vars
  PROVE  ObjectInv'
<1>1. ASSUME NEW p \in Procs, Persist(p) PROVE ObjectInv'
      BY <1>1, ObjectsQuiet, ObjectsPutSegment, ObjectsPutSearchIndex, ObjectsCommit DEF Persist
<1>2. ASSUME NEW w \in Writers, Write(w) PROVE ObjectInv'
      BY <1>2, ObjectsQuiet
<1>3. ASSUME NEW c \in Compactors, Compact(c) PROVE ObjectInv'
      BY <1>3, ObjectsQuiet, ObjectsCompactMark DEF Compact
<1>4. CASE Delete
      BY <1>4, ObjectsDelete
<1>5. CASE Cleanup
      BY <1>5, ObjectsCleanup
<1>6. CASE UNCHANGED vars
  <2>1. \A p \in Procs : Writing(p)' <=> Writing(p)
        BY <1>6 DEF vars, Writing
  <2> QED
        BY <1>6, <2>1 DEF vars, ObjectInv, SegmentsInTheMaking, CleanupIsConfined,
                          OldSegmentsExist, ReferencedObjectsExist
<1> QED
      BY <1>1, <1>2, <1>3, <1>4, <1>5, <1>6 DEF Next

LEMMA ObjectInit == Init => ObjectInv
BY DEF Init, ObjectInv, SegmentsInTheMaking, CleanupIsConfined, OldSegmentsExist,
       ReferencedObjectsExist, Writing, IdleJob, IdleCleaner, Procs

\* The inductive invariant about objects and segments.
LEMMA ObjectInvariant == Spec => []ObjectInv
<1>1. TypeOK /\ ObjectInv /\ [Next]_vars => ObjectInv'
      BY ObjectStep
<1> QED
      BY <1>1, ObjectInit, TypeCorrectness, PTL DEF Spec

\* The metadata never points at a missing object: both objects of a segment that
\* queries may read are in the store, for any number of failing writers,
\* overlapping compactors and interrupted cleanups.
THEOREM ObjectSafety == Spec => []ReferencedObjectsExist
<1>1. ObjectInv => ReferencedObjectsExist
      BY DEF ObjectInv
<1> QED
      BY <1>1, ObjectInvariant, PTL

----------------------------------------------------------------------------
(* Reclaimed segments: what the cleanup recorded as deleted stays deleted. *)

\* Outside the cleanup, segments only grow in number and in marks, and an object
\* appears only under a name that no segment row has.
LEMMA StepOutsideCleanup ==
  ASSUME TypeOK, ObjectInv, [Next]_vars, ~Cleanup
  PROVE  /\ UNCHANGED <<object_deleted, cleaner>>
         /\ compacted \subseteq compacted'
         /\ trace_segments \subseteq trace_segments'
         /\ objects \subseteq objects'
         /\ \A o \in objects' \ objects : o[1] \notin trace_segments
<1> DEFINE Good == /\ UNCHANGED <<object_deleted, cleaner>>
                   /\ compacted \subseteq compacted'
                   /\ trace_segments \subseteq trace_segments'
                   /\ objects \subseteq objects'
                   /\ \A o \in objects' \ objects : o[1] \notin trace_segments
<1> USE DEF tables
<1>1. ASSUME NEW p \in Procs, Persist(p) PROVE Good
  <2>1. CASE PutSegment(p)
    <3>1. \A u \in trace_segments : u # next
          BY DEF TypeOK, ObjectInv, SegmentsInTheMaking
    <3> QED
          BY <2>1, <3>1 DEF PutSegment
  <2>2. CASE PutSearchIndex(p)
    <3>1. job[p].seg \notin trace_segments
          BY <2>2 DEF PutSearchIndex, Writing, ObjectInv, SegmentsInTheMaking
    <3> QED
          BY <2>2, <3>1 DEF PutSearchIndex
  <2>3. CASE CommitWritten(p) \/ CommitUnanswered(p)
        BY <2>3 DEF CommitWritten, CommitUnanswered, PersistMetadata
  <2>4. CASE FilterDone(p) \/ FilterChunk(p) \/ CommitConflict(p) \/ Fail(p)
        BY <2>4 DEF FilterDone, FilterChunk, CommitConflict, Fail
  <2> QED
        BY <1>1, <2>1, <2>2, <2>3, <2>4 DEF Persist
<1>2. ASSUME NEW w \in Writers, Write(w) PROVE Good
      BY <1>2 DEF Write, Submit, Acknowledge
<1>3. ASSUME NEW c \in Compactors, Compact(c) PROVE Good
      BY <1>3 DEF Compact, CompactList, CompactPlan, CompactRead, CompactMark
<1>4. CASE Delete
      BY <1>4 DEF Delete, DeleteRun, DeleteRunsInTx, RetentionSelect, RetentionExpire, RetentionFail
<1>5. CASE UNCHANGED vars
      BY <1>5 DEF vars
<1> QED
      BY <1>1, <1>2, <1>3, <1>4, <1>5 DEF Next

LEMMA ReclaimStep ==
  ASSUME TypeOK, ObjectInv, ReclaimInv, [Next]_vars
  PROVE  ReclaimInv'
<1> USE DEF tables
<1>1. CASE ~Cleanup
  <2>1. \A u \in trace_segments : ObjectsOf(u) \cap objects' = ObjectsOf(u) \cap objects
        BY <1>1, StepOutsideCleanup DEF ObjectsOf
  <2>2. cleaner.candidates \subseteq trace_segments /\ object_deleted \subseteq trace_segments
        BY DEF ObjectInv, CleanupIsConfined, ReclaimInv
  <2> QED
        BY <1>1, <2>1, <2>2, StepOutsideCleanup DEF ReclaimInv, ReclaimedSegmentsLeaveNothing
<1>2. CASE CleanupSelect
      BY <1>2 DEF CleanupSelect, ReclaimInv, ReclaimedSegmentsLeaveNothing
<1>3. CASE CleanupDelete
  <2>1. PICK o \in cleaner.left : /\ objects' = objects \ {o}
                                  /\ cleaner' = [cleaner EXCEPT !.left = @ \ {o}]
                                  /\ UNCHANGED tables
        BY <1>3 DEF CleanupDelete
  <2>2. cleaner'.candidates = cleaner.candidates /\ cleaner'.left = cleaner.left \ {o}
        BY <2>1 DEF TypeOK
  <2> QED
        BY <2>1, <2>2 DEF ReclaimInv, ReclaimedSegmentsLeaveNothing
<1>4. CASE CleanupMark
      BY <1>4 DEF CleanupMark, IdleCleaner, ReclaimInv, ReclaimedSegmentsLeaveNothing,
                  ObjectInv, CleanupIsConfined
<1>5. CASE CleanupFail
      BY <1>5 DEF CleanupFail, IdleCleaner, ReclaimInv, ReclaimedSegmentsLeaveNothing
<1> QED
      BY <1>1, <1>2, <1>3, <1>4, <1>5 DEF Cleanup

LEMMA ReclaimInit == Init => ReclaimInv
BY DEF Init, IdleCleaner, ReclaimInv, ReclaimedSegmentsLeaveNothing

\* A segment that the cleanup recorded as reclaimed has no object left, and none
\* ever comes back, however often the cleanup failed between two deletes and
\* whatever writers and compactors put meanwhile.
THEOREM ReclaimSafety == Spec => []ReclaimedSegmentsLeaveNothing
<1>1. TypeOK /\ ObjectInv /\ ReclaimInv /\ [Next]_vars => ReclaimInv'
      BY ReclaimStep
<1>2. ReclaimInv => ReclaimedSegmentsLeaveNothing
      BY DEF ReclaimInv
<1> QED
      BY <1>1, <1>2, ReclaimInit, TypeCorrectness, ObjectInvariant, PTL DEF Spec

----------------------------------------------------------------------------
(***************************************************************************)
(* No compaction hides a run.  The argument: the head of a visible run is  *)
(* the latest of its events, and a compactor that has planned still has to *)
(* write a row for every visible run whose head is in a segment that it    *)
(* will mark.  Committing such a row moves the head to the new segment; a  *)
(* duplicate filter never drops such a row, because the event that it      *)
(* would duplicate would be later than the head.                           *)
(***************************************************************************)

(* The order of events. *)

LEMMA NotAfterTransitive ==
  ASSUME NEW e \in Event, NEW f \in Event, NEW g \in Event, NotAfter(e, f), NotAfter(f, g)
  PROVE  NotAfter(e, g)
BY DEF NotAfter, Event

LEMMA NotAfterTotal ==
  ASSUME NEW e \in Event, NEW f \in Event
  PROVE  NotAfter(e, f) \/ NotAfter(f, e)
BY DEF NotAfter, Event

LEMMA HeadType ==
  ASSUME TypeOK, NEW r \in Runs, run_heads[r] # NoHead
  PROVE  /\ run_heads[r] \in RunHead
         /\ run_heads[r].ver \in Event
         /\ run_heads[r].last \in Event
         /\ run_heads[r].deleted \in BOOLEAN
BY DEF TypeOK, RunHead

\* No snapshot of a visible run's current version, taken for a set of segments
\* that holds that version, is in run_events already.
LEMMA PendingRowsAreFresh ==
  ASSUME TypeOK, HeadInv, NEW r \in Runs, Visible(r), NEW old \in SUBSET Nat,
         run_heads[r].ver.seg \in old
  PROVE  IdempotencyKey(CompactRow(run_heads[r].ver, old)) \notin Keys
<1> DEFINE h == run_heads[r]
           row == CompactRow(h.ver, old)
<1>1. h # NoHead /\ ~h.deleted
      BY DEF Visible
<1>2. h.ver \in Event /\ h.last \in Event
      BY <1>1, HeadType
<1>3. /\ h.ver.run = r /\ h.ver.tx = h.ver.seg /\ h.ver.time = EventTime(h.ver)
      /\ h.last = h.ver
      /\ \A e \in run_events : e.run = r => NotAfter(e, h.last)
      BY <1>1 DEF HeadInv, HeadsAreLatest
<1>4. SUFFICES ASSUME NEW e \in run_events, e.kind # "tombstone",
                      IdempotencyKey(e) = IdempotencyKey(row)
               PROVE  FALSE
      BY DEF Keys
<1>5. e \in Event
      BY DEF TypeOK
<1>6. /\ e.kind = "compact" /\ e.run = r /\ e.batch = old
      /\ e.start = h.ver.start /\ e.end = h.ver.end
      BY <1>3, <1>4 DEF IdempotencyKey, CompactRow
<1>7. EventTime(e) = EventTime(h.ver)
      BY <1>6 DEF EventTime
<1>8. e.time = h.ver.time /\ h.ver.seg < e.tx
      BY <1>3, <1>4, <1>6, <1>7 DEF HeadInv, EventsAreApplied
<1>9. NotAfter(e, h.ver)
      BY <1>3, <1>6
<1> QED
      BY <1>2, <1>3, <1>5, <1>8, <1>9 DEF NotAfter, Event

----------------------------------------------------------------------------
(* Steps that change no table: the invariant is about the task that moves. *)

LEMMA HeadsQuiet ==
  ASSUME TypeOK, HeadInv, NEW p \in Procs,
         UNCHANGED <<trace_segments, compacted, run_events, run_heads, run_deletions>>,
         \A q \in Procs : q # p => job'[q] = job[q],
         CarriesBatch(p)',
         p \in Compactors => Covers(p)'
  PROVE  HeadInv'
<1>1. HeadsAreLatest' /\ EventsAreApplied' /\ VisibleRunsAreListed'
      BY DEF HeadInv, HeadsAreLatest, EventsAreApplied, VisibleRunsAreListed, Visible
<1>2. RowsCarryTheirBatch'
      BY DEF HeadInv, RowsCarryTheirBatch, CarriesBatch
<1>3. CompactorsCoverTheirSegments'
  <2> SUFFICES ASSUME NEW c \in Compactors, c # p PROVE Covers(c)'
      BY DEF CompactorsCoverTheirSegments
  <2>1. job'[c] = job[c]
        BY DEF Procs
  <2>2. Covers(c)
        BY DEF HeadInv, CompactorsCoverTheirSegments
  <2>3. Pending(c)' = Pending(c)
        BY <2>1 DEF Pending
  <2>4. Writing(c)' <=> Writing(c)
        BY <2>1 DEF Writing
  <2>5. \A r \in Runs : Visible(r)' <=> Visible(r)
        BY DEF Visible
  <2> QED
        BY <2>1, <2>2, <2>3, <2>4, <2>5 DEF Covers
<1> QED
      BY <1>1, <1>2, <1>3 DEF HeadInv

\* Filtering keeps the rows of the visible runs in the old segments.
LEMMA HeadsFilter ==
  ASSUME TypeOK, HeadInv, NEW p \in Procs, FilterDone(p) \/ FilterChunk(p)
  PROVE  HeadInv'
<1> DEFINE todo == job[p].todo
           cur == job[p].cur
<1>1. /\ UNCHANGED <<trace_segments, compacted, run_events, run_heads, run_deletions>>
      /\ job[p].pc = "filter"
      BY DEF FilterDone, FilterChunk, tables
<1>2. /\ \A q \in Procs : q # p => job'[q] = job[q]
      /\ job'[p].pc \in {"done", "filter", "put"} /\ job'[p].old = job[p].old
      /\ job'[p].todo \cup job'[p].cur \subseteq todo \cup cur
      /\ Rest(p) \cup Fresh(p) \subseteq job'[p].todo \cup job'[p].cur
      /\ job'[p].pc # "put" => job'[p].cur = cur
      /\ job'[p].pc = "done" => job'[p].todo = {}
  <2>0. job[p] \in Job
        BY DEF TypeOK
  <2>1. CASE FilterDone(p)
    <3>1. job' = [job EXCEPT ![p] = [@ EXCEPT !.todo = Rest(p),
                                     !.pc = IF Rest(p) = {} THEN "done" ELSE "filter"]]
          BY <2>1 DEF FilterDone
    <3>2. /\ \A q \in Procs : q # p => job'[q] = job[q]
          /\ job'[p].todo = Rest(p) /\ job'[p].cur = cur /\ job'[p].old = job[p].old
          /\ job'[p].pc = IF Rest(p) = {} THEN "done" ELSE "filter"
          BY <2>0, <3>1 DEF TypeOK, Job
    <3>3. Fresh(p) = {} /\ Rest(p) \subseteq todo
          BY <2>1 DEF FilterDone, Rest
    <3> QED
          BY <3>2, <3>3
  <2>2. CASE FilterChunk(p)
    <3> DEFINE chunk == NextChunk(Fresh(p))
    <3>1. job' = [job EXCEPT ![p] = [@ EXCEPT !.todo = Rest(p) \cup (Fresh(p) \ chunk),
                                              !.cur = chunk, !.pc = "put"]]
          BY <2>2 DEF FilterChunk
    <3>2. chunk \subseteq Fresh(p)
          BY DEF NextChunk
    <3>3. Fresh(p) \subseteq todo /\ Rest(p) \subseteq todo
          BY DEF Fresh, Rest, FirstPartition
    <3> HIDE DEF chunk
    <3>4. /\ \A q \in Procs : q # p => job'[q] = job[q]
          /\ job'[p].todo = Rest(p) \cup (Fresh(p) \ chunk)
          /\ job'[p].cur = chunk /\ job'[p].old = job[p].old /\ job'[p].pc = "put"
          BY <2>0, <3>1 DEF TypeOK, Job
    <3> QED
          BY <3>2, <3>3, <3>4
  <2> QED
        BY <2>1, <2>2
<1>3. CarriesBatch(p)'
      BY <1>2 DEF HeadInv, RowsCarryTheirBatch, CarriesBatch
<1>4. ASSUME p \in Compactors PROVE Covers(p)'
  <2>1. /\ cur = {}
        /\ \A r \in Runs : Visible(r) /\ run_heads[r].ver.seg \in job[p].old
                             => CompactRow(run_heads[r].ver, job[p].old) \in todo \cup cur
        BY <1>1, <1>4 DEF HeadInv, CompactorsCoverTheirSegments, Covers, Pending
  <2>2. ~Writing(p)'
        BY <1>2 DEF Writing
  <2>3. ASSUME NEW r \in Runs, Visible(r), run_heads[r].ver.seg \in job[p].old
        PROVE  CompactRow(run_heads[r].ver, job[p].old) \in job'[p].todo \cup job'[p].cur
    <3> DEFINE row == CompactRow(run_heads[r].ver, job[p].old)
    <3>1. row \in todo
          BY <2>1, <2>3
    <3>2. job[p].old \in SUBSET Nat
          BY DEF TypeOK, Job
    <3>3. IdempotencyKey(row) \notin Keys
          BY <2>3, <3>2, PendingRowsAreFresh
    <3>4. row \in Rest(p) \cup Fresh(p)
          BY <3>1, <3>3 DEF Rest, Fresh
    <3> QED
          BY <1>2, <3>4
  <2>4. \A r \in Runs : Visible(r)' <=> Visible(r)
        BY <1>1 DEF Visible
  <2> QED
        BY <1>1, <1>2, <2>1, <2>2, <2>3, <2>4 DEF Covers, Pending
<1> QED
      BY <1>1, <1>2, <1>3, <1>4, HeadsQuiet

\* The two puts: the number of the new segment is above those of the old ones.
LEMMA HeadsPut ==
  ASSUME TypeOK, ObjectInv, HeadInv, NEW p \in Procs, PutSegment(p) \/ PutSearchIndex(p)
  PROVE  HeadInv'
<1>1. /\ UNCHANGED <<trace_segments, compacted, run_events, run_heads, run_deletions>>
      /\ \A q \in Procs : q # p => job'[q] = job[q]
      /\ job[p].pc \in {"put", "index"} /\ job'[p].pc \in {"index", "commit"}
      /\ job'[p].todo = job[p].todo /\ job'[p].cur = job[p].cur /\ job'[p].old = job[p].old
      /\ \/ job'[p].seg = next
         \/ Writing(p) /\ job'[p].seg = job[p].seg
  <2>0. job[p] \in Job
        BY DEF TypeOK
  <2>1. CASE PutSegment(p)
        BY <2>0, <2>1 DEF PutSegment, TypeOK, Job, tables
  <2>2. CASE PutSearchIndex(p)
        BY <2>0, <2>2 DEF PutSearchIndex, TypeOK, Job, tables, Writing
  <2> QED
        BY <2>1, <2>2
<1>2. CarriesBatch(p)'
      BY <1>1 DEF HeadInv, RowsCarryTheirBatch, CarriesBatch
<1>3. ASSUME p \in Compactors PROVE Covers(p)'
  <2>1. Covers(p)
        BY <1>3 DEF HeadInv, CompactorsCoverTheirSegments
  <2>2. \A u \in job[p].old : u < job'[p].seg
    <3>1. \A u \in job[p].old : u < next
          BY <1>3 DEF ObjectInv, OldSegmentsExist, SegmentsInTheMaking
    <3> QED
          BY <1>1, <2>1, <3>1 DEF Covers
  <2>3. \A r \in Runs : Visible(r)' <=> Visible(r)
        BY <1>1 DEF Visible
  <2>4. Pending(p)' = Pending(p)
        BY <1>1 DEF Pending
  <2> QED
        BY <1>1, <2>1, <2>2, <2>3, <2>4 DEF Covers
<1> QED
      BY <1>1, <1>2, <1>3, HeadsQuiet

\* A conflict gives the rows back to the filter.
LEMMA HeadsConflict ==
  ASSUME TypeOK, HeadInv, NEW p \in Procs, CommitConflict(p)
  PROVE  HeadInv'
<1>1. /\ UNCHANGED <<trace_segments, compacted, run_events, run_heads, run_deletions>>
      /\ \A q \in Procs : q # p => job'[q] = job[q]
      /\ job[p].pc = "commit" /\ job'[p].pc = "filter"
      /\ job'[p].todo = job[p].cur \cup job[p].todo /\ job'[p].cur = {}
      /\ job'[p].old = job[p].old
      BY DEF CommitConflict, TypeOK, Job, tables
<1>2. CarriesBatch(p)'
      BY <1>1 DEF HeadInv, RowsCarryTheirBatch, CarriesBatch
<1>3. ASSUME p \in Compactors PROVE Covers(p)'
  <2>1. Covers(p)
        BY <1>3 DEF HeadInv, CompactorsCoverTheirSegments
  <2>2. \A r \in Runs : Visible(r)' <=> Visible(r)
        BY <1>1 DEF Visible
  <2>3. Pending(p)' = Pending(p) /\ ~Writing(p)'
        BY <1>1 DEF Pending, Writing
  <2> QED
        BY <1>1, <2>1, <2>2, <2>3 DEF Covers
<1> QED
      BY <1>1, <1>2, <1>3, HeadsQuiet

\* A task that fails, a writer that is given a batch or acknowledges it.
LEMMA HeadsWrite ==
  ASSUME TypeOK, HeadInv
  PROVE  /\ \A p \in Procs : Fail(p) => HeadInv'
         /\ \A w \in Writers : Write(w) => HeadInv'
<1>1. ASSUME NEW p \in Procs, job' = [job EXCEPT ![p] = IdleJob],
             UNCHANGED <<trace_segments, compacted, run_events, run_heads, run_deletions>>
      PROVE  HeadInv'
  <2>1. job'[p] = IdleJob /\ \A q \in Procs : q # p => job'[q] = job[q]
        BY <1>1 DEF TypeOK
  <2>2. CarriesBatch(p)' /\ Covers(p)'
        BY <2>1 DEF CarriesBatch, Covers, IdleJob
  <2> QED
        BY <1>1, <2>1, <2>2, HeadsQuiet
<1>2. ASSUME NEW p \in Procs, Fail(p) PROVE HeadInv'
      BY <1>1, <1>2 DEF Fail, tables
<1>3. ASSUME NEW w \in Writers, Acknowledge(w) PROVE HeadInv'
      BY <1>1, <1>3 DEF Acknowledge, tables, Procs
<1>4. ASSUME NEW w \in Writers, NEW b \in Batches, Submit(w, b) PROVE HeadInv'
  <2>1. w \in Procs /\ w \notin Compactors
        BY ConstantsAssumption DEF Procs
  <2>2. /\ \A q \in Procs : q # w => job'[q] = job[q]
        /\ job'[w].todo = RowsOf(b) /\ job'[w].cur = {}
        BY <1>4, <2>1 DEF Submit, TypeOK, IdleJob
  <2>3. \A r \in RowsOf(b) : r.kind # "compact"
    <3>1. b \in Seq(Record)
          BY BatchesAssumption
    <3>2. \A i \in DOMAIN b : b[i] \in Record
          BY <3>1
    <3>3. \A q \in Record : q.kind # "compact"
          BY DEF Record, ClientKinds
    <3> QED
          BY <3>2, <3>3 DEF RowsOf
  <2>4. CarriesBatch(w)'
        BY <2>1, <2>2, <2>3 DEF CarriesBatch
  <2> QED
        BY <1>4, <2>1, <2>2, <2>4, HeadsQuiet DEF Submit, tables
<1> QED
      BY <1>2, <1>3, <1>4 DEF Write

\* A compactor lists, plans and reads.
LEMMA HeadsCompactRead ==
  ASSUME TypeOK, HeadInv, NEW c \in Compactors,
         CompactList(c) \/ CompactPlan(c) \/ CompactRead(c)
  PROVE  HeadInv'
<1>1. c \in Procs /\ job[c] \in Job
      BY DEF Procs, TypeOK
<1>2. UNCHANGED <<trace_segments, compacted, run_events, run_heads, run_deletions>>
      BY DEF CompactList, CompactPlan, CompactRead, tables
<1>3. \A r \in Runs : Visible(r)' <=> Visible(r)
      BY <1>2 DEF Visible
<1>4. CarriesBatch(c) /\ Covers(c)
      BY <1>1 DEF HeadInv, RowsCarryTheirBatch, CompactorsCoverTheirSegments
<1>5. CASE CompactList(c)
  <2>1. /\ \A q \in Procs : q # c => job'[q] = job[q]
        /\ job'[c].pc = "plan" /\ job'[c].todo = {} /\ job'[c].cur = {}
        BY <1>1, <1>5 DEF CompactList, TypeOK, IdleJob
  <2>2. CarriesBatch(c)' /\ Covers(c)'
        BY <2>1 DEF CarriesBatch, Covers, Writing
  <2> QED
        BY <1>1, <1>2, <2>1, <2>2, HeadsQuiet
<1>6. CASE CompactPlan(c)
  <2>1. /\ \A q \in Procs : q # c => job'[q] = job[q]
        /\ job[c].pc = "plan" /\ job'[c].pc = "read" /\ job'[c].plan = Planned
        /\ job'[c].todo = job[c].todo /\ job'[c].cur = job[c].cur /\ job'[c].old = job[c].old
        BY <1>1, <1>6 DEF CompactPlan, TypeOK, Job
  <2>2. CarriesBatch(c)'
        BY <1>4, <2>1 DEF CarriesBatch
  <2>3. \A r \in Runs : Visible(r) => run_heads[r].ver \in Planned
        BY DEF Planned, HeadInv, VisibleRunsAreListed
  <2>4. Covers(c)'
        BY <1>2, <1>3, <1>4, <2>1, <2>3 DEF Covers, Pending, Writing
  <2> QED
        BY <1>1, <1>2, <2>1, <2>2, <2>4, HeadsQuiet
<1>7. CASE CompactRead(c)
  <2>1. /\ \A q \in Procs : q # c => job'[q] = job[q]
        /\ job[c].pc = "read"
        /\ \/ job'[c] = IdleJob
           \/ job'[c] = [job[c] EXCEPT !.pc = "filter", !.todo = ReadRows(c)]
        BY <1>1, <1>7 DEF CompactRead, TypeOK
  <2>2. CASE job'[c] = IdleJob
    <3>1. CarriesBatch(c)' /\ Covers(c)'
          BY <2>2 DEF CarriesBatch, Covers, IdleJob
    <3> QED
          BY <1>1, <1>2, <2>1, <3>1, HeadsQuiet
  <2>3. CASE job'[c] = [job[c] EXCEPT !.pc = "filter", !.todo = ReadRows(c)]
    <3>1. /\ job'[c].pc = "filter" /\ job'[c].todo = ReadRows(c)
          /\ job'[c].cur = job[c].cur /\ job'[c].old = job[c].old
          BY <1>1, <2>3 DEF Job
    <3>2. job[c].plan \subseteq Event /\ job[c].old \in SUBSET Nat
          BY <1>1 DEF Job
    <3>3. job[c].cur = {}
          BY <1>4, <2>1 DEF Covers
    <3>4. \A row \in ReadRows(c) : row.kind = "compact" /\ row.batch = job[c].old
          BY <3>2, CompactRowType DEF ReadRows
    <3>5. CarriesBatch(c)'
          BY <3>1, <3>3, <3>4 DEF CarriesBatch
    <3>6. ASSUME NEW r \in Runs, Visible(r), run_heads[r].ver.seg \in job[c].old
          PROVE  CompactRow(run_heads[r].ver, job[c].old) \in ReadRows(c)
      <4>1. PICK e \in job[c].plan :
              CompactRow(run_heads[r].ver, job[c].old) = CompactRow(e, job[c].old)
            BY <1>4, <2>1, <3>6 DEF Covers, Pending
      <4>2. run_heads[r].ver \in Event /\ run_heads[r].ver.run = r
            BY <3>6, HeadType DEF HeadInv, HeadsAreLatest, Visible
      <4>3. e.run = r
            BY <3>2, <4>1, <4>2, CompactRowType
      <4> QED
            BY <3>6, <4>1, <4>3 DEF ReadRows, Visible
    <3>7. Covers(c)'
          BY <1>2, <1>3, <3>1, <3>3, <3>6 DEF Covers, Pending, Writing
    <3> QED
          BY <1>1, <1>2, <2>1, <3>5, <3>7, HeadsQuiet
  <2> QED
        BY <2>1, <2>2, <2>3
<1> QED
      BY <1>5, <1>6, <1>7

----------------------------------------------------------------------------
(* Steps that change the tables. *)

\* Marking: a compactor that is done has left no visible run behind.
LEMMA HeadsCompactMark ==
  ASSUME TypeOK, HeadInv, NEW c \in Compactors, CompactMark(c)
  PROVE  HeadInv'
<1>1. /\ \A q \in Procs : q # c => job'[q] = job[q]
      /\ job'[c] = IdleJob /\ job[c].pc = "done"
      /\ compacted' = compacted \cup job[c].old
      /\ UNCHANGED <<trace_segments, run_events, run_heads, run_deletions>>
      BY DEF CompactMark, TypeOK, Procs
<1>2. \A r \in Runs : Visible(r)' <=> Visible(r)
      BY <1>1 DEF Visible
<1>3. HeadsAreLatest' /\ EventsAreApplied'
      BY <1>1, <1>2 DEF HeadInv, HeadsAreLatest, EventsAreApplied
<1>4. RowsCarryTheirBatch'
      BY <1>1 DEF HeadInv, RowsCarryTheirBatch, CarriesBatch, IdleJob
<1>5. CompactorsCoverTheirSegments'
  <2> SUFFICES ASSUME NEW d \in Compactors PROVE Covers(d)'
      BY DEF CompactorsCoverTheirSegments
  <2>1. CASE d = c
        BY <1>1, <2>1 DEF Covers, IdleJob
  <2>2. CASE d # c
    <3>1. job'[d] = job[d]
          BY <1>1, <2>2 DEF Procs
    <3>2. (Writing(d)' <=> Writing(d)) /\ Pending(d)' = Pending(d)
          BY <3>1 DEF Writing, Pending
    <3>3. Covers(d)
          BY DEF HeadInv, CompactorsCoverTheirSegments
    <3> QED
          BY <1>1, <1>2, <3>1, <3>2, <3>3 DEF Covers
  <2> QED
        BY <2>1, <2>2
<1>6. VisibleRunsAreListed'
  <2>1. \A r \in Runs : Visible(r) => run_heads[r].ver.seg \notin job[c].old
        BY <1>1 DEF HeadInv, CompactorsCoverTheirSegments, Covers, Pending
  <2> QED
        BY <1>1, <1>2, <2>1 DEF HeadInv, VisibleRunsAreListed
<1> QED
      BY <1>3, <1>4, <1>5, <1>6 DEF HeadInv

\* Deleting hides runs, and changes nothing for the runs that stay visible.
LEMMA HeadsDelete ==
  ASSUME TypeOK, HeadInv, NEW R \in SUBSET Runs, NEW now \in Times, DeleteRunsInTx(R, now)
  PROVE  HeadInv'
<1> DEFINE D == {r \in R : run_heads[r] # NoHead /\ ~run_heads[r].deleted}
           H(r) == [run_heads[r] EXCEPT !.last = Tombstone(r, now), !.deleted = TRUE]
<1>1. /\ run_events' = run_events \cup {Tombstone(r, now) : r \in D}
      /\ run_heads' = [r \in Runs |-> IF r \in D THEN H(r) ELSE run_heads[r]]
      /\ run_deletions' = run_deletions \cup D
      /\ UNCHANGED <<trace_segments, compacted, job>>
      BY DEF DeleteRunsInTx
<1>2. \A r \in D : r \in Runs /\ run_heads[r] # NoHead /\ run_heads[r].ver.run = r
      BY DEF HeadInv, HeadsAreLatest
<1>3. now \in Nat
      BY ConstantsAssumption
<1>4. ASSUME NEW r \in D
      PROVE  /\ Tombstone(r, now) \in Event
             /\ Tombstone(r, now).kind = "tombstone" /\ Tombstone(r, now).run = r
  <2>1. Tombstone(r, now) \in Event /\ Tombstone(r, now).kind = "tombstone"
        BY <1>2, <1>3, TombstoneType
  <2> DEFINE same == {e \in run_events : e.kind = "tombstone" /\ e.run = r /\ e.time = now}
  <2>2. CASE same # {}
    <3>1. Tombstone(r, now) \in same
          BY <2>2 DEF Tombstone
    <3> QED
          BY <2>1, <3>1
  <2>3. CASE same = {}
    <3>1. Tombstone(r, now) = [run_heads[r].ver EXCEPT !.kind = "tombstone", !.batch = {},
                                                       !.tx = next, !.time = now]
          BY <2>3 DEF Tombstone
    <3>2. run_heads[r].ver \in Event
          BY <1>2, HeadType
    <3> QED
          BY <1>2, <2>1, <3>1, <3>2 DEF Event
  <2> QED
        BY <2>2, <2>3
<1>5. \A r \in D : /\ H(r) \in RunHead
                   /\ H(r).ver = run_heads[r].ver /\ H(r).deleted = TRUE
  <2>1. \A r \in D : run_heads[r] \in RunHead
        BY <1>2, HeadType
  <2> QED
        BY <1>4, <2>1 DEF RunHead
<1>6. D \subseteq Runs
      OBVIOUS
<1> HIDE DEF D, H
<1>7. /\ \A r \in D : run_heads'[r] = H(r) /\ run_heads'[r] # NoHead
      /\ \A r \in Runs \ D : run_heads'[r] = run_heads[r]
      BY <1>1, <1>5, <1>6, ConstantsAssumption
<1>8. \A r \in Runs : Visible(r)' => Visible(r) /\ run_heads'[r] = run_heads[r] /\ r \notin D
      BY <1>1, <1>7 DEF Visible
<1>9. HeadsAreLatest'
  <2> SUFFICES ASSUME NEW r \in Runs, run_heads'[r] # NoHead
               PROVE  LET h == run_heads'[r] IN
                        /\ h.ver.run = r
                        /\ h.ver.seg \in trace_segments'
                        /\ h.ver.tx = h.ver.seg
                        /\ h.ver.time = EventTime(h.ver)
                        /\ h.deleted => r \in run_deletions'
                        /\ ~h.deleted => h.last = h.ver
                        /\ Visible(r)' => \A e \in run_events' : e.run = r => NotAfter(e, h.last)
      BY DEF HeadsAreLatest
  <2>1. CASE r \in D
    <3>1. ~Visible(r)'
          BY <1>8, <2>1
    <3> QED
          BY <1>1, <1>2, <1>5, <1>7, <2>1, <3>1 DEF HeadInv, HeadsAreLatest
  <2>2. CASE r \notin D
    <3>1. run_heads'[r] = run_heads[r] /\ run_heads[r] # NoHead
          BY <1>7, <2>2
    <3>2. \A e \in run_events' : e.run = r => e \in run_events
          BY <1>1, <1>4, <2>2
    <3> QED
          BY <1>1, <1>8, <3>1, <3>2 DEF HeadInv, HeadsAreLatest
  <2> QED
        BY <2>1, <2>2
<1>10. EventsAreApplied'
  <2> SUFFICES ASSUME NEW e \in run_events'
               PROVE  /\ run_heads'[e.run] # NoHead
                      /\ e.kind # "tombstone" => e.time = EventTime(e)
                      /\ e.kind = "compact" => \A u \in e.batch : u < e.tx
      BY DEF EventsAreApplied
  <2>1. CASE e \in run_events
    <3>1. e.run \in Runs
          BY <2>1 DEF TypeOK, Event
    <3> QED
          BY <1>7, <2>1, <3>1 DEF HeadInv, EventsAreApplied
  <2>2. CASE e \notin run_events
    <3>1. PICK r \in D : e = Tombstone(r, now)
          BY <1>1, <2>2
    <3> QED
          BY <1>4, <1>7, <3>1
  <2> QED
        BY <2>1, <2>2
<1>11. RowsCarryTheirBatch'
      BY <1>1 DEF HeadInv, RowsCarryTheirBatch, CarriesBatch
<1>12. CompactorsCoverTheirSegments'
      BY <1>1, <1>8 DEF HeadInv, CompactorsCoverTheirSegments, Covers, Writing, Pending
<1>13. VisibleRunsAreListed'
      BY <1>1, <1>8 DEF HeadInv, VisibleRunsAreListed
<1> QED
      BY <1>9, <1>10, <1>11, <1>12, <1>13 DEF HeadInv

\* Committing a segment moves the heads of its newest rows into it.
LEMMA HeadsCommit ==
  ASSUME TypeOK, ObjectInv, HeadInv, NEW p \in Procs, CommitWritten(p) \/ CommitUnanswered(p)
  PROVE  HeadInv'
<1> DEFINE u == job[p].seg
           rows == job[p].cur
           E == {EventOf(r, u) : r \in rows}
           touched == {e.run : e \in E}
<1>1. /\ job[p].pc = "commit" /\ Writing(p)
      /\ PersistMetadata(u, rows)
      BY DEF CommitWritten, CommitUnanswered, Writing
<1>2. /\ \A q \in Procs : q # p => job'[q] = job[q]
      /\ \/ job'[p] = IdleJob
         \/ /\ job'[p].pc = "filter" /\ job'[p].cur = {}
            /\ job'[p].todo = job[p].todo /\ job'[p].old = job[p].old
  <2>1. CASE CommitWritten(p)
        BY <2>1 DEF CommitWritten, TypeOK, Job
  <2>2. CASE CommitUnanswered(p)
        BY <2>2 DEF CommitUnanswered, TypeOK
  <2> QED
        BY <2>1, <2>2
<1>3. u \in Nat /\ rows \subseteq Row
      BY DEF TypeOK, Job
<1>4. u \notin trace_segments /\ u \notin compacted
      BY <1>1 DEF ObjectInv, SegmentsInTheMaking, CleanupIsConfined
<1>5. \A e \in E : /\ e \in Event /\ e.seg = u /\ e.tx = u /\ e.time = EventTime(e)
                   /\ e.kind # "tombstone" /\ e.run \in touched
  <2>1. \A r \in rows : r.kind # "tombstone"
        BY <1>3 DEF Row, RowKinds, ClientKinds
  <2> QED
        BY <1>3, <2>1, EventOfType
<1>6. PICK newest \in [touched -> E] :
        /\ \A e \in E : newest[e.run].run = e.run /\ NotAfter(e, newest[e.run])
        /\ trace_segments' = trace_segments \cup {u}
        /\ run_events' = run_events \cup E
        /\ run_heads' = [r \in Runs |-> IF r \in touched
                                        THEN UpsertHead(run_heads[r], newest[r])
                                        ELSE run_heads[r]]
        /\ UNCHANGED <<compacted, object_deleted, run_deletions>>
      BY <1>1 DEF PersistMetadata
<1>7. \A r \in touched : newest[r] \in E /\ newest[r].run = r /\ r \in Runs
      BY <1>5, <1>6 DEF Event
<1>8. \A e \in E : e.kind = "compact" =>
         p \in Compactors /\ e.batch = job[p].old /\ \A v \in e.batch : v < u
  <2> SUFFICES ASSUME NEW r \in rows, r.kind = "compact"
               PROVE  p \in Compactors /\ r.batch = job[p].old /\ \A v \in r.batch : v < u
      BY <1>3, EventOfType
  <2>1. p \in Compactors /\ r.batch = job[p].old
        BY DEF HeadInv, RowsCarryTheirBatch, CarriesBatch
  <2> QED
        BY <1>1, <2>1 DEF HeadInv, CompactorsCoverTheirSegments, Covers
\* The row of a run still in an old segment is later than the head.
<1>9. ASSUME NEW r \in Runs, Visible(r), p \in Compactors,
             run_heads[r].ver.seg \in job[p].old,
             CompactRow(run_heads[r].ver, job[p].old) \in rows
      PROVE  r \in touched /\ NotAfter(run_heads[r].last, newest[r])
  <2> DEFINE h == run_heads[r]
             row == CompactRow(h.ver, job[p].old)
             n == EventOf(row, u)
  <2>1. /\ h.ver \in Event /\ h.last = h.ver /\ h.ver.run = r
        /\ h.ver.tx = h.ver.seg /\ h.ver.time = EventTime(h.ver)
        BY <1>9, HeadType DEF Visible, HeadInv, HeadsAreLatest
  <2>2. h.ver.seg < u
        BY <1>1, <1>9 DEF HeadInv, CompactorsCoverTheirSegments, Covers
  <2>3. row \in Row /\ row.run = r /\ EventTime(row) = EventTime(h.ver)
    <3>1. job[p].old \in SUBSET Nat
          BY DEF TypeOK, Job
    <3> QED
          BY <2>1, <3>1, CompactRowType
  <2>4. n \in E /\ n \in Event /\ n.run = r /\ n.tx = u /\ n.time = h.ver.time
        BY <1>3, <1>9, <2>1, <2>3, EventOfType
  <2> HIDE DEF n, row
  <2>5. NotAfter(h.ver, n)
        BY <2>1, <2>2, <2>4 DEF NotAfter, Event
  <2>6. r \in touched /\ NotAfter(n, newest[r])
        BY <1>6, <2>4
  <2>7. newest[r] \in Event
        BY <1>5, <1>7, <2>6
  <2> QED
        BY <2>1, <2>4, <2>5, <2>6, <2>7, NotAfterTransitive
<1> HIDE DEF u, rows, E, touched
\* What happens to the head of each run.
<1>10. ASSUME NEW r \in Runs
       PROVE  \/ /\ r \in touched
                 /\ run_heads'[r] = [ver |-> newest[r], last |-> newest[r], deleted |-> FALSE]
                 /\ run_heads[r] # NoHead => NotAfter(run_heads[r].last, newest[r])
              \/ /\ run_heads'[r] = run_heads[r]
                 /\ r \in touched => /\ run_heads[r] # NoHead
                                     /\ ~NotAfter(run_heads[r].last, newest[r])
      BY <1>6 DEF UpsertHead
<1>11. \A r \in touched : newest[r] \in Event /\ newest[r].seg = u
      BY <1>5, <1>7
<1>12. \A r \in touched : run_heads'[r] # NoHead
  <2> SUFFICES ASSUME NEW r \in touched PROVE run_heads'[r] # NoHead
      OBVIOUS
  <2>1. newest[r] \in Event /\ r \in Runs
        BY <1>7, <1>11
  <2>2. [ver |-> newest[r], last |-> newest[r], deleted |-> FALSE] \in RunHead
        BY <2>1 DEF RunHead
  <2> QED
        BY <1>10, <2>1, <2>2, ConstantsAssumption
\* A head that is not in the new segment is as it was.
<1>13. \A r \in Runs : run_heads'[r] # NoHead /\ run_heads'[r].ver.seg # u =>
          run_heads'[r] = run_heads[r] /\ (Visible(r)' <=> Visible(r))
  <2> SUFFICES ASSUME NEW r \in Runs, run_heads'[r].ver.seg # u
               PROVE  run_heads'[r] = run_heads[r] /\ (Visible(r)' <=> Visible(r))
      OBVIOUS
  <2>1. run_heads'[r] = run_heads[r]
    <3>1. r \in touched => newest[r].seg = u
          BY <1>11
    <3>2. \A n : [ver |-> n, last |-> n, deleted |-> FALSE].ver = n
          OBVIOUS
    <3>3. ASSUME r \in touched,
                 run_heads'[r] = [ver |-> newest[r], last |-> newest[r], deleted |-> FALSE]
          PROVE  FALSE
      <4>1. run_heads'[r].ver = newest[r]
            BY <3>2, <3>3
      <4> QED
            BY <3>1, <3>3, <4>1
    <3> QED
          BY <1>10, <3>3
  <2> QED
        BY <1>6, <2>1 DEF Visible
<1>14. HeadsAreLatest'
  <2> SUFFICES ASSUME NEW r \in Runs, run_heads'[r] # NoHead
               PROVE  LET h == run_heads'[r] IN
                        /\ h.ver.run = r
                        /\ h.ver.seg \in trace_segments'
                        /\ h.ver.tx = h.ver.seg
                        /\ h.ver.time = EventTime(h.ver)
                        /\ h.deleted => r \in run_deletions'
                        /\ ~h.deleted => h.last = h.ver
                        /\ Visible(r)' => \A e \in run_events' : e.run = r => NotAfter(e, h.last)
      BY DEF HeadsAreLatest
  <2>1. CASE /\ r \in touched
             /\ run_heads'[r] = [ver |-> newest[r], last |-> newest[r], deleted |-> FALSE]
             /\ run_heads[r] # NoHead => NotAfter(run_heads[r].last, newest[r])
    <3>1. /\ newest[r] \in E /\ newest[r].run = r /\ newest[r] \in Event
          /\ newest[r].seg = u /\ newest[r].tx = u /\ newest[r].time = EventTime(newest[r])
          BY <1>5, <1>7, <2>1
    <3>2. ASSUME Visible(r)', NEW e \in run_events', e.run = r
          PROVE  NotAfter(e, newest[r])
      <4>1. CASE e \in E
            BY <1>6, <3>2, <4>1
      <4>2. CASE e \in run_events
        <5>1. run_heads[r] # NoHead
              BY <3>2, <4>2 DEF HeadInv, EventsAreApplied
        <5>2. r \notin run_deletions
              BY <1>6, <3>2 DEF Visible
        <5>3. Visible(r)
              BY <5>1, <5>2 DEF Visible, HeadInv, HeadsAreLatest
        <5>4. NotAfter(e, run_heads[r].last)
              BY <3>2, <4>2, <5>1, <5>3 DEF HeadInv, HeadsAreLatest
        <5>5. e \in Event /\ run_heads[r].last \in Event
              BY <4>2, <5>1, HeadType DEF TypeOK
        <5> QED
              BY <2>1, <3>1, <5>1, <5>4, <5>5, NotAfterTransitive
      <4> QED
            BY <1>6, <3>2, <4>1, <4>2
    <3> QED
          BY <1>6, <2>1, <3>1, <3>2
  <2>2. CASE /\ run_heads'[r] = run_heads[r]
             /\ r \in touched => ~NotAfter(run_heads[r].last, newest[r])
    <3>1. run_heads[r] # NoHead /\ (Visible(r)' <=> Visible(r))
          BY <1>6, <2>2 DEF Visible
    <3>2. ASSUME Visible(r), NEW e \in run_events', e.run = r
          PROVE  NotAfter(e, run_heads[r].last)
      <4>1. CASE e \in run_events
            BY <3>1, <3>2, <4>1 DEF HeadInv, HeadsAreLatest
      <4>2. CASE e \in E
        <5>1. r \in touched /\ e \in Event /\ NotAfter(e, newest[r])
              BY <1>5, <1>6, <3>2, <4>2
        <5>2. newest[r] \in Event /\ run_heads[r].last \in Event
              BY <1>11, <3>1, <5>1, HeadType
        <5>3. NotAfter(newest[r], run_heads[r].last)
              BY <2>2, <5>1, <5>2, NotAfterTotal
        <5> QED
              BY <5>1, <5>2, <5>3, NotAfterTransitive
      <4> QED
            BY <1>6, <3>2, <4>1, <4>2
    <3> QED
          BY <1>6, <2>2, <3>1, <3>2 DEF HeadInv, HeadsAreLatest
  <2> QED
        BY <1>10, <2>1, <2>2
<1>15. EventsAreApplied'
  <2> SUFFICES ASSUME NEW e \in run_events'
               PROVE  /\ run_heads'[e.run] # NoHead
                      /\ e.kind # "tombstone" => e.time = EventTime(e)
                      /\ e.kind = "compact" => \A v \in e.batch : v < e.tx
      BY DEF EventsAreApplied
  <2>1. CASE e \in run_events
    <3>1. e.run \in Runs /\ run_heads[e.run] # NoHead
          BY <2>1 DEF TypeOK, Event, HeadInv, EventsAreApplied
    <3>2. run_heads'[e.run] # NoHead
          BY <1>10, <1>12, <3>1
    <3> QED
          BY <2>1, <3>2 DEF HeadInv, EventsAreApplied
  <2>2. CASE e \in E
        BY <1>5, <1>8, <1>12, <2>2
  <2> QED
        BY <1>6, <2>1, <2>2
<1>16. RowsCarryTheirBatch'
      BY <1>2 DEF HeadInv, RowsCarryTheirBatch, CarriesBatch, IdleJob
<1>17. VisibleRunsAreListed'
  <2> SUFFICES ASSUME NEW r \in Runs, Visible(r)'
               PROVE  run_heads'[r].ver.seg \in trace_segments' \ compacted'
      BY DEF VisibleRunsAreListed
  <2>1. CASE run_heads'[r].ver.seg = u
        BY <1>4, <1>6, <2>1
  <2>2. CASE run_heads'[r].ver.seg # u
    <3>1. run_heads'[r] # NoHead
          BY DEF Visible
    <3> QED
          BY <1>6, <1>13, <2>2, <3>1 DEF HeadInv, VisibleRunsAreListed
  <2> QED
        BY <2>1, <2>2
<1>18. CompactorsCoverTheirSegments'
  <2> SUFFICES ASSUME NEW c \in Compactors PROVE Covers(c)'
      BY DEF CompactorsCoverTheirSegments
  <2>1. Covers(c) /\ c \in Procs /\ job[c].old \subseteq trace_segments
        BY DEF HeadInv, CompactorsCoverTheirSegments, Procs, ObjectInv, OldSegmentsExist
  <2>2. \A r \in Runs : Visible(r)' /\ run_heads'[r].ver.seg \in job[c].old
                          => Visible(r) /\ run_heads'[r] = run_heads[r]
    <3>1. \A r \in Runs : Visible(r)' => run_heads'[r] # NoHead
          BY DEF Visible
    <3> QED
          BY <1>4, <1>13, <2>1, <3>1
  <2>3. CASE c # p
    <3>1. job'[c] = job[c]
          BY <1>2, <2>1, <2>3
    <3>2. (Writing(c)' <=> Writing(c)) /\ Pending(c)' = Pending(c)
          BY <3>1 DEF Writing, Pending
    <3> QED
          BY <2>1, <2>2, <3>1, <3>2 DEF Covers
  <2>4. CASE c = p /\ job'[p] = IdleJob
        BY <2>4 DEF Covers, IdleJob
  <2>5. CASE /\ c = p /\ job'[p].pc = "filter" /\ job'[p].cur = {}
             /\ job'[p].todo = job[p].todo /\ job'[p].old = job[p].old
    <3>1. ASSUME NEW r \in Runs, Visible(r)', run_heads'[r].ver.seg \in job[p].old
          PROVE  CompactRow(run_heads'[r].ver, job[p].old) \in job[p].todo
      <4>1. Visible(r) /\ run_heads'[r] = run_heads[r] /\ run_heads[r] # NoHead
            BY <2>2, <2>5, <3>1 DEF Visible
      <4>2. CompactRow(run_heads[r].ver, job[p].old) \in job[p].todo \cup rows
            BY <1>1, <2>1, <2>5, <3>1, <4>1 DEF Covers, Pending, rows
      <4>3. CASE CompactRow(run_heads[r].ver, job[p].old) \in rows
        <5>1. r \in touched /\ NotAfter(run_heads[r].last, newest[r])
              BY <1>9, <2>5, <3>1, <4>1, <4>3
        <5>2. run_heads'[r] = [ver |-> newest[r], last |-> newest[r], deleted |-> FALSE]
              BY <1>10, <5>1
        <5>3. newest[r].seg = u /\ run_heads'[r].ver = newest[r]
              BY <1>11, <5>1, <5>2
        <5> QED
              BY <1>4, <2>1, <2>5, <3>1, <5>3
      <4> QED
            BY <4>1, <4>2, <4>3
    <3>2. ~Writing(p)' /\ Pending(p)' = job[p].todo
          BY <2>5 DEF Writing, Pending
    <3> QED
          BY <2>5, <3>1, <3>2 DEF Covers
  <2> QED
        BY <1>2, <2>3, <2>4, <2>5
<1> QED
      BY <1>14, <1>15, <1>16, <1>17, <1>18 DEF HeadInv

\* The inductive invariant about heads and compactors.
LEMMA HeadInvariant == Spec => []HeadInv
<1>1. Init => HeadInv
      BY DEF Init, HeadInv, HeadsAreLatest, EventsAreApplied, RowsCarryTheirBatch, CarriesBatch,
             CompactorsCoverTheirSegments, Covers, VisibleRunsAreListed, Visible, IdleJob, Procs
<1>2. TypeOK /\ ObjectInv /\ HeadInv /\ [Next]_vars => HeadInv'
  <2> SUFFICES ASSUME TypeOK, ObjectInv, HeadInv, [Next]_vars PROVE HeadInv'
      OBVIOUS
  <2>1. ASSUME NEW p \in Procs, Persist(p) PROVE HeadInv'
        BY <2>1, HeadsFilter, HeadsPut, HeadsCommit, HeadsConflict, HeadsWrite DEF Persist
  <2>2. ASSUME NEW w \in Writers, Write(w) PROVE HeadInv'
        BY <2>2, HeadsWrite
  <2>3. ASSUME NEW c \in Compactors, Compact(c) PROVE HeadInv'
        BY <2>3, HeadsCompactRead, HeadsCompactMark DEF Compact
  <2>4. ASSUME UNCHANGED <<trace_segments, compacted, run_events, run_heads, run_deletions, job>>
        PROVE  HeadInv'
    <3>1. \A r \in Runs : Visible(r)' <=> Visible(r)
          BY <2>4 DEF Visible
    <3>2. \A c \in Compactors : (Writing(c)' <=> Writing(c)) /\ Pending(c)' = Pending(c)
          BY <2>4 DEF Writing, Pending
    <3>3. CompactorsCoverTheirSegments'
          BY <2>4, <3>1, <3>2 DEF HeadInv, CompactorsCoverTheirSegments, Covers
    <3>4. RowsCarryTheirBatch'
          BY <2>4 DEF HeadInv, RowsCarryTheirBatch, CarriesBatch
    <3> QED
          BY <2>4, <3>1, <3>3, <3>4 DEF HeadInv, HeadsAreLatest, EventsAreApplied, VisibleRunsAreListed
  <2>5. CASE Delete
    <3>1. ASSUME NEW r \in Runs, NEW now \in Times, DeleteRun(r, now) PROVE HeadInv'
          BY <3>1, HeadsDelete DEF DeleteRun
    <3>2. ASSUME NEW now \in Times, RetentionExpire(now) PROVE HeadInv'
          BY <3>2, HeadsDelete DEF RetentionExpire, TypeOK
    <3>3. ASSUME NEW cutoff \in Times, RetentionSelect(cutoff) PROVE HeadInv'
          BY <2>4, <3>3 DEF RetentionSelect, tables
    <3>4. CASE RetentionFail
          BY <2>4, <3>4 DEF RetentionFail, tables
    <3> QED
          BY <2>5, <3>1, <3>2, <3>3, <3>4 DEF Delete
  <2>6. CASE Cleanup
    <3>1. UNCHANGED <<trace_segments, compacted, run_events, run_heads, run_deletions, job>>
          BY <2>6 DEF Cleanup, CleanupSelect, CleanupDelete, CleanupMark, CleanupFail, tables
    <3> QED
          BY <2>4, <3>1
  <2>7. CASE UNCHANGED vars
        BY <2>4, <2>7 DEF vars
  <2> QED
        BY <2>1, <2>2, <2>3, <2>5, <2>6, <2>7 DEF Next
<1> QED
      BY <1>1, <1>2, TypeCorrectness, ObjectInvariant, PTL DEF Spec

\* No compaction hides a run: whatever compactors overlap, and whatever is
\* ingested, deleted or fails meanwhile, the current version of every run that
\* was not deleted is in a segment that queries read.
THEOREM CompactionSafety == Spec => []VisibleRunsAreListed
<1>1. HeadInv => VisibleRunsAreListed
      BY DEF HeadInv
<1> QED
      BY <1>1, HeadInvariant, PTL

\* Between its plan and its mark a compactor has yet to write a row for every
\* visible run that is still in a segment it will mark, whatever the filter
\* dropped, other tasks committed and users deleted meanwhile.
THEOREM CompactionCovers == Spec => []CompactorsCoverTheirSegments
<1>1. HeadInv => CompactorsCoverTheirSegments
      BY DEF HeadInv
<1> QED
      BY <1>1, HeadInvariant, PTL

----------------------------------------------------------------------------
(* Replaying the events of a run gives its head: the head is one of the     *)
(* latest events, and there is only one latest event.                       *)

\* A step of one task that writes no row.
LEMMA CurrentQuiet ==
  ASSUME CurrentInv, NEW p \in Procs,
         \A q \in Procs : q # p => job'[q] = job[q],
         PlacesDiffer(job'[p].todo \cup job'[p].cur),
         \A e, f \in job'[p].plan : e.run = f.run => e = f,
         job'[p].pc \in {"index", "commit"} => \A e \in run_events : e.tx # job'[p].seg,
         UNCHANGED <<run_events, run_heads>>
  PROVE  CurrentInv'
<1>1. ASSUME NEW q \in Procs
      PROVE  /\ PlacesDiffer(job'[q].todo \cup job'[q].cur)
             /\ \A e, f \in job'[q].plan : e.run = f.run => e = f
             /\ Writing(q)' => \A e \in run_events' : e.tx # job'[q].seg
      BY DEF CurrentInv, Writing
<1> QED
      BY <1>1 DEF CurrentInv

LEMMA CurrentPersistLoop ==
  ASSUME TypeOK, ObjectInv, CurrentInv, NEW p \in Procs,
         \/ FilterDone(p) \/ FilterChunk(p) \/ PutSegment(p) \/ PutSearchIndex(p)
         \/ CommitConflict(p) \/ Fail(p)
  PROVE  CurrentInv'
<1> USE DEF tables
<1>1. job[p] \in Job
      BY DEF TypeOK
<1>2. /\ PlacesDiffer(job[p].todo \cup job[p].cur)
      /\ \A e, f \in job[p].plan : e.run = f.run => e = f
      /\ Writing(p) => \A e \in run_events : e.tx # job[p].seg
      BY DEF CurrentInv
<1>3. CASE FilterDone(p)
  <2>1. /\ \A q \in Procs : q # p => job'[q] = job[q]
        /\ job'[p].todo = Rest(p) /\ job'[p].cur = job[p].cur /\ job'[p].plan = job[p].plan
        /\ job'[p].pc \in {"done", "filter"}
        BY <1>1, <1>3 DEF FilterDone, TypeOK, Job
  <2>2. PlacesDiffer(job'[p].todo \cup job'[p].cur)
        BY <1>2, <2>1 DEF PlacesDiffer, Rest
  <2> QED
        BY <1>2, <1>3, <2>1, <2>2, CurrentQuiet DEF FilterDone
<1>4. CASE FilterChunk(p)
  <2>1. /\ \A q \in Procs : q # p => job'[q] = job[q]
        /\ job'[p].todo = Rest(p) \cup (Fresh(p) \ NextChunk(Fresh(p)))
        /\ job'[p].cur = NextChunk(Fresh(p)) /\ job'[p].plan = job[p].plan
        /\ job'[p].pc = "put"
        BY <1>1, <1>4 DEF FilterChunk, TypeOK, Job
  <2>2. job'[p].todo \cup job'[p].cur \subseteq job[p].todo
        BY <2>1 DEF Rest, Fresh, FirstPartition, NextChunk
  <2>3. PlacesDiffer(job'[p].todo \cup job'[p].cur)
        BY <1>2, <2>2 DEF PlacesDiffer
  <2> QED
        BY <1>2, <1>4, <2>1, <2>3, CurrentQuiet DEF FilterChunk
<1>5. CASE PutSegment(p)
  <2>1. /\ \A q \in Procs : q # p => job'[q] = job[q]
        /\ job'[p].todo = job[p].todo /\ job'[p].cur = job[p].cur /\ job'[p].plan = job[p].plan
        /\ job'[p].seg = next
        BY <1>1, <1>5 DEF PutSegment, TypeOK, Job
  <2>2. \A e \in run_events : e.tx # next
        BY DEF TypeOK, Event, ObjectInv, SegmentsInTheMaking
  <2> QED
        BY <1>2, <1>5, <2>1, <2>2, CurrentQuiet DEF PutSegment
<1>6. CASE PutSearchIndex(p)
  <2>1. /\ \A q \in Procs : q # p => job'[q] = job[q]
        /\ job'[p].todo = job[p].todo /\ job'[p].cur = job[p].cur /\ job'[p].plan = job[p].plan
        /\ job'[p].seg = job[p].seg /\ Writing(p)
        BY <1>1, <1>6 DEF PutSearchIndex, TypeOK, Job, Writing
  <2> QED
        BY <1>2, <1>6, <2>1, CurrentQuiet DEF PutSearchIndex
<1>7. CASE CommitConflict(p)
  <2>1. /\ \A q \in Procs : q # p => job'[q] = job[q]
        /\ job'[p].todo = job[p].cur \cup job[p].todo /\ job'[p].cur = {}
        /\ job'[p].plan = job[p].plan /\ job'[p].pc = "filter"
        BY <1>1, <1>7 DEF CommitConflict, TypeOK, Job
  <2>2. PlacesDiffer(job'[p].todo \cup job'[p].cur)
        BY <1>2, <2>1 DEF PlacesDiffer
  <2> QED
        BY <1>2, <1>7, <2>1, <2>2, CurrentQuiet DEF CommitConflict
<1>8. CASE Fail(p)
  <2>1. /\ \A q \in Procs : q # p => job'[q] = job[q]
        /\ job'[p].todo = {} /\ job'[p].cur = {} /\ job'[p].plan = {} /\ job'[p].pc = "idle"
        BY <1>8 DEF Fail, TypeOK, IdleJob
  <2>2. PlacesDiffer(job'[p].todo \cup job'[p].cur)
        BY <2>1 DEF PlacesDiffer
  <2> QED
        BY <1>8, <2>1, <2>2, CurrentQuiet DEF Fail
<1> QED
      BY <1>3, <1>4, <1>5, <1>6, <1>7, <1>8

LEMMA CurrentWrite ==
  ASSUME TypeOK, CurrentInv, NEW w \in Writers, Write(w)
  PROVE  CurrentInv'
<1> USE DEF tables
<1>0. w \in Procs
      BY DEF Procs
<1>1. ASSUME NEW b \in Batches, Submit(w, b) PROVE CurrentInv'
  <2>1. /\ \A q \in Procs : q # w => job'[q] = job[q]
        /\ job'[w].todo = RowsOf(b) /\ job'[w].cur = {} /\ job'[w].plan = {}
        /\ job'[w].pc = "filter"
        BY <1>0, <1>1 DEF Submit, TypeOK, IdleJob
  <2>2. PlacesDiffer(RowsOf(b))
        BY DEF PlacesDiffer, RowsOf
  <2> QED
        BY <1>0, <1>1, <2>1, <2>2, CurrentQuiet DEF Submit
<1>2. CASE Acknowledge(w)
  <2>1. /\ \A q \in Procs : q # w => job'[q] = job[q]
        /\ job'[w].todo = {} /\ job'[w].cur = {} /\ job'[w].plan = {} /\ job'[w].pc = "idle"
        BY <1>0, <1>2 DEF Acknowledge, TypeOK, IdleJob
  <2>2. PlacesDiffer(job'[w].todo \cup job'[w].cur)
        BY <2>1 DEF PlacesDiffer
  <2> QED
        BY <1>0, <1>2, <2>1, <2>2, CurrentQuiet DEF Acknowledge
<1> QED
      BY <1>1, <1>2 DEF Write

\* A compactor reads one version of each run, and numbers its rows by run.
LEMMA CurrentCompact ==
  ASSUME TypeOK, HeadInv, CurrentInv, NEW c \in Compactors, Compact(c)
  PROVE  CurrentInv'
<1> USE DEF tables
<1>0. c \in Procs
      BY DEF Procs
<1>1. job[c] \in Job
      BY <1>0 DEF TypeOK
<1>2. /\ PlacesDiffer(job[c].todo \cup job[c].cur)
      /\ \A e, f \in job[c].plan : e.run = f.run => e = f
      BY <1>0 DEF CurrentInv
<1>3. CASE CompactList(c)
  <2>1. /\ \A q \in Procs : q # c => job'[q] = job[q]
        /\ job'[c].todo = {} /\ job'[c].cur = {} /\ job'[c].plan = {} /\ job'[c].pc = "plan"
        BY <1>0, <1>3 DEF CompactList, TypeOK, IdleJob
  <2>2. PlacesDiffer(job'[c].todo \cup job'[c].cur)
        BY <2>1 DEF PlacesDiffer
  <2> QED
        BY <1>0, <1>3, <2>1, <2>2, CurrentQuiet DEF CompactList
<1>4. CASE CompactPlan(c)
  <2>1. /\ \A q \in Procs : q # c => job'[q] = job[q]
        /\ job'[c].todo = job[c].todo /\ job'[c].cur = job[c].cur
        /\ job'[c].plan = Planned /\ job'[c].pc = "read"
        BY <1>0, <1>1, <1>4 DEF CompactPlan, TypeOK, Job
  <2>2. \A e, f \in Planned : e.run = f.run => e = f
        BY DEF Planned, Visible, HeadInv, HeadsAreLatest
  <2> QED
        BY <1>0, <1>2, <1>4, <2>1, <2>2, CurrentQuiet DEF CompactPlan
<1>5. CASE CompactRead(c)
  <2>1. \A q \in Procs : q # c => job'[q] = job[q]
        BY <1>0, <1>5 DEF CompactRead, TypeOK
  <2>2. CASE job'[c] = IdleJob
    <3>1. job'[c].todo = {} /\ job'[c].cur = {} /\ job'[c].plan = {} /\ job'[c].pc = "idle"
          BY <2>2 DEF IdleJob
    <3>2. PlacesDiffer(job'[c].todo \cup job'[c].cur)
          BY <3>1 DEF PlacesDiffer
    <3> QED
          BY <1>0, <1>5, <2>1, <3>1, <3>2, CurrentQuiet DEF CompactRead
  <2>3. CASE job'[c] # IdleJob
    <3>1. /\ job'[c].todo = ReadRows(c) /\ job'[c].cur = job[c].cur
          /\ job'[c].plan = job[c].plan /\ job'[c].pc = "filter" /\ job[c].pc = "read"
          BY <1>0, <1>1, <1>5, <2>3 DEF CompactRead, TypeOK, Job
    <3>2. job[c].cur = {}
          BY <3>1 DEF HeadInv, CompactorsCoverTheirSegments, Covers
    <3>3. \A r \in ReadRows(c) : \E e \in job[c].plan : r = CompactRow(e, job[c].old) /\ r.pos = e.run
          BY DEF ReadRows, CompactRow
    <3>4. PlacesDiffer(job'[c].todo \cup job'[c].cur)
          BY <1>2, <3>1, <3>2, <3>3 DEF PlacesDiffer
    <3> QED
          BY <1>0, <1>2, <1>5, <2>1, <3>1, <3>4, CurrentQuiet DEF CompactRead
  <2> QED
        BY <2>2, <2>3
<1>6. CASE CompactMark(c)
  <2>1. /\ \A q \in Procs : q # c => job'[q] = job[q]
        /\ job'[c].todo = {} /\ job'[c].cur = {} /\ job'[c].plan = {} /\ job'[c].pc = "idle"
        BY <1>0, <1>6 DEF CompactMark, TypeOK, IdleJob
  <2>2. PlacesDiffer(job'[c].todo \cup job'[c].cur)
        BY <2>1 DEF PlacesDiffer
  <2> QED
        BY <1>0, <1>6, <2>1, <2>2, CurrentQuiet DEF CompactMark
<1> QED
      BY <1>3, <1>4, <1>5, <1>6 DEF Compact

\* The new events have a transaction id that no event has, and places of their own.
LEMMA CurrentCommit ==
  ASSUME TypeOK, ObjectInv, CurrentInv, NEW p \in Procs, CommitWritten(p) \/ CommitUnanswered(p)
  PROVE  CurrentInv'
<1> DEFINE u == job[p].seg
           rows == job[p].cur
           E == {EventOf(r, u) : r \in rows}
           touched == {e.run : e \in E}
<1>1. Writing(p) /\ PersistMetadata(u, rows)
      BY DEF CommitWritten, CommitUnanswered, Writing
<1>2. /\ \A q \in Procs : q # p => job'[q] = job[q]
      /\ job'[p].pc \in {"idle", "filter"} /\ job'[p].cur = {}
      /\ job'[p].todo \subseteq job[p].todo /\ job'[p].plan \subseteq job[p].plan
  <2>1. CASE CommitWritten(p)
        BY <2>1 DEF CommitWritten, TypeOK, Job
  <2>2. CASE CommitUnanswered(p)
        BY <2>2 DEF CommitUnanswered, TypeOK, IdleJob
  <2> QED
        BY <2>1, <2>2
<1>3. u \in Nat /\ rows \subseteq Row
      BY DEF TypeOK, Job
<1>4. PICK newest \in [touched -> E] :
        /\ run_events' = run_events \cup E
        /\ run_heads' = [r \in Runs |-> IF r \in touched
                                        THEN UpsertHead(run_heads[r], newest[r])
                                        ELSE run_heads[r]]
      BY <1>1 DEF PersistMetadata
<1>5. \A e \in E : e.tx = u /\ e.kind # "tombstone"
  <2>1. \A r \in rows : r.kind # "tombstone"
        BY <1>3 DEF Row, RowKinds, ClientKinds
  <2> QED
        BY <1>3, <2>1, EventOfType
<1>6. \A e, f \in E : e.pos = f.pos => e = f
  <2> SUFFICES ASSUME NEW r \in rows, NEW q \in rows, EventOf(r, u).pos = EventOf(q, u).pos
               PROVE  r = q
      OBVIOUS
  <2>1. r.pos = q.pos
        BY <1>3, EventOfType
  <2> QED
        BY <2>1 DEF CurrentInv, PlacesDiffer
<1>7. \A e \in run_events : e.tx # u
      BY <1>1 DEF CurrentInv
<1> HIDE DEF E, touched
<1>8. ASSUME NEW r \in Runs, run_heads'[r] # NoHead
      PROVE  run_heads'[r].ver \in run_events' /\ run_heads'[r].ver.kind # "tombstone"
  <2>1. CASE run_heads'[r] = run_heads[r]
        BY <1>4, <1>8, <2>1 DEF CurrentInv
  <2>2. CASE run_heads'[r] # run_heads[r]
    <3>1. r \in touched /\ run_heads'[r] = [ver |-> newest[r], last |-> newest[r], deleted |-> FALSE]
          BY <1>4, <2>2 DEF UpsertHead
    <3> QED
          BY <1>4, <1>5, <3>1
  <2> QED
        BY <2>1, <2>2
<1>9. \A e, f \in run_events' : e.run = f.run /\ e.tx = f.tx /\ e.pos = f.pos => e = f
      BY <1>4, <1>5, <1>6, <1>7 DEF CurrentInv
<1>10. ASSUME NEW q \in Procs
       PROVE  /\ PlacesDiffer(job'[q].todo \cup job'[q].cur)
              /\ \A e, f \in job'[q].plan : e.run = f.run => e = f
              /\ Writing(q)' => \A e \in run_events' : e.tx # job'[q].seg
  <2>1. CASE q = p
        BY <1>2, <2>1 DEF CurrentInv, PlacesDiffer, Writing
  <2>2. CASE q # p
    <3>1. job'[q] = job[q]
          BY <1>2, <2>2
    <3>2. Writing(q) => job[q].seg # u
          BY <1>1, <2>2 DEF ObjectInv, SegmentsInTheMaking
    <3> QED
          BY <1>4, <1>5, <3>1, <3>2 DEF CurrentInv, Writing
  <2> QED
        BY <2>1, <2>2
<1> QED
      BY <1>8, <1>9, <1>10 DEF CurrentInv

\* A delete adds at most one event to a run, under the transaction's own id, and
\* moves no head.
LEMMA CurrentDelete ==
  ASSUME TypeOK, ObjectInv, HeadInv, CurrentInv,
         NEW R \in SUBSET Runs, NEW now \in Times, DeleteRunsInTx(R, now)
  PROVE  CurrentInv'
<1> DEFINE D == {r \in R : run_heads[r] # NoHead /\ ~run_heads[r].deleted}
           H(r) == [run_heads[r] EXCEPT !.last = Tombstone(r, now), !.deleted = TRUE]
<1>1. /\ run_events' = run_events \cup {Tombstone(r, now) : r \in D}
      /\ run_heads' = [r \in Runs |-> IF r \in D THEN H(r) ELSE run_heads[r]]
      /\ UNCHANGED job
      BY DEF DeleteRunsInTx
<1>2. \A r \in D : /\ r \in Runs /\ run_heads[r] # NoHead /\ run_heads[r].ver.run = r
                   /\ run_heads[r] \in RunHead /\ run_heads[r].ver \in Event
      BY HeadType DEF HeadInv, HeadsAreLatest
<1>3. ASSUME NEW r \in D
      PROVE  \/ Tombstone(r, now) \in run_events
             \/ Tombstone(r, now).run = r /\ Tombstone(r, now).tx = next
  <2> DEFINE same == {e \in run_events : e.kind = "tombstone" /\ e.run = r /\ e.time = now}
  <2>1. CASE same # {}
        BY <2>1 DEF Tombstone
  <2>2. CASE same = {}
    <3>1. Tombstone(r, now) = [run_heads[r].ver EXCEPT !.kind = "tombstone", !.batch = {},
                                                       !.tx = next, !.time = now]
          BY <2>2 DEF Tombstone
    <3> QED
          BY <1>2, <3>1 DEF Event
  <2> QED
        BY <2>1, <2>2
<1>4. \A r \in D : H(r).ver = run_heads[r].ver
      BY <1>2 DEF RunHead
<1>5. \A e \in run_events : e.tx # next
      BY DEF TypeOK, Event, ObjectInv, SegmentsInTheMaking
<1>6. ASSUME NEW p \in Procs, Writing(p) PROVE job[p].seg # next
  <2>1. job[p].seg < next
        BY <1>6 DEF ObjectInv, SegmentsInTheMaking
  <2>2. job[p].seg \in Nat /\ next \in Nat
        BY DEF TypeOK, Job
  <2> QED
        BY <2>1, <2>2
<1> HIDE DEF D, H
<1>7. ASSUME NEW e \in run_events', NEW f \in run_events',
             e.run = f.run, e.tx = f.tx, e.pos = f.pos
      PROVE  e = f
  <2>1. CASE e \in run_events /\ f \in run_events
        BY <1>7, <2>1 DEF CurrentInv
  <2>2. CASE e \notin run_events \/ f \notin run_events
    <3>1. e.tx = next /\ f.tx = next
          BY <1>1, <1>3, <1>7, <2>2
    <3>2. e \notin run_events /\ f \notin run_events
          BY <1>5, <3>1
    <3>3. e = Tombstone(e.run, now) /\ f = Tombstone(f.run, now)
          BY <1>1, <1>3, <3>2
    <3> QED
          BY <1>7, <3>3
  <2> QED
        BY <2>1, <2>2
<1>8. ASSUME NEW r \in Runs, run_heads'[r] # NoHead
      PROVE  run_heads'[r].ver \in run_events' /\ run_heads'[r].ver.kind # "tombstone"
  <2>1. run_heads[r] # NoHead /\ run_heads'[r].ver = run_heads[r].ver
        BY <1>1, <1>2, <1>4, <1>8
  <2> QED
        BY <1>1, <2>1 DEF CurrentInv
<1>9. ASSUME NEW p \in Procs
      PROVE  /\ PlacesDiffer(job'[p].todo \cup job'[p].cur)
             /\ \A e, f \in job'[p].plan : e.run = f.run => e = f
             /\ Writing(p)' => \A e \in run_events' : e.tx # job'[p].seg
  <2>1. \A e \in run_events' : e \in run_events \/ e.tx = next
        BY <1>1, <1>3
  <2>2. Writing(p)' <=> Writing(p)
        BY <1>1 DEF Writing
  <2> QED
        BY <1>1, <1>6, <2>1, <2>2 DEF CurrentInv
<1> QED
      BY <1>7, <1>8, <1>9 DEF CurrentInv

LEMMA CurrentInvariant == Spec => []CurrentInv
<1>1. Init => CurrentInv
      BY DEF Init, CurrentInv, PlacesDiffer, IdleJob, Writing
<1>2. TypeOK /\ ObjectInv /\ HeadInv /\ CurrentInv /\ [Next]_vars => CurrentInv'
  <2> SUFFICES ASSUME TypeOK, ObjectInv, HeadInv, CurrentInv, [Next]_vars PROVE CurrentInv'
      OBVIOUS
  <2>1. ASSUME NEW p \in Procs, Persist(p) PROVE CurrentInv'
        BY <2>1, CurrentPersistLoop, CurrentCommit DEF Persist
  <2>2. ASSUME UNCHANGED <<run_events, run_heads, job>> PROVE CurrentInv'
        BY <2>2 DEF CurrentInv, Writing
  <2>3. CASE Delete
    <3>1. ASSUME NEW r \in Runs, NEW now \in Times, DeleteRun(r, now) PROVE CurrentInv'
          BY <3>1, CurrentDelete DEF DeleteRun
    <3>2. ASSUME NEW now \in Times, RetentionExpire(now) PROVE CurrentInv'
          BY <3>2, CurrentDelete DEF RetentionExpire, TypeOK
    <3>3. ASSUME NEW cutoff \in Times, RetentionSelect(cutoff) PROVE CurrentInv'
          BY <2>2, <3>3 DEF RetentionSelect, tables
    <3>4. CASE RetentionFail
          BY <2>2, <3>4 DEF RetentionFail, tables
    <3> QED
          BY <2>3, <3>1, <3>2, <3>3, <3>4 DEF Delete
  <2>4. CASE Cleanup
        BY <2>2, <2>4 DEF Cleanup, CleanupSelect, CleanupDelete, CleanupMark, CleanupFail, tables
  <2>5. CASE UNCHANGED vars
        BY <2>2, <2>5 DEF vars
  <2> QED
        BY <2>1, <2>3, <2>4, <2>5, CurrentWrite, CurrentCompact DEF Next
<1> QED
      BY <1>1, <1>2, TypeCorrectness, ObjectInvariant, HeadInvariant, PTL DEF Spec

\* Replaying the event log of a run that was never deleted gives the version that
\* its head shows, whatever order its events arrived in, in however many
\* transactions, and however often it was compacted.
THEOREM ReplaySafety == Spec => []ReplayGivesTheLiveHead
<1>1. TypeOK /\ LookupAgreesWithListing /\ HeadInv /\ CurrentInv => ReplayGivesTheLiveHead
  <2> SUFFICES ASSUME TypeOK, LookupAgreesWithListing, HeadInv, CurrentInv,
                      NEW r \in Runs, Visible(r)
               PROVE  Replay(r) = run_heads[r].ver
      BY DEF ReplayGivesTheLiveHead
  <2> DEFINE v == run_heads[r].ver
             Newest(e) == \A f \in EventsOf(r) : NotAfter(f, e)
             l == Latest(EventsOf(r))
  <2>1. run_heads[r] # NoHead /\ ~run_heads[r].deleted
        BY DEF Visible
  <2>2. v \in EventsOf(r) /\ Newest(v) /\ v.kind # "tombstone"
        BY <2>1 DEF EventsOf, CurrentInv, HeadInv, HeadsAreLatest
  <2>3. l \in EventsOf(r) /\ Newest(l)
        BY <2>2 DEF Latest
  <2>4. NotAfter(v, l) /\ NotAfter(l, v)
        BY <2>2, <2>3
  <2>5. v \in Event /\ l \in Event
        BY <2>2, <2>3 DEF EventsOf, TypeOK
  <2>6. v.tx = l.tx /\ v.pos = l.pos
    <3> HIDE DEF v, l
    <3> QED
        BY <2>4, <2>5 DEF NotAfter, Event
  <2>7. l = v
        BY <2>2, <2>3, <2>6 DEF EventsOf, CurrentInv
  <2>8. run_locators[r] # NoHead /\ run_locators[r].ver = v
        BY <2>1 DEF LookupAgreesWithListing
  <2>9. v.seg \notin compacted
        BY DEF HeadInv, VisibleRunsAreListed
  <2> QED
        BY <2>2, <2>7, <2>8, <2>9 DEF Replay
<1> QED
      BY <1>1, TypeCorrectness, HeadInvariant, CurrentInvariant, PTL

----------------------------------------------------------------------------
(***************************************************************************)
(* What a flush acknowledged stays durable.  Events are never removed, so  *)
(* it is enough that every row a writer was given is either still in its   *)
(* hands or an event; that the event's version or a later one is shown     *)
(* follows from the invariant about heads.                                 *)
(***************************************************************************)

\* Commits and deletes only add events: a key that is there stays.
LEMMA KeysGrow ==
  ASSUME run_events \subseteq run_events'
  PROVE  Keys \subseteq Keys'
BY DEF Keys

\* The event of a row has the key of the row.
LEMMA EventKey ==
  ASSUME NEW r \in Row, NEW u \in Nat
  PROVE  IdempotencyKey(EventOf(r, u)) = IdempotencyKey(r)
BY DEF IdempotencyKey, EventOf

\* A step that moves task p, and adds events at most.
LEMMA AckQuiet ==
  ASSUME TypeOK, AckInv, NEW p \in Procs, run_events \subseteq run_events', acked' = acked,
         \A q \in Procs : q # p => job'[q] = job[q],
         p \in Writers => KeepsRows(p)'
  PROVE  AckInv'
<1>1. Keys \subseteq Keys'
      BY KeysGrow
<1>2. \A w \in Writers : w # p => KeepsRows(w)'
  <2> SUFFICES ASSUME NEW w \in Writers, w # p PROVE KeepsRows(w)'
      OBVIOUS
  <2>1. job'[w] = job[w]
        BY DEF Procs
  <2> QED
        BY <1>1, <2>1 DEF AckInv, KeepsRows
<1> QED
      BY <1>1, <1>2 DEF AckInv

\* The loop of persist_partition_records: filtering drops only rows that are
\* events, and a conflict gives the rows back.
LEMMA AckPersistLoop ==
  ASSUME TypeOK, AckInv, NEW p \in Procs,
         \/ FilterDone(p) \/ FilterChunk(p) \/ PutSegment(p) \/ PutSearchIndex(p)
         \/ CommitConflict(p) \/ Fail(p)
  PROVE  AckInv'
<1>0. job[p] \in Job
      BY DEF TypeOK
<1>1. UNCHANGED <<run_events, acked>>
      BY DEF FilterDone, FilterChunk, PutSegment, PutSearchIndex, CommitConflict, Fail, tables
<1>2. Keys' = Keys
      BY <1>1 DEF Keys
<1>3. ASSUME p \in Writers PROVE KeepsRows(p)
      BY <1>3 DEF AckInv
<1>4. CASE FilterDone(p) \/ FilterChunk(p)
  <2>1. \A row \in job[p].todo :
          row \in Rest(p) \/ row \in Fresh(p) \/ IdempotencyKey(row) \in Keys
        BY DEF Rest, Fresh
  <2>2. CASE FilterDone(p)
    <3>1. /\ \A q \in Procs : q # p => job'[q] = job[q]
          /\ job'[p].pc = IF Rest(p) = {} THEN "done" ELSE "filter"
          /\ job'[p].todo = Rest(p) /\ job'[p].cur = job[p].cur /\ job'[p].rows = job[p].rows
          /\ job[p].pc = "filter" /\ Fresh(p) = {}
          BY <1>0, <2>2 DEF FilterDone, TypeOK, Job
    <3>2. ASSUME p \in Writers PROVE KeepsRows(p)'
          BY <1>2, <1>3, <2>1, <3>1, <3>2 DEF KeepsRows
    <3> QED
          BY <1>1, <3>1, <3>2, AckQuiet
  <2>3. CASE FilterChunk(p)
    <3> DEFINE chunk == NextChunk(Fresh(p))
    <3>1. /\ \A q \in Procs : q # p => job'[q] = job[q]
          /\ job'[p].pc = "put" /\ job'[p].todo = Rest(p) \cup (Fresh(p) \ chunk)
          /\ job'[p].cur = chunk /\ job'[p].rows = job[p].rows /\ job[p].pc = "filter"
          BY <1>0, <2>3 DEF FilterChunk, TypeOK, Job
    <3> HIDE DEF chunk
    <3>2. ASSUME p \in Writers PROVE KeepsRows(p)'
          BY <1>2, <1>3, <2>1, <3>1, <3>2 DEF KeepsRows
    <3> QED
          BY <1>1, <3>1, <3>2, AckQuiet
  <2> QED
        BY <1>4, <2>2, <2>3
<1>5. CASE PutSegment(p)
  <2>1. /\ \A q \in Procs : q # p => job'[q] = job[q]
        /\ job'[p].pc = "index" /\ job'[p].todo = job[p].todo
        /\ job'[p].cur = job[p].cur /\ job'[p].rows = job[p].rows
        BY <1>0, <1>5 DEF PutSegment, TypeOK, Job
  <2>2. ASSUME p \in Writers PROVE KeepsRows(p)'
        BY <1>2, <1>3, <2>1, <2>2 DEF KeepsRows
  <2> QED
        BY <1>1, <2>1, <2>2, AckQuiet
<1>6. CASE PutSearchIndex(p)
  <2>1. /\ \A q \in Procs : q # p => job'[q] = job[q]
        /\ job'[p].pc = "commit" /\ job'[p].todo = job[p].todo
        /\ job'[p].cur = job[p].cur /\ job'[p].rows = job[p].rows
        BY <1>0, <1>6 DEF PutSearchIndex, TypeOK, Job
  <2>2. ASSUME p \in Writers PROVE KeepsRows(p)'
        BY <1>2, <1>3, <2>1, <2>2 DEF KeepsRows
  <2> QED
        BY <1>1, <2>1, <2>2, AckQuiet
<1>7. CASE CommitConflict(p)
  <2>1. /\ \A q \in Procs : q # p => job'[q] = job[q]
        /\ job'[p].pc = "filter" /\ job'[p].todo = job[p].cur \cup job[p].todo
        /\ job'[p].cur = {} /\ job'[p].rows = job[p].rows
        BY <1>0, <1>7 DEF CommitConflict, TypeOK, Job
  <2>2. ASSUME p \in Writers PROVE KeepsRows(p)'
        BY <1>2, <1>3, <2>1, <2>2 DEF KeepsRows
  <2> QED
        BY <1>1, <2>1, <2>2, AckQuiet
<1>8. CASE Fail(p)
  <2>1. job'[p] = IdleJob /\ \A q \in Procs : q # p => job'[q] = job[q]
        BY <1>8 DEF Fail, TypeOK
  <2>2. KeepsRows(p)'
        BY <2>1 DEF KeepsRows, IdleJob
  <2> QED
        BY <1>1, <2>1, <2>2, AckQuiet
<1> QED
      BY <1>4, <1>5, <1>6, <1>7, <1>8

\* A commit makes the rows of the segment events.
LEMMA AckCommit ==
  ASSUME TypeOK, AckInv, NEW p \in Procs, CommitWritten(p) \/ CommitUnanswered(p)
  PROVE  AckInv'
<1> DEFINE u == job[p].seg
           E == {EventOf(r, u) : r \in job[p].cur}
<1>1. run_events' = run_events \cup E /\ acked' = acked
      BY DEF CommitWritten, CommitUnanswered, PersistMetadata
<1>2. u \in Nat /\ job[p].cur \subseteq Row
      BY DEF TypeOK, Job
<1>3. \A row \in job[p].cur : IdempotencyKey(row) \in Keys'
  <2> SUFFICES ASSUME NEW row \in job[p].cur PROVE IdempotencyKey(row) \in Keys'
      OBVIOUS
  <2>1. EventOf(row, u) \in run_events'
        BY <1>1
  <2>2. EventOf(row, u).kind # "tombstone"
        BY <1>2, EventOfType DEF Row, RowKinds, ClientKinds
  <2> QED
        BY <1>2, <2>1, <2>2, EventKey DEF Keys
<1>4. /\ \A q \in Procs : q # p => job'[q] = job[q]
      /\ \/ job'[p] = IdleJob
         \/ /\ job'[p].pc = "filter" /\ job'[p].cur = {}
            /\ job'[p].todo = job[p].todo /\ job'[p].rows = job[p].rows
  <2>1. CASE CommitWritten(p)
        BY <2>1 DEF CommitWritten, TypeOK, Job
  <2>2. CASE CommitUnanswered(p)
        BY <2>2 DEF CommitUnanswered, TypeOK
  <2> QED
        BY <2>1, <2>2
<1>5. run_events \subseteq run_events'
      BY <1>1
<1>6. Keys \subseteq Keys'
      BY <1>5, KeysGrow
<1> HIDE DEF E, u
<1>7. ASSUME p \in Writers PROVE KeepsRows(p)'
  <2>1. KeepsRows(p)
        BY <1>7 DEF AckInv
  <2>2. CASE job'[p] = IdleJob
        BY <2>2 DEF KeepsRows, IdleJob
  <2>3. CASE /\ job'[p].pc = "filter" /\ job'[p].cur = {}
             /\ job'[p].todo = job[p].todo /\ job'[p].rows = job[p].rows
        BY <1>3, <1>6, <2>1, <2>3 DEF KeepsRows
  <2> QED
        BY <1>4, <2>2, <2>3
<1> QED
      BY <1>1, <1>4, <1>5, <1>7, AckQuiet

\* A writer takes a batch, or acknowledges the one it has finished.
LEMMA AckWrite ==
  ASSUME TypeOK, AckInv, NEW w \in Writers, Write(w)
  PROVE  AckInv'
<1>1. w \in Procs
      BY DEF Procs
<1>2. ASSUME NEW b \in Batches, Submit(w, b) PROVE AckInv'
  <2>1. /\ \A q \in Procs : q # w => job'[q] = job[q]
        /\ job'[w].pc = "filter" /\ job'[w].todo = RowsOf(b) /\ job'[w].cur = {}
        /\ job'[w].rows = RowsOf(b)
        BY <1>1, <1>2 DEF Submit, TypeOK, IdleJob
  <2>2. KeepsRows(w)'
        BY <2>1 DEF KeepsRows
  <2> QED
        BY <1>1, <1>2, <2>1, <2>2, AckQuiet DEF Submit, tables
<1>3. CASE Acknowledge(w)
  <2>1. /\ \A q \in Procs : q # w => job'[q] = job[q]
        /\ job'[w] = IdleJob /\ acked' = acked \cup job[w].rows /\ run_events' = run_events
        BY <1>1, <1>3 DEF Acknowledge, TypeOK, tables
  <2>2. Keys' = Keys
        BY <2>1 DEF Keys
  <2>3. \A row \in job[w].rows : IdempotencyKey(row) \in Keys
        BY <1>3 DEF Acknowledge, AckInv, KeepsRows
  <2>4. \A v \in Writers : KeepsRows(v)'
    <3> SUFFICES ASSUME NEW v \in Writers PROVE KeepsRows(v)'
        OBVIOUS
    <3>1. CASE v = w
          BY <2>1, <3>1 DEF KeepsRows, IdleJob
    <3>2. CASE v # w
      <4>1. job'[v] = job[v]
            BY <2>1, <3>2 DEF Procs
      <4> QED
            BY <2>2, <4>1 DEF AckInv, KeepsRows
    <3> QED
          BY <3>1, <3>2
  <2> QED
        BY <2>1, <2>2, <2>3, <2>4 DEF AckInv
<1> QED
      BY <1>2, <1>3 DEF Write

LEMMA AckInvariant == Spec => []AckInv
<1>1. Init => AckInv
      BY DEF Init, AckInv, KeepsRows, IdleJob, Procs
<1>2. TypeOK /\ AckInv /\ [Next]_vars => AckInv'
  <2> SUFFICES ASSUME TypeOK, AckInv, [Next]_vars PROVE AckInv'
      OBVIOUS
  <2>1. ASSUME NEW p \in Procs, Persist(p) PROVE AckInv'
        BY <2>1, AckPersistLoop, AckCommit DEF Persist
  <2>2. ASSUME NEW w \in Writers, Write(w) PROVE AckInv'
        BY <2>2, AckWrite
  <2>3. ASSUME NEW c \in Compactors, Compact(c) PROVE AckInv'
    <3>1. c \in Procs /\ c \notin Writers
          BY ConstantsAssumption DEF Procs
    <3>2. UNCHANGED <<run_events, acked>>
          BY <2>3 DEF Compact, CompactList, CompactPlan, CompactRead, CompactMark, tables
    <3>3. \A q \in Procs : q # c => job'[q] = job[q]
          BY <2>3 DEF Compact, CompactList, CompactPlan, CompactRead, CompactMark, TypeOK
    <3> QED
          BY <3>1, <3>2, <3>3, AckQuiet
  <2>4. ASSUME run_events \subseteq run_events', UNCHANGED <<job, acked>> PROVE AckInv'
    <3>1. Keys \subseteq Keys'
          BY <2>4, KeysGrow
    <3> QED
          BY <2>4, <3>1 DEF AckInv, KeepsRows
  <2>5. CASE Delete
    <3>1. run_events \subseteq run_events' /\ UNCHANGED <<job, acked>>
          BY <2>5 DEF Delete, DeleteRun, RetentionExpire, RetentionSelect, RetentionFail,
                      DeleteRunsInTx, tables
    <3> QED
          BY <2>4, <3>1
  <2>6. CASE Cleanup
    <3>1. run_events \subseteq run_events' /\ UNCHANGED <<job, acked>>
          BY <2>6 DEF Cleanup, CleanupSelect, CleanupDelete, CleanupMark, CleanupFail, tables
    <3> QED
          BY <2>4, <3>1
  <2>7. CASE UNCHANGED vars
        BY <2>4, <2>7 DEF vars
  <2> QED
        BY <2>1, <2>2, <2>3, <2>5, <2>6, <2>7 DEF Next
<1> QED
      BY <1>1, <1>2, TypeCorrectness, PTL DEF Spec

\* An acknowledged batch is durable: each of its records is an event, and its run
\* is deleted or shows the version of that event or a later one.
THEOREM AcknowledgedIsDurable == Spec => []AckedBatchesAreDurable
<1>1. TypeOK /\ HeadInv /\ AckInv => AckedBatchesAreDurable
  <2> SUFFICES ASSUME TypeOK, HeadInv, AckInv, NEW row \in acked
               PROVE  \E e \in run_events :
                         /\ IdempotencyKey(e) = IdempotencyKey(row)
                         /\ \/ row.run \in run_deletions
                            \/ /\ Visible(row.run)
                               /\ NotAfter(e, run_heads[row.run].last)
      BY DEF AckedBatchesAreDurable
  <2>1. PICK e \in run_events : IdempotencyKey(e) = IdempotencyKey(row)
        BY DEF AckInv, Keys
  <2>2. e.run = row.run /\ row.run \in Runs
        BY <2>1 DEF IdempotencyKey, TypeOK, Row
  <2>3. run_heads[row.run] # NoHead
        BY <2>2 DEF HeadInv, EventsAreApplied
  <2>4. row.run \notin run_deletions => Visible(row.run)
        BY <2>2, <2>3 DEF Visible, HeadInv, HeadsAreLatest
  <2>5. Visible(row.run) => NotAfter(e, run_heads[row.run].last)
        BY <2>2, <2>3 DEF HeadInv, HeadsAreLatest
  <2> QED
        BY <2>1, <2>4, <2>5
<1> QED
      BY <1>1, TypeCorrectness, HeadInvariant, AckInvariant, PTL
============================================================================
