-------------------------- MODULE OrphanSweepProofs --------------------------
(***************************************************************************)
(* The orphan sweep, for any number of tasks: as long as no task is        *)
(* between its first put and its commit while a sweep is running, sweeps   *)
(* delete every orphan and nothing that queries may read.                  *)
(***************************************************************************)
EXTENDS OrphanSweep, TraceStoreProofs

\* While nobody writes, no segment and no object appears.
LEMMA NobodyWrites ==
  ASSUME TypeOK, [Next]_vars, \A p \in Procs : ~Writing(p) /\ ~Writing(p)'
  PROVE  /\ trace_segments' = trace_segments
         /\ compacted \subseteq compacted'
         /\ objects' \subseteq objects
<1> DEFINE Good == /\ trace_segments' = trace_segments
                   /\ compacted \subseteq compacted'
                   /\ objects' \subseteq objects
<1> USE DEF tables
<1>1. ASSUME NEW p \in Procs, Persist(p) PROVE Good
  <2>1. CASE PutSegment(p)
    <3>1. job'[p].pc = "index"
          BY <2>1 DEF PutSegment, TypeOK, Job
    <3> QED
          BY <3>1 DEF Writing
  <2>2. ~PutSearchIndex(p) /\ ~CommitWritten(p) /\ ~CommitUnanswered(p) /\ ~CommitConflict(p)
        BY DEF PutSearchIndex, CommitWritten, CommitUnanswered, CommitConflict, Writing
  <2>3. CASE FilterDone(p) \/ FilterChunk(p) \/ Fail(p)
        BY <2>3 DEF FilterDone, FilterChunk, Fail
  <2> QED
        BY <1>1, <2>1, <2>2, <2>3 DEF Persist
<1>2. ASSUME NEW w \in Writers, Write(w) PROVE Good
      BY <1>2 DEF Write, Submit, Acknowledge
<1>3. ASSUME NEW c \in Compactors, Compact(c) PROVE Good
      BY <1>3 DEF Compact, CompactList, CompactPlan, CompactRead, CompactMark
<1>4. CASE Delete
      BY <1>4 DEF Delete, DeleteRun, DeleteRunsInTx, RetentionSelect, RetentionExpire, RetentionFail
<1>5. CASE Cleanup
      BY <1>5 DEF Cleanup, CleanupSelect, CleanupDelete, CleanupMark, CleanupFail
<1>6. CASE UNCHANGED vars
      BY <1>6 DEF vars
<1> QED
      BY <1>1, <1>2, <1>3, <1>4, <1>5, <1>6 DEF Next

\* A step of another task, beside a sweep that it does not race with.
LEMMA StoreStep ==
  ASSUME TypeOK, QuietInv, [Next]_vars, UNCHANGED sweep,
         sweep.pc # "idle" => \A p \in Procs : ~Writing(p)'
  PROVE  QuietInv'
<1>1. ObjectInv' /\ ReclaimInv'
      BY ObjectStep, ReclaimStep DEF QuietInv
<1>2. SweepIsConfined'
  <2>1. CASE sweep.pc = "idle"
        BY <2>1 DEF SweepIsConfined
  <2>2. CASE sweep.pc # "idle"
    <3>1. \A p \in Procs : ~Writing(p) /\ ~Writing(p)'
          BY <2>2 DEF QuietInv, SweepIsConfined
    <3>2. /\ trace_segments' = trace_segments
          /\ compacted \subseteq compacted'
          /\ objects' \subseteq objects
          BY <3>1, NobodyWrites
    <3> QED
          BY <3>1, <3>2 DEF QuietInv, SweepIsConfined
  <2> QED
        BY <2>1, <2>2
<1> QED
      BY <1>1, <1>2 DEF QuietInv

\* A step of the sweep that deletes nothing.
LEMMA SweepKeepsTheStore ==
  ASSUME QuietInv, UNCHANGED vars
  PROVE  /\ ObjectInv' /\ ReclaimInv'
         /\ \A p \in Procs : Writing(p)' <=> Writing(p)
<1>1. \A p \in Procs : Writing(p)' <=> Writing(p)
      BY DEF vars, Writing
<1>2. ObjectInv'
      BY <1>1 DEF vars, QuietInv, ObjectInv, SegmentsInTheMaking, CleanupIsConfined,
                  OldSegmentsExist, ReferencedObjectsExist
<1>3. ReclaimInv'
      BY DEF vars, QuietInv, ReclaimInv, ReclaimedSegmentsLeaveNothing
<1> QED
      BY <1>1, <1>2, <1>3

\* A step of a sweep that no task races with.
LEMMA QuietSweepStep ==
  ASSUME TypeOK, SweepTypeOK, QuietInv, Sweep,
         sweep'.pc # "idle" => \A p \in Procs : ~Writing(p)'
  PROVE  QuietInv'
<1>1. CASE SweepLoadSegments
  <2>1. /\ sweep'.pc = "indexes"
        /\ sweep'.referenced = {<<u, "segment">> : u \in Referenced}
        /\ UNCHANGED vars
        BY <1>1 DEF SweepLoadSegments, IdleSweep
  <2>2. trace_segments \ compacted \subseteq Referenced /\ Referenced \subseteq trace_segments
        BY DEF Referenced, QuietInv, ReclaimInv
  <2>3. SweepIsConfined'
        BY <2>1, <2>2 DEF SweepIsConfined, vars
  <2> QED
        BY <2>1, <2>3, SweepKeepsTheStore DEF QuietInv
<1>2. CASE SweepLoadIndexes
  <2>1. /\ sweep.pc = "indexes" /\ sweep'.pc = "list"
        /\ sweep'.referenced = sweep.referenced \cup {<<u, "index">> : u \in Referenced}
        /\ UNCHANGED vars
        BY <1>2 DEF SweepLoadIndexes, SweepTypeOK, SweepStates
  <2>2. trace_segments \ compacted \subseteq Referenced /\ Referenced \subseteq trace_segments
        BY DEF Referenced, QuietInv, ReclaimInv
  <2>3. SweepIsConfined'
        BY <2>1, <2>2 DEF QuietInv, SweepIsConfined, vars
  <2> QED
        BY <2>1, <2>3, SweepKeepsTheStore DEF QuietInv
<1>3. CASE SweepList
  <2>1. sweep.pc = "list" /\ UNCHANGED vars
        BY <1>3 DEF SweepList
  <2>2. CASE sweep' = IdleSweep
    <3>1. SweepIsConfined'
          BY <2>2 DEF SweepIsConfined, IdleSweep
    <3> QED
          BY <2>1, <3>1, SweepKeepsTheStore DEF QuietInv
  <2>3. CASE sweep' # IdleSweep
    <3>1. sweep'.pc = "delete" /\ sweep'.left = objects \ sweep.referenced
          BY <1>3, <2>3 DEF SweepList, SweepTypeOK, SweepStates
    <3>2. \A u \in trace_segments \ compacted : ObjectsOf(u) \subseteq sweep.referenced
          BY <2>1 DEF QuietInv, SweepIsConfined, ObjectsOf
    <3>3. SweepIsConfined'
          BY <2>1, <3>1, <3>2 DEF QuietInv, SweepIsConfined, vars, ObjectsOf
    <3> QED
          BY <2>1, <3>3, SweepKeepsTheStore DEF QuietInv
  <2> QED
        BY <2>2, <2>3
<1>4. CASE SweepDelete
  <2>1. PICK o \in sweep.left : /\ objects' = objects \ {o}
                                /\ sweep' = [sweep EXCEPT !.left = @ \ {o}]
        BY <1>4 DEF SweepDelete
  <2>2. /\ sweep.pc = "delete" /\ sweep'.pc = "delete"
        /\ sweep'.left = sweep.left \ {o}
        /\ UNCHANGED <<tables, next, job, cleaner>>
        BY <1>4, <2>1 DEF SweepDelete, SweepTypeOK, SweepStates
  <2>3. \A p \in Procs : ~Writing(p) /\ ~Writing(p)'
        BY <2>2 DEF QuietInv, SweepIsConfined
  <2>4. \A u \in trace_segments \ compacted : o \notin ObjectsOf(u)
        BY <2>1, <2>2 DEF QuietInv, SweepIsConfined
  <2>5. ObjectInv'
        BY <2>1, <2>2, <2>3, <2>4 DEF tables, QuietInv, ObjectInv, SegmentsInTheMaking,
             CleanupIsConfined, OldSegmentsExist, ReferencedObjectsExist
  <2>6. ReclaimInv'
        BY <2>1, <2>2 DEF tables, QuietInv, ReclaimInv, ReclaimedSegmentsLeaveNothing
  <2>7. SweepIsConfined'
        BY <2>1, <2>2, <2>3 DEF tables, QuietInv, SweepIsConfined
  <2> QED
        BY <2>5, <2>6, <2>7 DEF QuietInv
<1>5. CASE SweepDone \/ SweepFail
  <2>1. SweepIsConfined'
        BY <1>5 DEF SweepDone, SweepFail, SweepIsConfined, IdleSweep
  <2> QED
        BY <1>5, <2>1, SweepKeepsTheStore DEF SweepDone, SweepFail, QuietInv
<1> QED
      BY <1>1, <1>2, <1>3, <1>4, <1>5 DEF Sweep

----------------------------------------------------------------------------
(* Types, raced or not. *)

LEMMA SweepTypes ==
  ASSUME TypeOK, LookupAgreesWithListing, SweepTypeOK, SweepNext
  PROVE  TypeOK' /\ LookupAgreesWithListing' /\ SweepTypeOK'
<1>1. raced' \in BOOLEAN
      BY DEF SweepNext, SweepTypeOK
<1>2. sweep \in SweepStates /\ IdleSweep \in SweepStates
      BY DEF SweepTypeOK, SweepStates, IdleSweep
<1>3. CASE Next /\ UNCHANGED sweep
      BY <1>1, <1>3, TypeStep DEF SweepTypeOK
<1>4. ASSUME Sweep, UNCHANGED vars, sweep' \in SweepStates
      PROVE  TypeOK' /\ LookupAgreesWithListing' /\ SweepTypeOK'
      BY <1>1, <1>4, TypeStep DEF SweepTypeOK
<1> DEFINE segments == {<<u, "segment">> : u \in Referenced}
           indexes == {<<u, "index">> : u \in Referenced}
<1>5. segments \subseteq Objects /\ indexes \subseteq Objects /\ objects \subseteq Objects
      BY DEF Referenced, TypeOK, Objects
<1>6. CASE SweepLoadSegments
  <2>1. sweep' = [IdleSweep EXCEPT !.pc = "indexes", !.referenced = segments]
        BY <1>6 DEF SweepLoadSegments
  <2> HIDE DEF segments
  <2>2. sweep' \in SweepStates
        BY <1>2, <1>5, <2>1 DEF SweepStates
  <2> QED
        BY <1>4, <1>6, <2>2 DEF Sweep, SweepLoadSegments
<1>7. CASE SweepLoadIndexes
  <2>1. sweep' = [sweep EXCEPT !.pc = "list", !.referenced = sweep.referenced \cup indexes]
        BY <1>7 DEF SweepLoadIndexes
  <2> HIDE DEF indexes
  <2>2. sweep' \in SweepStates
        BY <1>2, <1>5, <2>1 DEF SweepStates
  <2> QED
        BY <1>4, <1>7, <2>2 DEF Sweep, SweepLoadIndexes
<1> HIDE DEF segments, indexes
<1>8. CASE SweepList
  <2>1. sweep' \in SweepStates
        BY <1>2, <1>5, <1>8 DEF SweepList, SweepStates
  <2> QED
        BY <1>4, <1>8, <2>1 DEF Sweep, SweepList
<1>9. CASE SweepDelete
  <2>1. objects' \subseteq objects /\ UNCHANGED <<tables, next, job, expiring, cleaner, acked>>
        BY <1>9 DEF SweepDelete
  <2>2. TypeOK' /\ LookupAgreesWithListing'
        BY <2>1 DEF tables, TypeOK, LookupAgreesWithListing
  <2>3. sweep' \in SweepStates
        BY <1>2, <1>9 DEF SweepDelete, SweepStates
  <2> QED
        BY <1>1, <2>2, <2>3 DEF SweepTypeOK
<1>10. CASE SweepDone \/ SweepFail
      BY <1>2, <1>4, <1>10 DEF Sweep, SweepDone, SweepFail
<1> QED
      BY <1>3, <1>6, <1>7, <1>8, <1>9, <1>10 DEF SweepNext, Sweep

----------------------------------------------------------------------------
(* The inductive invariant and what it is for. *)

LEMMA SweepInvariant == SweepSpec => []SweepInv
<1>1. SweepInit => SweepInv
  <2> SUFFICES ASSUME SweepInit PROVE SweepInv
      OBVIOUS
  <2>1. TypeOK /\ LookupAgreesWithListing
        BY TypeInit DEF SweepInit
  <2>2. SweepTypeOK
        BY DEF SweepInit, IdleSweep, SweepTypeOK, SweepStates
  <2>3. QuietInv
        BY ObjectInit, ReclaimInit DEF SweepInit, IdleSweep, QuietInv, SweepIsConfined
  <2> QED
        BY <2>1, <2>2, <2>3 DEF SweepInv
<1>2. SweepInv /\ [SweepNext]_allVars => SweepInv'
  <2> SUFFICES ASSUME SweepInv, [SweepNext]_allVars PROVE SweepInv'
      OBVIOUS
  <2>1. CASE SweepNext
    <3>1. TypeOK' /\ LookupAgreesWithListing' /\ SweepTypeOK'
          BY <2>1, SweepTypes DEF SweepInv
    <3>2. ASSUME ~raced' PROVE QuietInv'
      <4>1. ~raced /\ (sweep'.pc # "idle" => \A p \in Procs : ~Writing(p)')
            BY <2>1, <3>2 DEF SweepNext
      <4>2. QuietInv
            BY <4>1 DEF SweepInv
      <4>3. CASE Sweep
            BY <4>1, <4>2, <4>3, QuietSweepStep DEF SweepInv
      <4>4. CASE Next /\ UNCHANGED sweep
            BY <4>1, <4>2, <4>4, StoreStep DEF SweepInv
      <4> QED
            BY <2>1, <4>3, <4>4 DEF SweepNext
    <3> QED
          BY <3>1, <3>2 DEF SweepInv
  <2>2. CASE UNCHANGED allVars
    <3>1. UNCHANGED vars /\ UNCHANGED sweep /\ UNCHANGED raced
          BY <2>2 DEF allVars, sweepVars
    <3>2. TypeOK' /\ LookupAgreesWithListing'
          BY <3>1, TypeStep DEF SweepInv
    <3>3. SweepTypeOK'
          BY <3>1 DEF SweepInv, SweepTypeOK
    <3>4. ASSUME ~raced' PROVE QuietInv'
      <4>1. QuietInv
            BY <3>1, <3>4 DEF SweepInv
      <4>2. sweep.pc # "idle" => \A p \in Procs : ~Writing(p)'
            BY <3>1, <4>1, SweepKeepsTheStore DEF QuietInv, SweepIsConfined
      <4> QED
            BY <3>1, <4>1, <4>2, StoreStep DEF SweepInv
    <3> QED
          BY <3>2, <3>3, <3>4 DEF SweepInv
  <2> QED
        BY <2>1, <2>2
<1> QED
      BY <1>1, <1>2, PTL DEF SweepSpec

\* Sweeps are safe: any number of them, some ended by a failure, beside deletes,
\* cleanups and compactors, leave the objects of every segment that queries may
\* read, unless a task was between its first put and its commit during a sweep.
THEOREM SweepSafety == SweepSpec => []SweepSparesReferencedObjects
<1>1. SweepInv => SweepSparesReferencedObjects
      BY DEF SweepInv, QuietInv, ObjectInv, SweepSparesReferencedObjects
<1> QED
      BY <1>1, SweepInvariant, PTL

\* Sweeps are complete: when one that no task raced with ends, every object in
\* the store has a segment row, whatever failed tasks had left behind.
THEOREM SweepCompleteness == SweepSpec => SweepLeavesNoOrphans
<1> DEFINE Complete == SweepDone /\ ~raced => \A o \in objects : o[1] \in trace_segments
<1>1. SweepInv /\ [SweepNext]_allVars => [Complete]_allVars
  <2> SUFFICES ASSUME SweepInv, SweepDone, ~raced, NEW o \in objects PROVE o[1] \in trace_segments
      OBVIOUS
  <2> QED
      BY DEF SweepInv, QuietInv, SweepIsConfined, SweepDone
<1> QED
      BY <1>1, SweepInvariant, PTL DEF SweepSpec, SweepLeavesNoOrphans
============================================================================
