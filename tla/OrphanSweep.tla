---------------------------- MODULE OrphanSweep ----------------------------
(***************************************************************************)
(* cleanup_orphaned_objects beside the rest of the store.  The sweep loads *)
(* the referenced uris in two queries, lists the object store, and deletes *)
(* what was listed and not referenced.  It has no grace period, and takes  *)
(* no lock against the tasks that put objects before they commit metadata. *)
(***************************************************************************)
EXTENDS TraceStore

VARIABLES sweep,  \* pc, the uris loaded so far, and the candidates not yet deleted
          raced   \* history: a sweep ran while a task had objects not yet committed

sweepVars == <<sweep, raced>>
allVars == <<vars, sweepVars>>

IdleSweep == [pc |-> "idle", referenced |-> {}, left |-> {}]

SweepInit == Init /\ sweep = IdleSweep /\ raced = FALSE

\* Segments that load_referenced_object_uris counts.
Referenced == trace_segments \ object_deleted

SweepLoadSegments ==
  /\ sweep.pc = "idle"
  /\ sweep' = [IdleSweep EXCEPT !.pc = "indexes",
                                !.referenced = {<<u, "segment">> : u \in Referenced}]
  /\ UNCHANGED vars

\* Variant: only segment uris are loaded.
SweepLoadNoIndexes ==
  /\ sweep.pc = "indexes"
  /\ sweep' = [sweep EXCEPT !.pc = "list"]
  /\ UNCHANGED vars

SweepLoadIndexes ==
  /\ sweep.pc = "indexes"
  /\ sweep' = [sweep EXCEPT !.pc = "list",
                            !.referenced = @ \cup {<<u, "index">> : u \in Referenced}]
  /\ UNCHANGED vars

\* Variant: index objects are not looked at.
SweepListSegments ==
  /\ sweep.pc = "list"
  /\ sweep' = [sweep EXCEPT !.pc = "delete",
                            !.left = {o \in objects : o[2] = "segment"} \ sweep.referenced]
  /\ UNCHANGED vars

\* The candidates; a dry run returns them and ends here.
SweepList ==
  /\ sweep.pc = "list"
  /\ \/ sweep' = [sweep EXCEPT !.pc = "delete", !.left = objects \ sweep.referenced]
     \/ sweep' = IdleSweep
  /\ UNCHANGED vars

\* delete_if_exists of the next candidate.  They are sorted by uri, and the
\* uris are random: any one may be next.
SweepDelete ==
  /\ sweep.pc = "delete"
  /\ \E o \in sweep.left :
       /\ objects' = objects \ {o}
       /\ sweep' = [sweep EXCEPT !.left = @ \ {o}]
  /\ UNCHANGED <<tables, next, job, expiring, cleaner, acked>>

SweepDone ==
  /\ sweep.pc = "delete"
  /\ sweep.left = {}
  /\ sweep' = IdleSweep
  /\ UNCHANGED vars

SweepFail ==
  /\ sweep.pc # "idle"
  /\ sweep' = IdleSweep
  /\ UNCHANGED vars

Sweep == \/ SweepLoadSegments
         \/ SweepLoadIndexes
         \/ SweepList
         \/ SweepDelete
         \/ SweepDone
         \/ SweepFail

SweepNext ==
  /\ \/ Sweep
     \/ Next /\ UNCHANGED sweep
  /\ raced' = (raced \/ (sweep'.pc # "idle" /\ \E p \in Procs : Writing(p)'))

SweepSpec == SweepInit /\ [][SweepNext]_allVars

----------------------------------------------------------------------------
\* A sweep, even one that fails half way or runs beside deletes, retention,
\* compacted-object cleanup and a compactor that is not writing, removes no
\* object of a segment that queries may read: if no task was between its first
\* put and its commit while a sweep was running, the metadata points at
\* objects that exist.
SweepSparesReferencedObjects == ~raced => ReferencedObjectsExist

\* And it is complete: when such a sweep ends, the objects that failed or crashed
\* tasks left behind are gone, and whatever is in the store belongs to a
\* segment row.
SweepLeavesNoOrphans ==
  [][SweepDone /\ ~raced => \A o \in objects : o[1] \in trace_segments]_allVars

----------------------------------------------------------------------------
(* The inductive invariant of the behaviours in which no sweep raced. *)

SweepStates == [pc : {"idle", "indexes", "list", "delete"},
                referenced : SUBSET Objects, left : SUBSET Objects]
SweepTypeOK == sweep \in SweepStates /\ raced \in BOOLEAN

\* While it runs nobody writes.  So what it loaded covers the segments that
\* queries may read and nothing but segments, and what it found outside is no
\* object of such a segment and includes every orphan.
SweepIsConfined ==
  LET active == trace_segments \ compacted IN
  /\ sweep.pc # "idle" => \A p \in Procs : ~Writing(p)
  /\ sweep.pc \in {"indexes", "list"} =>
       /\ \A u \in active : <<u, "segment">> \in sweep.referenced
       /\ \A o \in sweep.referenced : o[1] \in trace_segments
  /\ sweep.pc = "list" => \A u \in active : <<u, "index">> \in sweep.referenced
  /\ sweep.pc = "delete" =>
       /\ \A u \in active : sweep.left \cap ObjectsOf(u) = {}
       /\ \A o \in objects : o \in sweep.left \/ o[1] \in trace_segments

QuietInv == ObjectInv /\ ReclaimInv /\ SweepIsConfined

SweepInv == /\ TypeOK
            /\ LookupAgreesWithListing
            /\ SweepTypeOK
            /\ ~raced => QuietInv
============================================================================
