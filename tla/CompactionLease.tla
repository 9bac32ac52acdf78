-------------------------- MODULE CompactionLease --------------------------
(***************************************************************************)
(* The compaction service: passes over the projects with several active    *)
(* segments in a bucket, each project compacted under a lease, a row of    *)
(* compaction_leases.  The compaction itself is TraceStore's.              *)
(*                                                                         *)
(* Time is relative: a lease row holds the time left until it expires, and *)
(* a service the time since it read the clock.                             *)
(***************************************************************************)
EXTENDS Integers

CONSTANTS Services,       \* compaction service processes, each with its holder_id
          Projects,       \* numbers, so that project_name order is theirs
          Steady,         \* the services that never fail
          LeaseDuration,  \* CompactionServiceConfig::lease_duration
          MaxLag,         \* bound: from reading the clock to the acquire statement
          MaxRestarts,    \* bound: restarts of failed services
          NoLease

ASSUME ConstantsAssumption ==
  /\ Projects \subseteq Nat
  /\ Steady \subseteq Services
  /\ LeaseDuration \in Nat \ {0}
  /\ MaxLag \in Nat
  /\ MaxRestarts \in Nat

\* left is lease_expires_at_unix_nano minus the time; a lease that expired more
\* than MaxLag ago looks the same to everybody.
TimesLeft == (0 - MaxLag) .. LeaseDuration
Lease == [holder : Services, left : TimesLeft]

ASSUME NoLeaseAssumption == NoLease \notin Lease

VARIABLES backlog,   \* projects that list_compaction_projects would return
          leases,    \* compaction_leases by project_name
          service,   \* pc, projects to go, time since the clock was read, and the
                     \* time left of the lease that the service thinks it holds
          restarts

vars == <<backlog, leases, service, restarts>>

IdleService == [pc |-> "idle", todo |-> {}, age |-> 0, left |-> 0]

\* The project in hand: the first one to go.
Current(s, p) == p \in service[s].todo /\ \A q \in service[s].todo : p =< q

Compacting(s, p) == service[s].pc \in {"compact", "release"} /\ Current(s, p)

Init == /\ backlog = {}
        /\ leases = [p \in Projects |-> NoLease]
        /\ service = [s \in Services |-> IdleService]
        /\ restarts = 0

----------------------------------------------------------------------------
\* Ingest adds a second segment to a bucket of the project.
SegmentsArrive(p) ==
  /\ backlog' = backlog \cup {p}
  /\ UNCHANGED <<leases, service, restarts>>

\* A pass begins: list_compaction_projects.
ListProjects(s) ==
  /\ service[s].pc = "idle"
  /\ backlog # {}
  /\ service' = [service EXCEPT ![s] = [IdleService EXCEPT !.pc = "clock", !.todo = backlog]]
  /\ UNCHANGED <<backlog, leases, restarts>>

\* current_time_unix_nano, before the connection and the transaction.
ReadClock(s) ==
  /\ service[s].pc = "clock"
  /\ service[s].todo # {}
  /\ service' = [service EXCEPT ![s] = [@ EXCEPT !.pc = "acquire", !.age = 0]]
  /\ UNCHANGED <<backlog, leases, restarts>>

PassDone(s) ==
  /\ service[s].pc = "clock"
  /\ service[s].todo = {}
  /\ service' = [service EXCEPT ![s] = IdleService]
  /\ UNCHANGED <<backlog, leases, restarts>>

\* Variant: expired leases are not cleared.
ClearedIfOwn(s, p) == leases[p] # NoLease => leases[p].holder = s

\* The DELETE of try_acquire_compaction_lease: expired at the time read, or ours.
Cleared(s, p) ==
  leases[p] # NoLease =>
    leases[p].left + service[s].age =< 0 \/ leases[p].holder = s

\* Variant: a holder that comes back adds to what its old lease has left.
LeaseExtended(s, p) ==
  LET own == leases[p] # NoLease /\ leases[p].holder = s
  IN  LeaseDuration - service[s].age + (IF own /\ leases[p].left > 0 THEN leases[p].left ELSE 0)

\* lease_expires_at counts from the clock read before the transaction, whatever lease
\* is there.
LeaseLeft(s, p) == LeaseDuration - service[s].age

\* The whole transaction; a lease that is not cleared makes the INSERT do nothing.
TryAcquireCompactionLease(s, p) ==
  /\ service[s].pc = "acquire"
  /\ Current(s, p)
  /\ \/ /\ Cleared(s, p)
        /\ LET left == LeaseLeft(s, p) IN
           /\ leases' = [leases EXCEPT ![p] = [holder |-> s, left |-> left]]
           /\ service' = [service EXCEPT ![s] = [@ EXCEPT !.pc = "compact", !.left = left]]
     \/ /\ ~Cleared(s, p)
        /\ service' = [service EXCEPT ![s] = [@ EXCEPT !.pc = "clock",
                                                 !.todo = service[s].todo \ {p}]]
        /\ UNCHANGED leases
  /\ UNCHANGED <<backlog, restarts>>

\* compact_project.  A bucket with more rows than a segment holds stays listed.
CompactProject(s, p) ==
  /\ service[s].pc = "compact"
  /\ Current(s, p)
  /\ backlog' \in {backlog, backlog \ {p}}
  /\ service' = [service EXCEPT ![s] = [@ EXCEPT !.pc = "release"]]
  /\ UNCHANGED <<leases, restarts>>

\* Variant: whoever's lease it is is deleted.
ReleaseAnyLease(s, p) ==
  /\ service[s].pc = "release"
  /\ Current(s, p)
  /\ leases' = [leases EXCEPT ![p] = NoLease]
  /\ service' = [service EXCEPT ![s] = [@ EXCEPT !.pc = "clock",
                                                 !.todo = service[s].todo \ {p}]]
  /\ UNCHANGED <<backlog, restarts>>

\* The row is deleted only if it is still this holder's.
ReleaseCompactionLease(s, p) ==
  /\ service[s].pc = "release"
  /\ Current(s, p)
  /\ leases' = IF leases[p] # NoLease /\ leases[p].holder = s
               THEN [leases EXCEPT ![p] = NoLease] ELSE leases
  /\ service' = [service EXCEPT ![s] = [@ EXCEPT !.pc = "clock",
                                                 !.todo = service[s].todo \ {p}]]
  /\ UNCHANGED <<backlog, restarts>>

\* An error ends the service loop, whatever step it comes from; so does a
\* shutdown between passes.  A lease stays behind.
Stop(s) ==
  /\ service[s].pc # "stopped"
  /\ service' = [service EXCEPT ![s] = [IdleService EXCEPT !.pc = "stopped"]]
  /\ UNCHANGED <<backlog, leases, restarts>>

\* The process is started again, with the holder_id of its configuration.
Restart(s) ==
  /\ service[s].pc = "stopped"
  /\ restarts < MaxRestarts
  /\ restarts' = restarts + 1
  /\ service' = [service EXCEPT ![s] = IdleService]
  /\ UNCHANGED <<backlog, leases>>

\* Time passes.
Later(left) == IF left > 0 - MaxLag THEN left - 1 ELSE left

Tick ==
  /\ \A s \in Services : service[s].pc = "acquire" => service[s].age < MaxLag
  /\ leases' = [p \in Projects |-> IF leases[p] = NoLease THEN NoLease
                                   ELSE [leases[p] EXCEPT !.left = Later(@)]]
  /\ service' = [s \in Services |->
                   [service[s] EXCEPT !.age = IF service[s].pc = "acquire" THEN @ + 1 ELSE @,
                                      !.left = Later(@)]]
  /\ UNCHANGED <<backlog, restarts>>

----------------------------------------------------------------------------
Serve(s) == \/ ListProjects(s)
            \/ ReadClock(s)
            \/ PassDone(s)
            \/ \E p \in Projects : \/ TryAcquireCompactionLease(s, p)
                                   \/ CompactProject(s, p)
                                   \/ ReleaseCompactionLease(s, p)

Next == \/ \E p \in Projects : SegmentsArrive(p)
        \/ \E s \in Services : Serve(s)
        \/ \E s \in Services \ Steady : Stop(s) \/ Restart(s)
        \/ Tick

Spec == Init /\ [][Next]_vars

\* Tasks are scheduled, calls answer and time passes.  Only the services in
\* Steady are promised to stay up.
FairSpec == Spec /\ WF_vars(Tick) /\ \A s \in Services : WF_vars(Serve(s))

----------------------------------------------------------------------------
(* Properties. *)

Ages == 0 .. MaxLag
Service == [pc : {"idle", "clock", "acquire", "compact", "release", "stopped"},
            todo : SUBSET Projects, age : Ages, left : TimesLeft]

\* The state has its types: in particular no lease, taken anew or over by a restarted
\* holder, runs longer than LeaseDuration.
TypeOK ==
  /\ backlog \subseteq Projects
  /\ leases \in [Projects -> Lease \cup {NoLease}]
  /\ service \in [Services -> Service]
  /\ restarts \in 0 .. MaxRestarts

\* What the leases promise: two services compact a project at the same time only
\* if the lease of one of them has run out under it.  The release of a service
\* that lost its lease, stale clock readings and restarts do not break this.
LiveLeaseIsExclusive ==
  \A s, t \in Services, p \in Projects :
    s # t /\ Compacting(s, p) /\ Compacting(t, p) => service[s].left =< 0 \/ service[t].left =< 0

\* A lease left behind by a failed service blocks nobody for ever: while one
\* service stays up, a project with a backlog is taken up again.
BacklogIsTakenUp ==
  \A p \in Projects :
    p \in backlog ~> (p \notin backlog \/ \E s \in Services : Compacting(s, p))

----------------------------------------------------------------------------
\* The inductive invariant behind LiveLeaseIsExclusive: a lease that has not run
\* out under its holder is the row in the table, with the same time left.
LiveLeaseIsRecorded ==
  \A s \in Services, p \in Projects :
    Compacting(s, p) /\ service[s].left > 0 =>
      /\ leases[p] # NoLease
      /\ leases[p].holder = s
      /\ leases[p].left = service[s].left
============================================================================
