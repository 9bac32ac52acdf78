----------------------- MODULE CompactionLeaseProofs -----------------------
(***************************************************************************)
(* Compaction leases exclude one another while they last, for any number   *)
(* of services and projects, any lease duration, and any clock lag.        *)
(***************************************************************************)
EXTENDS CompactionLease, TLAPS

\* A project in hand is one project: the first.
LEMMA CurrentIsUnique ==
  ASSUME TypeOK, NEW s \in Services, NEW p \in Projects, NEW q \in Projects,
         Current(s, p), Current(s, q)
  PROVE  p = q
BY ConstantsAssumption DEF Current

LEMMA TypeStep == TypeOK /\ [Next]_vars => TypeOK'
<1> SUFFICES ASSUME TypeOK, [Next]_vars PROVE TypeOK'
    OBVIOUS
<1> USE ConstantsAssumption
<1> USE DEF Service
<1>0. 0 \in Ages /\ 0 \in TimesLeft
      BY DEF Ages, TimesLeft
<1>1. IdleService \in Service
      BY <1>0 DEF IdleService
<1>2. ASSUME NEW p \in Projects, SegmentsArrive(p) PROVE TypeOK'
      BY <1>2 DEF SegmentsArrive, TypeOK
<1>3. ASSUME NEW s \in Services, ListProjects(s) PROVE TypeOK'
  <2>1. [IdleService EXCEPT !.pc = "clock", !.todo = backlog] \in Service
        BY <1>0 DEF TypeOK, IdleService
  <2> QED
        BY <1>3, <2>1 DEF ListProjects, TypeOK
<1>4. ASSUME NEW s \in Services, ReadClock(s) PROVE TypeOK'
  <2>1. service[s] \in Service
        BY DEF TypeOK
  <2>2. service' \in [Services -> Service]
        BY <1>0, <1>4, <2>1 DEF ReadClock, TypeOK
  <2> QED
        BY <1>4, <2>2 DEF ReadClock, TypeOK
<1>5. ASSUME NEW s \in Services, PassDone(s) PROVE TypeOK'
      BY <1>1, <1>5 DEF PassDone, TypeOK
<1>6. ASSUME NEW s \in Services, NEW p \in Projects, TryAcquireCompactionLease(s, p)
      PROVE  TypeOK'
  <2> DEFINE left == LeaseLeft(s, p)
  <2>1. service[s] \in Service /\ left \in TimesLeft
        BY DEF TypeOK, Ages, TimesLeft, LeaseLeft
  <2> HIDE DEF left
  <2>2. CASE Cleared(s, p)
    <3>1. /\ service' = [service EXCEPT ![s] = [@ EXCEPT !.pc = "compact", !.left = left]]
          /\ leases' = [leases EXCEPT ![p] = [holder |-> s, left |-> left]]
          BY <1>6, <2>2 DEF TryAcquireCompactionLease, left
    <3>2. service' \in [Services -> Service]
          BY <2>1, <3>1 DEF TypeOK
    <3>3. leases' \in [Projects -> Lease \cup {NoLease}]
          BY <2>1, <3>1 DEF TypeOK, Lease
    <3> QED
          BY <1>6, <3>2, <3>3 DEF TryAcquireCompactionLease, TypeOK
  <2>3. CASE ~Cleared(s, p)
    <3>1. /\ service' = [service EXCEPT ![s] = [@ EXCEPT !.pc = "clock",
                                                         !.todo = service[s].todo \ {p}]]
          /\ UNCHANGED leases
          BY <1>6, <2>3 DEF TryAcquireCompactionLease
    <3>2. service' \in [Services -> Service]
          BY <2>1, <3>1 DEF TypeOK
    <3> QED
          BY <1>6, <3>1, <3>2 DEF TryAcquireCompactionLease, TypeOK
  <2> QED
        BY <2>2, <2>3
<1>7. ASSUME NEW s \in Services, NEW p \in Projects, CompactProject(s, p) PROVE TypeOK'
  <2>1. service[s] \in Service
        BY DEF TypeOK
  <2>2. service' \in [Services -> Service]
        BY <1>7, <2>1 DEF CompactProject, TypeOK
  <2> QED
        BY <1>7, <2>2 DEF CompactProject, TypeOK
<1>8. ASSUME NEW s \in Services, NEW p \in Projects, ReleaseCompactionLease(s, p)
      PROVE  TypeOK'
  <2>1. service[s] \in Service
        BY DEF TypeOK
  <2>2. service' \in [Services -> Service]
        BY <1>8, <2>1 DEF ReleaseCompactionLease, TypeOK
  <2> QED
        BY <1>8, <2>2 DEF ReleaseCompactionLease, TypeOK
<1>9. ASSUME NEW s \in Services, Stop(s) PROVE TypeOK'
  <2>1. [IdleService EXCEPT !.pc = "stopped"] \in Service
        BY <1>0 DEF IdleService
  <2> QED
        BY <1>9, <2>1 DEF Stop, TypeOK
<1>10. ASSUME NEW s \in Services, Restart(s) PROVE TypeOK'
      BY <1>1, <1>10 DEF Restart, TypeOK
<1>11. CASE Tick
  <2>1. \A l \in TimesLeft : Later(l) \in TimesLeft
        BY DEF Later, TimesLeft
  <2>2. \A p \in Projects : leases'[p] \in Lease \cup {NoLease}
        BY <1>11, <2>1 DEF Tick, TypeOK, Lease
  <2>3. \A s \in Services : service'[s] \in Service
    <3> SUFFICES ASSUME NEW s \in Services PROVE service'[s] \in Service
        OBVIOUS
    <3>1. service[s] \in Service /\ (service[s].pc = "acquire" => service[s].age < MaxLag)
          BY <1>11 DEF Tick, TypeOK
    <3>2. service'[s] = [service[s] EXCEPT
                           !.age = IF service[s].pc = "acquire" THEN @ + 1 ELSE @,
                           !.left = Later(@)]
          BY <1>11 DEF Tick
    <3>3. (IF service[s].pc = "acquire" THEN service[s].age + 1 ELSE service[s].age) \in Ages
          BY <3>1 DEF Ages
    <3> QED
          BY <2>1, <3>1, <3>2, <3>3
  <2> QED
        BY <1>11, <2>2, <2>3 DEF Tick, TypeOK
<1>12. CASE UNCHANGED vars
      BY <1>12 DEF vars, TypeOK
<1> QED
      BY <1>2, <1>3, <1>4, <1>5, <1>6, <1>7, <1>8, <1>9, <1>10, <1>11, <1>12 DEF Next, Serve

\* A step of service s alone that makes no service compact anew.
LEMMA RecordedQuietly ==
  ASSUME TypeOK, LiveLeaseIsRecorded, NEW s \in Services, UNCHANGED leases,
         \A t \in Services : t # s => service'[t] = service[t],
         \/ service'[s].pc \notin {"compact", "release"}
         \/ /\ service[s].pc \in {"compact", "release"}
            /\ service'[s].todo = service[s].todo
            /\ service'[s].left = service[s].left
  PROVE  LiveLeaseIsRecorded'
<1> SUFFICES ASSUME NEW t \in Services, NEW p \in Projects,
                    Compacting(t, p)', service'[t].left > 0
             PROVE  /\ leases[p] # NoLease
                    /\ leases[p].holder = t
                    /\ leases[p].left = service'[t].left
    BY DEF LiveLeaseIsRecorded
<1>1. Compacting(t, p) /\ service[t].left = service'[t].left
      BY DEF Compacting, Current
<1> QED
      BY <1>1 DEF LiveLeaseIsRecorded

LEMMA RecordedAcquire ==
  ASSUME TypeOK, LiveLeaseIsRecorded, NEW s \in Services, NEW p \in Projects,
         TryAcquireCompactionLease(s, p)
  PROVE  LiveLeaseIsRecorded'
<1> USE ConstantsAssumption
<1>1. /\ service[s].pc = "acquire" /\ Current(s, p)
      /\ \A t \in Services : t # s => service'[t] = service[t]
      BY DEF TryAcquireCompactionLease, TypeOK
<1> SUFFICES ASSUME NEW t \in Services, NEW q \in Projects,
                    Compacting(t, q)', service'[t].left > 0
             PROVE  /\ leases'[q] # NoLease
                    /\ leases'[q].holder = t
                    /\ leases'[q].left = service'[t].left
    BY DEF LiveLeaseIsRecorded
<1>2. CASE ~Cleared(s, p)
  <2>0. /\ service' = [service EXCEPT ![s] = [@ EXCEPT !.pc = "clock",
                                                       !.todo = service[s].todo \ {p}]]
        /\ UNCHANGED leases
        BY <1>2 DEF TryAcquireCompactionLease
  <2>1. service'[s].pc = "clock" /\ UNCHANGED leases
        BY <2>0 DEF TypeOK, Service
  <2>2. t # s
        BY <2>1 DEF Compacting
  <2> QED
        BY <1>1, <2>1, <2>2 DEF LiveLeaseIsRecorded, Compacting, Current
<1>3. CASE Cleared(s, p)
  <2> DEFINE left == LeaseLeft(s, p)
  <2>1. /\ leases' = [leases EXCEPT ![p] = [holder |-> s, left |-> left]]
        /\ service' = [service EXCEPT ![s] = [@ EXCEPT !.pc = "compact", !.left = left]]
        BY <1>3 DEF TryAcquireCompactionLease
  <2>2. /\ leases'[p] = [holder |-> s, left |-> left]
        /\ \A o \in Projects : o # p => leases'[o] = leases[o]
        /\ service'[s].left = left /\ service'[s].todo = service[s].todo
        BY <2>1 DEF TypeOK
  <2>3. CASE t = s
    <3>1. Current(s, q)
          BY <2>2, <2>3 DEF Compacting, Current
    <3>2. q = p
          BY <1>1, <3>1, CurrentIsUnique
    <3>3. leases'[p] # NoLease
      <4>1. left \in TimesLeft
            BY DEF TypeOK, Service, Ages, TimesLeft, LeaseLeft
      <4> HIDE DEF left
      <4> QED
            BY <2>2, <4>1, NoLeaseAssumption DEF Lease
    <3> QED
          BY <2>2, <2>3, <3>2, <3>3
  <2>4. CASE t # s
    <3>1. Compacting(t, q) /\ service[t].left > 0 /\ service'[t].left = service[t].left
          BY <1>1, <2>4 DEF Compacting, Current
    <3>2. /\ leases[q] # NoLease /\ leases[q].holder = t
          /\ leases[q].left = service[t].left
          BY <3>1 DEF LiveLeaseIsRecorded
    <3>3. q # p
      <4>1. service[s].age \in Nat /\ service[t].left \in Int
            BY DEF TypeOK, Service, Ages, TimesLeft
      <4> QED
            BY <1>3, <2>4, <3>1, <3>2, <4>1 DEF Cleared
    <3> QED
          BY <2>2, <3>1, <3>2, <3>3
  <2> QED
        BY <2>3, <2>4
<1> QED
      BY <1>2, <1>3

LEMMA RecordedRelease ==
  ASSUME TypeOK, LiveLeaseIsRecorded, NEW s \in Services, NEW p \in Projects,
         ReleaseCompactionLease(s, p)
  PROVE  LiveLeaseIsRecorded'
<1> SUFFICES ASSUME NEW t \in Services, NEW q \in Projects,
                    Compacting(t, q)', service'[t].left > 0
             PROVE  /\ leases'[q] # NoLease
                    /\ leases'[q].holder = t
                    /\ leases'[q].left = service'[t].left
    BY DEF LiveLeaseIsRecorded
<1>1. service'[s].pc = "clock" /\ \A o \in Services : o # s => service'[o] = service[o]
      BY DEF ReleaseCompactionLease, TypeOK
<1>2. t # s /\ Compacting(t, q) /\ service[t].left > 0
      BY <1>1 DEF Compacting, Current
<1>3. leases[q] # NoLease /\ leases[q].holder = t /\ leases[q].left = service[t].left
      BY <1>2 DEF LiveLeaseIsRecorded
<1>4. leases'[q] = leases[q]
      BY <1>2, <1>3 DEF ReleaseCompactionLease, TypeOK
<1> QED
      BY <1>1, <1>2, <1>3, <1>4

LEMMA RecordedTick ==
  ASSUME TypeOK, LiveLeaseIsRecorded, Tick
  PROVE  LiveLeaseIsRecorded'
<1> USE ConstantsAssumption
<1> SUFFICES ASSUME NEW s \in Services, NEW p \in Projects,
                    Compacting(s, p)', service'[s].left > 0
             PROVE  /\ leases'[p] # NoLease
                    /\ leases'[p].holder = s
                    /\ leases'[p].left = service'[s].left
    BY DEF LiveLeaseIsRecorded
<1>0. service[s] \in Service /\ service[s].left \in Int
      BY DEF TypeOK, Service, TimesLeft
<1>1. /\ service'[s].pc = service[s].pc /\ service'[s].todo = service[s].todo
      /\ service'[s].left = Later(service[s].left)
      BY <1>0 DEF Tick, Service
<1>2. Compacting(s, p) /\ service[s].left > 0
      BY <1>0, <1>1 DEF Compacting, Current, Later
<1>3. leases[p] # NoLease /\ leases[p].holder = s /\ leases[p].left = service[s].left
      BY <1>2 DEF LiveLeaseIsRecorded
<1>4. leases[p] \in Lease /\ leases'[p] = [leases[p] EXCEPT !.left = Later(@)]
      BY <1>3 DEF Tick, TypeOK
<1>5. leases'[p].holder = s /\ leases'[p].left = service'[s].left
      BY <1>1, <1>3, <1>4 DEF Lease
<1>6. leases'[p] \in Lease
  <2>1. \A l \in TimesLeft : Later(l) \in TimesLeft
        BY DEF Later, TimesLeft
  <2> QED
        BY <1>4, <2>1 DEF Lease
<1> QED
      BY <1>5, <1>6, NoLeaseAssumption

\* The leases, the services and their clocks keep their types.
THEOREM TypeSafety == Spec => []TypeOK
<1>1. Init => TypeOK
      BY ConstantsAssumption DEF Init, TypeOK, Service, Ages, TimesLeft, IdleService
<1> QED
      BY <1>1, TypeStep, PTL DEF Spec

\* Two services compact a project at the same time only if the lease of one of
\* them has run out.
THEOREM LeaseSafety == Spec => []LiveLeaseIsExclusive
<1>1. Init => LiveLeaseIsRecorded
      BY DEF Init, LiveLeaseIsRecorded, Compacting, IdleService
<1>2. TypeOK /\ LiveLeaseIsRecorded /\ [Next]_vars => LiveLeaseIsRecorded'
  <2> SUFFICES ASSUME TypeOK, LiveLeaseIsRecorded, [Next]_vars PROVE LiveLeaseIsRecorded'
      OBVIOUS
  <2>1. ASSUME NEW p \in Projects, SegmentsArrive(p) PROVE LiveLeaseIsRecorded'
        BY <2>1 DEF SegmentsArrive, LiveLeaseIsRecorded, Compacting, Current
  <2>2. ASSUME NEW s \in Services, ListProjects(s) PROVE LiveLeaseIsRecorded'
    <3>1. service'[s].pc = "clock" /\ \A t \in Services : t # s => service'[t] = service[t]
          BY <2>2 DEF ListProjects, TypeOK, IdleService
    <3> QED
          BY <2>2, <3>1, RecordedQuietly DEF ListProjects
  <2>3. ASSUME NEW s \in Services, ReadClock(s) PROVE LiveLeaseIsRecorded'
    <3>1. service'[s].pc = "acquire" /\ \A t \in Services : t # s => service'[t] = service[t]
          BY <2>3 DEF ReadClock, TypeOK
    <3> QED
          BY <2>3, <3>1, RecordedQuietly DEF ReadClock
  <2>4. ASSUME NEW s \in Services, PassDone(s) PROVE LiveLeaseIsRecorded'
    <3>1. service'[s].pc = "idle" /\ \A t \in Services : t # s => service'[t] = service[t]
          BY <2>4 DEF PassDone, TypeOK, IdleService
    <3> QED
          BY <2>4, <3>1, RecordedQuietly DEF PassDone
  <2>5. ASSUME NEW s \in Services, NEW p \in Projects, CompactProject(s, p)
        PROVE  LiveLeaseIsRecorded'
    <3>1. /\ \A t \in Services : t # s => service'[t] = service[t]
          /\ service[s].pc = "compact" /\ service'[s].pc = "release"
          /\ service'[s].todo = service[s].todo /\ service'[s].left = service[s].left
          BY <2>5 DEF CompactProject, TypeOK
    <3> QED
          BY <2>5, <3>1, RecordedQuietly DEF CompactProject
  <2>6. ASSUME NEW s \in Services, Stop(s) PROVE LiveLeaseIsRecorded'
    <3>1. service'[s].pc = "stopped" /\ \A t \in Services : t # s => service'[t] = service[t]
          BY <2>6 DEF Stop, TypeOK, IdleService
    <3> QED
          BY <2>6, <3>1, RecordedQuietly DEF Stop
  <2>7. ASSUME NEW s \in Services, Restart(s) PROVE LiveLeaseIsRecorded'
    <3>1. service'[s].pc = "idle" /\ \A t \in Services : t # s => service'[t] = service[t]
          BY <2>7 DEF Restart, TypeOK, IdleService
    <3> QED
          BY <2>7, <3>1, RecordedQuietly DEF Restart
  <2>8. CASE UNCHANGED vars
        BY <2>8 DEF vars, LiveLeaseIsRecorded, Compacting, Current
  <2> QED
        BY <2>1, <2>2, <2>3, <2>4, <2>5, <2>6, <2>7, <2>8,
           RecordedAcquire, RecordedRelease, RecordedTick DEF Next, Serve
<1>3. TypeOK /\ LiveLeaseIsRecorded => LiveLeaseIsExclusive
      BY DEF LiveLeaseIsRecorded, LiveLeaseIsExclusive, TypeOK, Service, TimesLeft
<1> QED
      BY <1>1, <1>2, <1>3, TypeSafety, PTL DEF Spec
============================================================================
