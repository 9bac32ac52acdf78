------------------------- MODULE IngestBufferProofs -------------------------
(***************************************************************************)
(* Proofs about IngestBuffer, for any partitions, calls, payloads and      *)
(* segment sizes: an Ok answer means durable records, whoever flushed      *)
(* them; no buffered record is forgotten unless its handler is dropped     *)
(* with it; and records become durable in the order in which they came.    *)
(***************************************************************************)
EXTENDS IngestBuffer, SequenceTheorems, FiniteSetTheorems, TLAPS

(* The records that the duplicate filter keeps. *)

\* Selecting the positions K of s gives their elements in their order.
LEMMA SelectedIsOrdered ==
  ASSUME NEW S, NEW s \in Seq(S), NEW K \in SUBSET DOMAIN s
  PROVE  /\ Selected(s, K) \in Seq(S)
         /\ \E m \in [DOMAIN Selected(s, K) -> K] :
              /\ \A n \in DOMAIN Selected(s, K) : Selected(s, K)[n] = s[m[n]]
              /\ \A n, k \in DOMAIN Selected(s, K) : n < k => m[n] < m[k]
              /\ \A i \in K : \E n \in DOMAIN Selected(s, K) : m[n] = i
<1> DEFINE UpTo(i) == {j \in K : j =< i}
           rank == [i \in K |-> Rank(i, K)]
<1>1. K \subseteq 1..Len(s) /\ Len(s) \in Nat
      BY LenProperties
<1>2. IsFiniteSet(K) /\ Cardinality(K) \in Nat
  <2>1. IsFiniteSet(1..Len(s))
        BY <1>1, FS_Interval
  <2> QED
        BY <1>1, <2>1, FS_Subset, FS_CardinalityType
<1>3. \A i \in K : /\ IsFiniteSet(UpTo(i)) /\ Cardinality(UpTo(i)) \in Nat
                   /\ Cardinality(UpTo(i)) =< Cardinality(K)
      BY <1>2, FS_Subset, FS_CardinalityType
<1>4. \A i \in K : Cardinality(UpTo(i)) # 0
  <2> SUFFICES ASSUME NEW i \in K PROVE Cardinality(UpTo(i)) # 0
      OBVIOUS
  <2>1. i \in UpTo(i)
        BY <1>1
  <2> QED
        BY <1>3, <2>1, FS_EmptySet
<1>5. ASSUME NEW i \in K, NEW j \in K, i < j
      PROVE  Cardinality(UpTo(i)) < Cardinality(UpTo(j))
  <2>1. UpTo(i) \in SUBSET UpTo(j) /\ UpTo(i) # UpTo(j)
        BY <1>1, <1>5
  <2>2. IsFiniteSet(UpTo(j)) /\ Cardinality(UpTo(i)) \in Nat /\ Cardinality(UpTo(j)) \in Nat
        BY <1>3
  <2> HIDE DEF UpTo
  <2>3. /\ Cardinality(UpTo(i)) =< Cardinality(UpTo(j))
        /\ Cardinality(UpTo(i)) # Cardinality(UpTo(j))
        BY <2>1, <2>2, FS_Subset
  <2> QED
        BY <2>2, <2>3
<1>6. \A i \in K : Rank(i, K) = Cardinality(UpTo(i)) /\ Rank(i, K) \in 1..Cardinality(K)
  <2>1. \A i \in K : Rank(i, K) = Cardinality(UpTo(i))
        BY DEF Rank
  <2> HIDE DEF UpTo
  <2> QED
        BY <1>2, <1>3, <1>4, <2>1
<1> HIDE DEF UpTo
<1>7. \A i, j \in K : i < j => Rank(i, K) < Rank(j, K)
      BY <1>5, <1>6
<1>8. rank \in Injection(K, 1..Cardinality(K))
  <2>1. rank \in [K -> 1..Cardinality(K)]
        BY <1>6
  <2>2. \A i, j \in K : rank[i] = rank[j] => i = j
    <3> SUFFICES ASSUME NEW i \in K, NEW j \in K, i # j PROVE rank[i] # rank[j]
        OBVIOUS
    <3>1. i < j \/ j < i
          BY <1>1
    <3> QED
          BY <1>2, <1>6, <1>7, <3>1
  <2> QED
        BY <2>1, <2>2 DEF Injection, IsInjective
<1>9. rank \in Surjection(K, 1..Cardinality(K))
  <2>1. IsFiniteSet(1..Cardinality(K)) /\ Cardinality(1..Cardinality(K)) = Cardinality(K)
        BY <1>2, FS_Interval
  <2> QED
        BY <1>2, <1>8, <2>1, FS_Injection
<1>10. \A n \in 1..Cardinality(K) : \E i \in K : Rank(i, K) = n
      BY <1>9 DEF Surjection
<1> DEFINE m == [n \in 1..Cardinality(K) |-> CHOOSE i \in K : Rank(i, K) = n]
<1>11. \A n \in 1..Cardinality(K) : m[n] \in K /\ Rank(m[n], K) = n
      BY <1>10
<1>12. /\ DOMAIN Selected(s, K) = 1..Cardinality(K)
       /\ \A n \in 1..Cardinality(K) : Selected(s, K)[n] = s[m[n]]
      BY DEF Selected
<1> HIDE DEF m, rank
<1>13. \A n \in 1..Cardinality(K) : s[m[n]] \in S
      BY <1>1, <1>11, ElementOfSeq
<1>14. Selected(s, K) \in Seq(S)
  <2>1. Selected(s, K) = [n \in 1..Cardinality(K) |-> Selected(s, K)[n]]
        BY DEF Selected
  <2>2. Selected(s, K) \in [1..Cardinality(K) -> S]
        BY <1>12, <1>13, <2>1
  <2> QED
        BY <1>2, <2>2, SeqDef
<1>15. m \in [DOMAIN Selected(s, K) -> K]
      BY <1>11, <1>12 DEF m
<1>16. \A n, k \in DOMAIN Selected(s, K) : n < k => m[n] < m[k]
  <2> SUFFICES ASSUME NEW n \in 1..Cardinality(K), NEW k \in 1..Cardinality(K), n < k,
                      ~(m[n] < m[k])
               PROVE  FALSE
      BY <1>12
  <2>1. m[n] \in 1..Len(s) /\ m[k] \in 1..Len(s)
        BY <1>1, <1>11
  <2>2. m[k] < m[n] \/ m[k] = m[n]
        BY <1>1, <2>1
  <2> QED
        BY <1>2, <1>7, <1>11, <2>2
<1>17. ASSUME NEW i \in K PROVE \E n \in DOMAIN Selected(s, K) : m[n] = i
  <2>1. Rank(i, K) \in 1..Cardinality(K) /\ m[Rank(i, K)] \in K /\ Rank(m[Rank(i, K)], K) = Rank(i, K)
        BY <1>6, <1>11
  <2>2. m[Rank(i, K)] = i
    <3>1. i \in Nat /\ m[Rank(i, K)] \in Nat
          BY <1>1, <2>1
    <3> QED
          BY <1>2, <1>6, <1>7, <2>1, <3>1
  <2> QED
        BY <1>12, <2>1, <2>2
<1> QED
      BY <1>12, <1>14, <1>15, <1>16, <1>17

\* What the filter leaves of a batch: the records that are not durable, in order.
LEMMA FreshProperties ==
  ASSUME TypeOK, NEW f \in Flushers
  PROVE  LET s == batch[f].records
             t == Fresh(f)
             d == DurableKeys(batch[f].part)
         IN /\ t \in Seq(Row)
            /\ \A n \in DOMAIN t : t[n].key \notin d
            /\ \A n \in DOMAIN t : \E i \in DOMAIN s : t[n] = s[i]
            /\ \A n, k \in DOMAIN t : n < k =>
                 \E i, j \in DOMAIN s : i < j /\ t[n] = s[i] /\ t[k] = s[j]
            /\ \A i \in DOMAIN s : s[i].key \notin d => \E n \in DOMAIN t : t[n] = s[i]
<1> DEFINE s == batch[f].records
           t == Fresh(f)
           d == DurableKeys(batch[f].part)
           K == New(s, d)
<1>1. s \in Seq(Row)
      BY DEF TypeOK, Batch
<1>2. K \in SUBSET DOMAIN s /\ \A i \in DOMAIN s : i \in K <=> s[i].key \notin d
      BY DEF New
<1>3. t = Selected(s, K)
      BY DEF Fresh
<1> HIDE DEF s, t, d, K
<1>4. PICK m \in [DOMAIN t -> K] :
              /\ \A n \in DOMAIN t : t[n] = s[m[n]]
              /\ \A n, k \in DOMAIN t : n < k => m[n] < m[k]
              /\ \A i \in K : \E n \in DOMAIN t : m[n] = i
      BY <1>1, <1>2, <1>3, SelectedIsOrdered
<1>5. t \in Seq(Row)
      BY <1>1, <1>2, <1>3, SelectedIsOrdered
<1>6. \A n \in DOMAIN t : m[n] \in K /\ m[n] \in DOMAIN s
      BY <1>2, <1>4
<1>7. \A n \in DOMAIN t : t[n].key \notin d
      BY <1>2, <1>4, <1>6
<1>8. \A n, k \in DOMAIN t : n < k =>
         \E i, j \in DOMAIN s : i < j /\ t[n] = s[i] /\ t[k] = s[j]
      BY <1>4, <1>6
<1>9. \A i \in DOMAIN s : s[i].key \notin d => \E n \in DOMAIN t : t[n] = s[i]
      BY <1>2, <1>4
<1>10. \A n \in DOMAIN t : \E i \in DOMAIN s : t[n] = s[i]
      BY <1>4, <1>6
<1> QED
      BY <1>5, <1>7, <1>8, <1>9, <1>10 DEF s, t, d

\* A segment takes the first rows, the others are left.
LEMMA ChunkProperties ==
  ASSUME NEW s \in Seq(Row)
  PROVE  /\ ChunkLen(s) \in 0..Len(s)
         /\ Chunk(s) \in Seq(Row) /\ DOMAIN Chunk(s) = 1..ChunkLen(s)
         /\ \A i \in 1..ChunkLen(s) : Chunk(s)[i] = s[i]
         /\ AfterChunk(s) \in Seq(Row) /\ DOMAIN AfterChunk(s) = 1..(Len(s) - ChunkLen(s))
         /\ \A i \in 1..(Len(s) - ChunkLen(s)) : AfterChunk(s)[i] = s[ChunkLen(s) + i]
<1> DEFINE n == ChunkLen(s)
<1>1. Len(s) \in Nat /\ \A i \in 1..Len(s) : s[i] \in Row
      BY LenProperties, ElementOfSeq
<1>2. n \in 0..Len(s)
      BY <1>1, ConstantsAssumption DEF ChunkLen
<1> HIDE DEF n
<1>3. /\ SubSeq(s, 1, n) \in Seq(Row) /\ Len(SubSeq(s, 1, n)) = n
      /\ \A i \in 1..n : SubSeq(s, 1, n)[i] = s[i]
  <2>1. /\ SubSeq(s, 1, n) \in Seq(Row)
        /\ Len(SubSeq(s, 1, n)) = IF 1 =< n THEN n - 1 + 1 ELSE 0
        /\ \A i \in 1..(n - 1 + 1) : SubSeq(s, 1, n)[i] = s[1 + i - 1]
    <3>1. 1 \in Int /\ n \in Int /\ \A i \in 1..n : s[i] \in Row
          BY <1>1, <1>2
    <3> QED
          BY <3>1, SubSeqProperties
  <2>2. n - 1 + 1 = n /\ \A i \in 1..n : 1 + i - 1 = i
        BY <1>2
  <2> QED
        BY <1>2, <2>1, <2>2
<1>4. /\ SubSeq(s, n + 1, Len(s)) \in Seq(Row)
      /\ Len(SubSeq(s, n + 1, Len(s))) = Len(s) - n
      /\ \A i \in 1..(Len(s) - n) : SubSeq(s, n + 1, Len(s))[i] = s[n + i]
  <2> DEFINE m == n + 1
  <2>1. m \in Int /\ Len(s) \in Int /\ \A i \in m..Len(s) : s[i] \in Row
        BY <1>1, <1>2
  <2>2. m = n + 1
        OBVIOUS
  <2> HIDE DEF m
  <2>3. /\ SubSeq(s, m, Len(s)) \in Seq(Row)
        /\ Len(SubSeq(s, m, Len(s))) = IF m =< Len(s) THEN Len(s) - m + 1 ELSE 0
        /\ \A i \in 1..(Len(s) - m + 1) : SubSeq(s, m, Len(s))[i] = s[m + i - 1]
        BY <2>1, SubSeqProperties
  <2>4. Len(s) - m + 1 = Len(s) - n
        BY <1>1, <1>2, <2>2
  <2>5. \A i \in 1..(Len(s) - n) : m + i - 1 = n + i
        BY <1>1, <1>2, <2>2
  <2>6. \A i \in 1..(Len(s) - n) : SubSeq(s, m, Len(s))[i] = s[n + i]
        BY <2>3, <2>4, <2>5
  <2>7. Len(SubSeq(s, m, Len(s))) = Len(s) - n
        BY <1>1, <1>2, <2>2, <2>3
  <2> QED
        BY <2>2, <2>3, <2>6, <2>7
<1>5. \A t \in Seq(Row) : DOMAIN t = 1..Len(t)
      BY LenProperties
<1> QED
      BY <1>2, <1>3, <1>4, <1>5 DEF n, Chunk, AfterChunk

----------------------------------------------------------------------------
(* What each step does, and that it keeps the types. *)

LEMMA RowsInType ==
  ASSUME NEW c \in Calls, NEW p \in Partitions
  PROVE  /\ RowsIn(c, p) \in Seq(Row)
         /\ DOMAIN RowsIn(c, p) = DOMAIN Payload[c][p]
         /\ \A i \in DOMAIN Payload[c][p] : RowsIn(c, p)[i].key = Payload[c][p][i]
         /\ p \notin Parts(c) => RowsIn(c, p) = <<>>
<1>1. Payload[c][p] \in Seq(Keys)
      BY ConstantsAssumption
<1>2. /\ Len(Payload[c][p]) \in Nat /\ DOMAIN Payload[c][p] = 1..Len(Payload[c][p])
      /\ \A i \in DOMAIN Payload[c][p] : Payload[c][p][i] \in Keys
      BY <1>1, LenProperties, ElementOfSeq
<1>3. RowsIn(c, p) \in [1..Len(Payload[c][p]) -> Row]
      BY <1>2 DEF RowsIn, Row
<1>4. RowsIn(c, p) \in Seq(Row)
      BY <1>2, <1>3, SeqDef
<1>5. p \notin Parts(c) => RowsIn(c, p) = <<>>
  <2>1. p \notin Parts(c) => Len(Payload[c][p]) = 0
        BY <1>1 DEF Parts
  <2>2. Len(RowsIn(c, p)) = Len(Payload[c][p])
        BY <1>2, <1>3, <1>4, LenProperties
  <2> QED
        BY <1>4, <2>1, <2>2, EmptySeq
<1> QED
      BY <1>2, <1>4, <1>5 DEF RowsIn

\* Buffering appends the call's records in every partition.
LEMMA IngestStep ==
  ASSUME TypeOK, NEW c \in Calls, IngestRecords(c)
  PROVE  /\ TypeOK'
         /\ pc[c] = "idle" /\ pc[Shutdown] = "idle" /\ pc'[c] \in {"flush", "select"}
         /\ \A g \in Flushers : g # c => pc'[g] = pc[g]
         /\ \A p \in Partitions :
              /\ buffers'[p].records = buffers[p].records \o RowsIn(c, p)
              /\ arrived'[p] = arrived[p] \o RowsIn(c, p)
              /\ buffers'[p].flushing = buffers[p].flushing
              /\ buffers'[p].waiters \subseteq buffers[p].waiters \cup {c}
         /\ UNCHANGED <<batch, inbox, log>>
<1> DEFINE filled(p) == buffers[p].records \o RowsIn(c, p)
           now == \E p \in Parts(c) : ZeroDelay \/ Len(filled(p)) >= MaxSpansPerSegment
           more(p) == [buffers[p] EXCEPT !.records = filled(p), !.waiters = buffers[p].waiters \cup {c}]
<1>1. /\ pc[c] = "idle" /\ pc[Shutdown] = "idle"
      /\ buffers' = [p \in Partitions |-> IF p \in Parts(c) THEN more(p) ELSE buffers[p]]
      /\ pc' = [pc EXCEPT ![c] = IF now THEN "flush" ELSE "select"]
      /\ again' = [again EXCEPT ![c] = now]
      /\ arrived' = [p \in Partitions |-> arrived[p] \o RowsIn(c, p)]
      /\ UNCHANGED <<batch, inbox, log>>
      BY DEF IngestRecords
<1>2. c \in Flushers /\ pc \in [Flushers -> Phases]
      BY DEF Flushers, TypeOK
<1>3. ASSUME NEW p \in Partitions
      PROVE  /\ buffers[p] \in Buffer /\ filled(p) \in Seq(Row)
             /\ p \notin Parts(c) => filled(p) = buffers[p].records
             /\ arrived[p] \o RowsIn(c, p) \in Seq(Row)
  <2>1. buffers[p] \in Buffer /\ buffers[p].records \in Seq(Row) /\ arrived[p] \in Seq(Row)
        BY DEF TypeOK, Buffer
  <2> QED
        BY <2>1, RowsInType, ConcatProperties, ConcatEmptySeq
<1> HIDE DEF filled, now
<1>4. ASSUME NEW p \in Partitions
      PROVE  /\ more(p) \in Buffer
             /\ more(p).records = filled(p) /\ more(p).flushing = buffers[p].flushing
             /\ more(p).waiters = buffers[p].waiters \cup {c}
      BY <1>3 DEF Buffer
<1> HIDE DEF more
<1>5. /\ buffers' \in [Partitions -> Buffer]
      /\ \A p \in Partitions :
              /\ buffers'[p].records = filled(p)
              /\ buffers'[p].flushing = buffers[p].flushing
              /\ buffers'[p].waiters \subseteq buffers[p].waiters \cup {c}
      BY <1>1, <1>3, <1>4
<1>6. arrived' \in [Partitions -> Seq(Row)] /\ \A p \in Partitions : arrived'[p] = arrived[p] \o RowsIn(c, p)
      BY <1>1, <1>3
<1>7. /\ pc' \in [Flushers -> Phases] /\ pc'[c] \in {"flush", "select"}
      /\ \A g \in Flushers : g # c => pc'[g] = pc[g]
      BY <1>1, <1>2 DEF Phases
<1>8. again' \in [Flushers -> BOOLEAN]
  <2>1. now \in BOOLEAN
        BY DEF now
  <2> QED
        BY <1>1, <2>1 DEF TypeOK
<1> QED
      BY <1>1, <1>5, <1>6, <1>7, <1>8 DEF TypeOK, filled

\* The steps that only move a call that holds no batch.
Moves(f) ==
  /\ pc[f] \in {"idle", "select", "flush", "receive"}
  /\ pc'[f] \in {"flush", "notified", "receive", "ok", "err"}
  /\ \A g \in Flushers : g # f => pc'[g] = pc[g]
  /\ f \in Calls =>
       /\ pc[f] # "idle"
       /\ pc'[f] = "ok" => \A p \in Parts(f) : inbox[f][p] = "ok"
  /\ f = Shutdown =>
       /\ pc[f] = "idle" => \A c \in Calls : pc[c] \in Returned \cup {"idle"}
       /\ pc'[f] = "ok" =>
            \A p \in Partitions : ~buffers[p].flushing /\ buffers[p].records = <<>>
  /\ UNCHANGED <<buffers, batch, inbox, log, arrived>>

LEMMA MoveStep ==
  ASSUME TypeOK, NEW f \in Flushers,
         \/ f \in Calls /\ Await(f)
         \/ FlushWait(f) \/ FlushReturn(f)
         \/ f = Shutdown /\ FlushPendingIngest
  PROVE  TypeOK' /\ Moves(f)
<1>1. pc \in [Flushers -> Phases] /\ again \in [Flushers -> BOOLEAN]
      BY DEF TypeOK
<1>2. /\ pc[f] \in {"idle", "select", "flush", "receive"}
      /\ UNCHANGED <<buffers, batch, inbox, log, arrived>>
      /\ \E x \in {"flush", "notified", "receive", "ok", "err"} : pc' = [pc EXCEPT ![f] = x]
      BY DEF Await, Return, DelayElapsed, FlushWait, FlushReturn, FlushPendingIngest
<1>3. again' \in [Flushers -> BOOLEAN]
      BY <1>1 DEF Await, Return, DelayElapsed, FlushWait, FlushReturn, FlushPendingIngest
<1>4. pc' \in [Flushers -> Phases]
      BY <1>1, <1>2 DEF Phases, Returned
<1>5. f \in Calls => /\ pc[f] # "idle" /\ f # Shutdown
                     /\ pc'[f] = "ok" => \A p \in Parts(f) : inbox[f][p] = "ok"
  <2> SUFFICES ASSUME f \in Calls
               PROVE  /\ pc[f] # "idle" /\ f # Shutdown
                      /\ pc'[f] = "ok" => \A p \in Parts(f) : inbox[f][p] = "ok"
      OBVIOUS
  <2>1. f # Shutdown /\ (Await(f) \/ FlushWait(f) \/ FlushReturn(f))
        BY ConstantsAssumption
  <2> QED
        BY <1>1, <2>1 DEF Await, Return, Answered, DelayElapsed, FlushWait, FlushReturn
<1>6. f = Shutdown =>
       /\ pc[f] = "idle" => \A c \in Calls : pc[c] \in Returned \cup {"idle"}
       /\ pc'[f] = "ok" =>
            \A p \in Partitions : ~buffers[p].flushing /\ buffers[p].records = <<>>
  <2> SUFFICES ASSUME f = Shutdown
               PROVE  /\ pc[f] = "idle" => \A c \in Calls : pc[c] \in Returned \cup {"idle"}
                      /\ pc'[f] = "ok" => \A p \in Partitions :
                                            ~buffers[p].flushing /\ buffers[p].records = <<>>
      OBVIOUS
  <2>1. CASE FlushWait(f)
        BY <1>1, <2>1 DEF FlushWait
  <2>2. CASE FlushReturn(f)
        BY <1>1, <2>2 DEF FlushReturn, Flushable
  <2>3. CASE FlushPendingIngest
        BY <1>1, <2>3 DEF FlushPendingIngest
  <2>4. FlushWait(f) \/ FlushReturn(f) \/ FlushPendingIngest
        BY ConstantsAssumption
  <2> QED
        BY <2>1, <2>2, <2>3, <2>4
<1>7. TypeOK'
      BY <1>2, <1>3, <1>4 DEF TypeOK
<1>8. /\ pc'[f] \in {"flush", "notified", "receive", "ok", "err"}
      /\ \A g \in Flushers : g # f => pc'[g] = pc[g]
      BY <1>1, <1>2
<1> QED
      BY <1>2, <1>5, <1>6, <1>7, <1>8 DEF Moves

\* Taking a batch empties and marks its partition.
LEMMA TakeStep ==
  ASSUME TypeOK, NEW f \in Flushers, FlushTake(f)
  PROVE  /\ TypeOK'
         /\ pc[f] = "flush" /\ pc'[f] = "persist"
         /\ \A g \in Flushers : g # f => pc'[g] = pc[g] /\ batch'[g] = batch[g]
         /\ \E p \in Partitions :
              /\ ~buffers[p].flushing
              /\ batch'[f].part = p /\ batch'[f].records = buffers[p].records
              /\ batch'[f].waiters = buffers[p].waiters
              /\ buffers'[p] = [records |-> <<>>, waiters |-> {}, flushing |-> TRUE]
              /\ \A q \in Partitions : q # p => buffers'[q] = buffers[q]
         /\ UNCHANGED <<inbox, log, arrived>>
<1>1. PICK p \in Partitions :
        /\ ~buffers[p].flushing
        /\ batch' = [batch EXCEPT ![f] = [part |-> p, records |-> buffers[p].records,
                                          waiters |-> buffers[p].waiters]]
        /\ buffers' = [buffers EXCEPT ![p] = [records |-> <<>>, waiters |-> {},
                                              flushing |-> TRUE]]
      BY DEF FlushTake, Flushable
<1>2. /\ pc[f] = "flush" /\ pc' = [pc EXCEPT ![f] = "persist"]
      /\ UNCHANGED <<again, inbox, log, arrived>>
      BY DEF FlushTake
<1>3. /\ buffers \in [Partitions -> Buffer] /\ batch \in [Flushers -> Batch]
      /\ pc \in [Flushers -> Phases]
      BY DEF TypeOK
<1>4. p \in Nat /\ buffers[p].records \in Seq(Row) /\ buffers[p].waiters \in SUBSET Calls
      BY <1>3, ConstantsAssumption DEF Buffer
<1>5. [part |-> p, records |-> buffers[p].records, waiters |-> buffers[p].waiters] \in Batch
      BY <1>4 DEF Batch
<1>6. [records |-> <<>>, waiters |-> {}, flushing |-> TRUE] \in Buffer
      BY EmptySeq DEF Buffer
<1>7. batch' \in [Flushers -> Batch] /\ buffers' \in [Partitions -> Buffer]
      BY <1>1, <1>3, <1>5, <1>6
<1>8. /\ pc' \in [Flushers -> Phases] /\ pc'[f] = "persist"
      /\ \A g \in Flushers : g # f => pc'[g] = pc[g]
      BY <1>2, <1>3 DEF Phases
<1>9. TypeOK'
      BY <1>2, <1>7, <1>8 DEF TypeOK
<1> QED
      BY <1>1, <1>2, <1>3, <1>8, <1>9

\* A batch is left with these records, in whichever phase.
LEMMA BatchRecords ==
  ASSUME TypeOK, NEW f \in Flushers, NEW s \in Seq(Row),
         batch' = [batch EXCEPT ![f].records = s]
  PROVE  /\ batch' \in [Flushers -> Batch]
         /\ batch'[f].part = batch[f].part /\ batch'[f].waiters = batch[f].waiters
         /\ batch'[f].records = s
         /\ \A g \in Flushers : g # f => batch'[g] = batch[g]
<1>1. batch \in [Flushers -> Batch] /\ batch[f] \in Batch
      BY DEF TypeOK
<1> QED
      BY <1>1 DEF Batch

\* persist_partition_records, its attempt to commit a chunk included: what is
\* committed, and what is left of the batch.
LEMMA PersistStep ==
  ASSUME TypeOK, HoldersInv, NEW f \in Flushers, PersistChunk(f) \/ PersistFail(f)
  PROVE  LET p == batch[f].part
             t == Fresh(f) IN
         /\ TypeOK'
         /\ pc[f] = "persist" /\ pc'[f] \in {"persist", "persisted", "failed"}
         /\ \A g \in Flushers : g # f => pc'[g] = pc[g] /\ batch'[g] = batch[g]
         /\ batch'[f].part = p /\ batch'[f].waiters = batch[f].waiters
         /\ \A q \in Partitions : q # p => log'[q] = log[q]
         /\ \/ /\ pc'[f] = "persisted" /\ log'[p] = log[p]
               /\ t = <<>> /\ batch'[f].records = <<>>
            \/ /\ pc'[f] # "persisted" /\ log'[p] = log[p] \o Chunk(t)
               /\ batch'[f].records \in {AfterChunk(t), batch[f].records}
            \/ /\ pc'[f] # "persisted" /\ log'[p] = log[p]
               /\ batch'[f].records \in {t, batch[f].records}
         /\ UNCHANGED <<buffers, inbox, arrived>>
<1> DEFINE p == batch[f].part
           t == Fresh(f)
           s == batch[f].records
<1>1. pc[f] = "persist" /\ UNCHANGED <<buffers, again, inbox, arrived>>
      BY DEF PersistChunk, PersistFail
<1>2. /\ pc \in [Flushers -> Phases] /\ log \in [Partitions -> Seq(Row)]
      /\ batch \in [Flushers -> Batch] /\ s \in Seq(Row)
      BY DEF TypeOK, Batch
<1>3. p \in Partitions
      BY <1>1 DEF HoldersInv, Holding
<1>4. /\ t \in Seq(Row) /\ Chunk(t) \in Seq(Row) /\ AfterChunk(t) \in Seq(Row)
      /\ <<>> \in Seq(Row) /\ log[p] \in Seq(Row) /\ log[p] \o Chunk(t) \in Seq(Row)
  <2>1. t \in Seq(Row)
        BY FreshProperties
  <2>2. Chunk(t) \in Seq(Row) /\ AfterChunk(t) \in Seq(Row)
        BY <2>1, ChunkProperties
  <2>3. log[p] \in Seq(Row)
        BY <1>2, <1>3
  <2> QED
        BY <2>1, <2>2, <2>3, EmptySeq, ConcatProperties
<1>5. /\ pc' \in [Flushers -> Phases] /\ pc'[f] \in {"persist", "persisted", "failed"}
      /\ \A g \in Flushers : g # f => pc'[g] = pc[g]
      BY <1>1, <1>2 DEF PersistChunk, PersistFail, Phases
<1>6. \/ /\ pc'[f] = "persisted" /\ log' = log
         /\ t = <<>> /\ batch' = [batch EXCEPT ![f].records = <<>>]
      \/ /\ pc'[f] # "persisted" /\ log' = [log EXCEPT ![p] = log[p] \o Chunk(t)]
         /\ \/ batch' = [batch EXCEPT ![f].records = AfterChunk(t)]
            \/ batch' = batch
      \/ /\ pc'[f] # "persisted" /\ log' = log
         /\ \/ batch' = [batch EXCEPT ![f].records = t]
            \/ batch' = batch
  <2>1. CASE PersistFail(f)
        BY <1>2, <2>1 DEF PersistFail
  <2>2. CASE PersistChunk(f)
        BY <1>1, <1>2, <2>2 DEF PersistChunk
  <2> QED
        BY <2>1, <2>2
<1>7. /\ batch' \in [Flushers -> Batch]
      /\ \A g \in Flushers : g # f => batch'[g] = batch[g]
      /\ batch'[f].part = p /\ batch'[f].waiters = batch[f].waiters
      BY <1>2, <1>4, <1>6, BatchRecords
<1>8. /\ log' \in [Partitions -> Seq(Row)]
      /\ \A q \in Partitions : q # p => log'[q] = log[q]
      BY <1>2, <1>3, <1>4, <1>6
<1>9. TypeOK'
      BY <1>1, <1>5, <1>7, <1>8 DEF TypeOK
<1>10. \/ /\ pc'[f] = "persisted" /\ log'[p] = log[p]
          /\ t = <<>> /\ batch'[f].records = <<>>
       \/ /\ pc'[f] # "persisted" /\ log'[p] = log[p] \o Chunk(t)
          /\ batch'[f].records \in {AfterChunk(t), s}
       \/ /\ pc'[f] # "persisted" /\ log'[p] = log[p]
          /\ batch'[f].records \in {t, s}
      BY <1>2, <1>3, <1>4, <1>6, BatchRecords
<1> QED
      BY <1>1, <1>5, <1>7, <1>8, <1>9, <1>10

\* The Ok arm only clears the mark.
LEMMA OkStep ==
  ASSUME TypeOK, HoldersInv, NEW f \in Flushers, FlushOk(f)
  PROVE  LET p == batch[f].part IN
         /\ TypeOK'
         /\ pc[f] = "persisted" /\ pc'[f] = "wake_ok"
         /\ \A g \in Flushers : g # f => pc'[g] = pc[g]
         /\ buffers'[p].records = buffers[p].records /\ buffers'[p].waiters = buffers[p].waiters
         /\ ~buffers'[p].flushing
         /\ \A q \in Partitions : q # p => buffers'[q] = buffers[q]
         /\ UNCHANGED <<batch, inbox, log, arrived>>
<1> DEFINE p == batch[f].part
           b == [buffers[p] EXCEPT !.flushing = FALSE]
<1>1. /\ pc[f] = "persisted" /\ pc' = [pc EXCEPT ![f] = "wake_ok"]
      /\ buffers' = [buffers EXCEPT ![p] = b]
      /\ UNCHANGED <<again, batch, inbox, log, arrived>>
      BY DEF FlushOk
<1>2. pc \in [Flushers -> Phases] /\ buffers \in [Partitions -> Buffer]
      BY DEF TypeOK
<1>3. p \in Partitions
      BY <1>1 DEF HoldersInv, Holding
<1>4. /\ b \in Buffer /\ b.records = buffers[p].records /\ b.waiters = buffers[p].waiters
      /\ b.flushing = FALSE
      BY <1>2, <1>3 DEF Buffer
<1> HIDE DEF b, p
<1>5. /\ buffers' \in [Partitions -> Buffer] /\ buffers'[p] = b
      /\ \A q \in Partitions : q # p => buffers'[q] = buffers[q]
      BY <1>1, <1>2, <1>3, <1>4
<1>6. /\ pc' \in [Flushers -> Phases] /\ pc'[f] = "wake_ok"
      /\ \A g \in Flushers : g # f => pc'[g] = pc[g]
      BY <1>1, <1>2 DEF Phases
<1>7. TypeOK'
      BY <1>1, <1>5, <1>6 DEF TypeOK
<1> QED
      BY <1>1, <1>4, <1>5, <1>6, <1>7 DEF p

\* The Err arm puts the rows back in front, and takes over the waiters.
LEMMA ErrStep ==
  ASSUME TypeOK, HoldersInv, NEW f \in Flushers, FlushErr(f)
  PROVE  LET p == batch[f].part IN
         /\ TypeOK'
         /\ pc[f] = "failed" /\ pc'[f] = "wake_err"
         /\ \A g \in Flushers : g # f => pc'[g] = pc[g] /\ batch'[g] = batch[g]
         /\ batch'[f].part = p /\ batch'[f].records = <<>>
         /\ buffers'[p] = [records |-> batch[f].records \o buffers[p].records,
                           waiters |-> {}, flushing |-> FALSE]
         /\ \A q \in Partitions : q # p => buffers'[q] = buffers[q]
         /\ UNCHANGED <<inbox, log, arrived>>
<1> DEFINE p == batch[f].part
           b == [records |-> batch[f].records \o buffers[p].records,
                 waiters |-> {}, flushing |-> FALSE]
           x == [batch[f] EXCEPT !.records = <<>>,
                                 !.waiters = batch[f].waiters \cup buffers[p].waiters]
<1>1. pc \in [Flushers -> Phases] /\ buffers \in [Partitions -> Buffer] /\ batch \in [Flushers -> Batch]
      BY DEF TypeOK
<1>2. /\ pc[f] = "failed" /\ pc' = [pc EXCEPT ![f] = "wake_err"]
      /\ buffers' = [buffers EXCEPT ![p] = b]
      /\ UNCHANGED <<again, inbox, log, arrived>>
      BY DEF FlushErr
<1>3. p \in Partitions /\ p \in Nat
      BY <1>2, ConstantsAssumption DEF HoldersInv, Holding
<1>4. /\ batch[f].records \in Seq(Row) /\ buffers[p].records \in Seq(Row)
      /\ batch[f].waiters \subseteq Calls /\ buffers[p].waiters \subseteq Calls
      BY <1>1, <1>3 DEF Batch, Buffer
<1>5. b \in Buffer
      BY <1>4, ConcatProperties DEF Buffer
<1>6. x \in Batch /\ x.part = p /\ x.records = <<>>
  <2>1. batch[f] \in Batch
        BY <1>1
  <2> QED
        BY <1>4, <2>1, EmptySeq DEF Batch
<1>7. batch' = [batch EXCEPT ![f] = x]
      BY <1>1 DEF FlushErr
<1> HIDE DEF b, p, x
<1>8. batch' \in [Flushers -> Batch] /\ batch'[f] = x /\ \A g \in Flushers : g # f => batch'[g] = batch[g]
      BY <1>1, <1>6, <1>7
<1>9. /\ buffers' \in [Partitions -> Buffer] /\ buffers'[p] = b
      /\ \A q \in Partitions : q # p => buffers'[q] = buffers[q]
      BY <1>1, <1>2, <1>3, <1>5
<1>10. /\ pc' \in [Flushers -> Phases] /\ pc'[f] = "wake_err"
       /\ \A g \in Flushers : g # f => pc'[g] = pc[g]
      BY <1>1, <1>2 DEF Phases
<1>11. TypeOK'
      BY <1>2, <1>8, <1>9, <1>10 DEF TypeOK
<1> QED
      BY <1>2, <1>6, <1>8, <1>9, <1>10, <1>11 DEF p, b

LEMMA NoBatchType == NoBatch \in Batch
BY EmptySeq DEF NoBatch, Batch

\* The waiters of a batch hear the result, and the batch is gone.
LEMMA AnswerInbox ==
  ASSUME TypeOK, NEW f \in Flushers, NEW result \in {"ok", "err"},
         inbox' = [c \in Calls |->
                     IF c \in batch[f].waiters
                     THEN [inbox[c] EXCEPT ![batch[f].part] = result] ELSE inbox[c]],
         batch' = [batch EXCEPT ![f] = NoBatch]
  PROVE  /\ inbox' \in [Calls -> [Partitions -> Answers]]
         /\ \A c \in Calls : \A p \in Partitions : inbox'[c][p] = "ok" =>
              \/ inbox[c][p] = "ok"
              \/ result = "ok" /\ c \in batch[f].waiters /\ p = batch[f].part
         /\ batch' \in [Flushers -> Batch]
         /\ batch'[f] = NoBatch /\ \A g \in Flushers : g # f => batch'[g] = batch[g]
<1>1. inbox \in [Calls -> [Partitions -> Answers]] /\ batch \in [Flushers -> Batch]
      BY DEF TypeOK
<1>2. \A c \in Calls : inbox'[c] \in [Partitions -> Answers]
      BY <1>1 DEF Answers
<1>3. inbox' \in [Calls -> [Partitions -> Answers]]
      BY <1>2
<1>4. \A c \in Calls : \A p \in Partitions : inbox'[c][p] = "ok" =>
              \/ inbox[c][p] = "ok"
              \/ result = "ok" /\ c \in batch[f].waiters /\ p = batch[f].part
      BY <1>1
<1> QED
      BY <1>1, <1>3, <1>4, NoBatchType

LEMMA WakeStep ==
  ASSUME TypeOK, NEW f \in Flushers, Wake(f)
  PROVE  /\ TypeOK'
         /\ Waking(f) /\ pc'[f] \in {"flush", "err"}
         /\ \A g \in Flushers : g # f =>
              /\ batch'[g] = batch[g]
              /\ pc'[g] = pc[g] \/ (pc[g] = "notified" /\ pc'[g] = "flush")
         /\ batch'[f] = NoBatch
         /\ \A c \in Calls : \A p \in Partitions : inbox'[c][p] = "ok" =>
              \/ inbox[c][p] = "ok"
              \/ pc[f] = "wake_ok" /\ c \in batch[f].waiters /\ p = batch[f].part
         /\ UNCHANGED <<buffers, log, arrived>>
<1> DEFINE result == IF pc[f] = "wake_ok" THEN "ok" ELSE "err"
<1>1. /\ Waking(f) /\ UNCHANGED <<buffers, again, log, arrived>>
      /\ inbox' = [c \in Calls |->
                     IF c \in batch[f].waiters
                     THEN [inbox[c] EXCEPT ![batch[f].part] = result] ELSE inbox[c]]
      /\ batch' = [batch EXCEPT ![f] = NoBatch]
      /\ pc' = [g \in Flushers |->
                 IF g = f THEN IF result = "ok" THEN "flush" ELSE "err"
                 ELSE IF pc[g] = "notified" THEN "flush" ELSE pc[g]]
      BY DEF Wake, Waking
<1>2. result \in {"ok", "err"} /\ (result = "ok" => pc[f] = "wake_ok")
      OBVIOUS
<1> HIDE DEF result
<1>3. /\ pc' \in [Flushers -> Phases] /\ pc'[f] \in {"flush", "err"}
      /\ \A g \in Flushers : g # f => pc'[g] = pc[g] \/ (pc[g] = "notified" /\ pc'[g] = "flush")
      BY <1>1 DEF TypeOK, Phases, Returned
<1>4. /\ inbox' \in [Calls -> [Partitions -> Answers]] /\ batch' \in [Flushers -> Batch]
      /\ batch'[f] = NoBatch /\ \A g \in Flushers : g # f => batch'[g] = batch[g]
      /\ \A c \in Calls : \A p \in Partitions : inbox'[c][p] = "ok" =>
              \/ inbox[c][p] = "ok"
              \/ result = "ok" /\ c \in batch[f].waiters /\ p = batch[f].part
      BY <1>1, <1>2, AnswerInbox
<1>5. TypeOK'
      BY <1>1, <1>3, <1>4 DEF TypeOK
<1> QED
      BY <1>1, <1>2, <1>3, <1>4, <1>5

\* A handler that is dropped leaves the mark of its batch behind.
LEMMA DisconnectStep ==
  ASSUME TypeOK, NEW c \in Calls, Disconnect(c)
  PROVE  /\ TypeOK'
         /\ pc'[c] = "gone" /\ \A g \in Flushers : g # c => pc'[g] = pc[g] /\ batch'[g] = batch[g]
         /\ pc[c] \notin Returned \cup {"idle"}
         /\ batch'[c] = NoBatch
         /\ \A d \in Calls : \A p \in Partitions : inbox'[d][p] = "ok" => inbox[d][p] = "ok"
         /\ UNCHANGED <<buffers, log, arrived>>
<1>1. c \in Flushers
      BY DEF Flushers
<1>2. /\ UNCHANGED <<buffers, again, log, arrived>>
      /\ inbox' = [d \in Calls |->
                     IF d \in batch[c].waiters
                     THEN [inbox[d] EXCEPT ![batch[c].part] = "err"] ELSE inbox[d]]
      /\ batch' = [batch EXCEPT ![c] = NoBatch]
      /\ pc' = [pc EXCEPT ![c] = "gone"]
      /\ pc[c] \notin Returned \cup {"idle"}
      BY DEF Disconnect, Returned
<1>3. /\ inbox' \in [Calls -> [Partitions -> Answers]] /\ batch' \in [Flushers -> Batch]
      /\ batch'[c] = NoBatch /\ \A g \in Flushers : g # c => batch'[g] = batch[g]
      /\ \A d \in Calls : \A p \in Partitions : inbox'[d][p] = "ok" => inbox[d][p] = "ok"
      BY <1>1, <1>2, AnswerInbox
<1>4. pc' \in [Flushers -> Phases] /\ pc'[c] = "gone" /\ \A g \in Flushers : g # c => pc'[g] = pc[g]
      BY <1>1, <1>2 DEF TypeOK, Phases, Returned
<1>5. TypeOK'
      BY <1>2, <1>3, <1>4 DEF TypeOK
<1> QED
      BY <1>2, <1>3, <1>4, <1>5

----------------------------------------------------------------------------
(* Who holds a batch. *)

LEMMA NextCases ==
  ASSUME TypeOK, [Next]_vars
  PROVE  \/ \E c \in Calls : IngestRecords(c)
         \/ \E f \in Flushers : TypeOK' /\ Moves(f)
         \/ \E f \in Flushers : FlushTake(f)
         \/ \E f \in Flushers : PersistChunk(f) \/ PersistFail(f)
         \/ \E f \in Flushers : FlushOk(f)
         \/ \E f \in Flushers : FlushErr(f)
         \/ \E f \in Flushers : Wake(f)
         \/ \E c \in Calls : Disconnect(c)
         \/ UNCHANGED vars
<1>1. CASE \E c \in Calls : IngestRecords(c) \/ Await(c)
      BY <1>1, MoveStep DEF Flushers
<1>2. CASE \E f \in Flushers : Flush(f) \/ PersistFail(f)
      BY <1>2, MoveStep DEF Flush
<1>3. CASE \E c \in Disconnects : Disconnect(c)
      BY <1>3, ConstantsAssumption
<1>4. CASE FlushPendingIngest
      BY <1>4, MoveStep DEF Flushers
<1>5. CASE Exited \/ UNCHANGED vars
      BY <1>5 DEF Exited
<1> QED
      BY <1>1, <1>2, <1>3, <1>4, <1>5 DEF Next

LEMMA HoldersStep ==
  ASSUME TypeOK, HoldersInv, [Next]_vars
  PROVE  TypeOK' /\ HoldersInv'
<1>1. ASSUME NEW c \in Calls, IngestRecords(c) PROVE TypeOK' /\ HoldersInv'
  <2>1. /\ TypeOK' /\ pc[c] = "idle" /\ pc'[c] \in {"flush", "select"} /\ batch' = batch
        /\ \A g \in Flushers : g # c => pc'[g] = pc[g]
        /\ \A p \in Partitions : buffers'[p].flushing = buffers[p].flushing
        BY <1>1, IngestStep
  <2> QED
        BY <2>1 DEF HoldersInv, Holding, Waking, Flushers
<1>2. ASSUME NEW f \in Flushers, TypeOK', Moves(f) PROVE TypeOK' /\ HoldersInv'
      BY <1>2 DEF HoldersInv, Holding, Waking, Moves
<1>3. ASSUME NEW f \in Flushers, FlushTake(f) PROVE TypeOK' /\ HoldersInv'
  <2>1. /\ TypeOK' /\ pc[f] = "flush" /\ pc'[f] = "persist"
        /\ \A g \in Flushers : g # f => pc'[g] = pc[g] /\ batch'[g] = batch[g]
        BY <1>3, TakeStep
  <2>2. PICK p \in Partitions :
              /\ ~buffers[p].flushing /\ batch'[f].part = p
              /\ buffers'[p] = [records |-> <<>>, waiters |-> {}, flushing |-> TRUE]
              /\ \A q \in Partitions : q # p => buffers'[q] = buffers[q]
        BY <1>3, TakeStep
  <2>3. buffers'[p].flushing
        BY <2>2
  <2>4. \A g \in Flushers : Holding(g) => batch[g].part # p
        BY <2>2 DEF HoldersInv
  <2> QED
        BY <2>1, <2>2, <2>3, <2>4 DEF HoldersInv, Holding, Waking
<1>4. ASSUME NEW f \in Flushers, PersistChunk(f) \/ PersistFail(f)
      PROVE  TypeOK' /\ HoldersInv'
  <2>1. /\ TypeOK' /\ pc[f] = "persist" /\ pc'[f] \in {"persist", "persisted", "failed"}
        /\ \A g \in Flushers : g # f => pc'[g] = pc[g] /\ batch'[g] = batch[g]
        /\ batch'[f].part = batch[f].part
        /\ pc'[f] = "persisted" => batch'[f].records = <<>>
        /\ buffers' = buffers
        BY <1>4, PersistStep
  <2> QED
        BY <2>1 DEF HoldersInv, Holding, Waking
<1>5. ASSUME NEW f \in Flushers, FlushOk(f) PROVE TypeOK' /\ HoldersInv'
  <2>1. /\ TypeOK' /\ pc[f] = "persisted" /\ pc'[f] = "wake_ok" /\ batch' = batch
        /\ \A g \in Flushers : g # f => pc'[g] = pc[g]
        /\ \A q \in Partitions : q # batch[f].part => buffers'[q] = buffers[q]
        BY <1>5, OkStep
  <2> QED
        BY <2>1 DEF HoldersInv, Holding, Waking
<1>6. ASSUME NEW f \in Flushers, FlushErr(f) PROVE TypeOK' /\ HoldersInv'
  <2>1. /\ TypeOK' /\ pc[f] = "failed" /\ pc'[f] = "wake_err"
        /\ batch'[f].part = batch[f].part /\ batch'[f].records = <<>>
        /\ \A g \in Flushers : g # f => pc'[g] = pc[g] /\ batch'[g] = batch[g]
        /\ \A q \in Partitions : q # batch[f].part => buffers'[q] = buffers[q]
        BY <1>6, ErrStep
  <2> QED
        BY <2>1 DEF HoldersInv, Holding, Waking
<1>7. ASSUME NEW f \in Flushers, Wake(f) PROVE TypeOK' /\ HoldersInv'
  <2>1. /\ TypeOK' /\ pc'[f] \in {"flush", "err"} /\ batch'[f] = NoBatch /\ buffers' = buffers
        /\ \A g \in Flushers : g # f =>
              /\ batch'[g] = batch[g]
              /\ pc'[g] = pc[g] \/ (pc[g] = "notified" /\ pc'[g] = "flush")
        BY <1>7, WakeStep
  <2> QED
        BY <2>1 DEF HoldersInv, Holding, Waking
<1>8. ASSUME NEW c \in Calls, Disconnect(c) PROVE TypeOK' /\ HoldersInv'
  <2>1. /\ TypeOK' /\ pc'[c] = "gone" /\ batch'[c] = NoBatch /\ buffers' = buffers
        /\ \A g \in Flushers : g # c => pc'[g] = pc[g] /\ batch'[g] = batch[g]
        BY <1>8, DisconnectStep
  <2> QED
        BY <2>1 DEF HoldersInv, Holding, Waking, Flushers
<1>9. CASE UNCHANGED vars
      BY <1>9 DEF vars, TypeOK, HoldersInv, Holding, Waking
<1> QED
      BY <1>1, <1>2, <1>3, <1>4, <1>5, <1>6, <1>7, <1>8, <1>9, NextCases

LEMMA HoldersInit == Init => TypeOK /\ HoldersInv
<1> SUFFICES ASSUME Init PROVE TypeOK /\ HoldersInv
    OBVIOUS
<1>1. EmptyBuffer \in Buffer /\ NoBatch \in Batch /\ <<>> \in Seq(Row)
      BY EmptySeq, NoBatchType DEF EmptyBuffer, Buffer
<1>2. TypeOK
      BY <1>1 DEF Init, TypeOK, Phases, Answers
<1>3. HoldersInv
      BY DEF Init, HoldersInv, Holding, Waking
<1> QED
      BY <1>2, <1>3

LEMMA HoldersInvariant == Spec => [](TypeOK /\ HoldersInv)
BY HoldersInit, HoldersStep, PTL DEF Spec

\* The steps of ingest and flush keep the shapes of the buffers, the batches and
\* the logs: in particular what a failed flush puts back is a buffer again.
THEOREM TypeSafety == Spec => []TypeOK
BY HoldersInvariant, PTL

----------------------------------------------------------------------------
(* Ok means durable. *)

LEMMA KeysInConcat ==
  ASSUME NEW s \in Seq(Row), NEW t \in Seq(Row)
  PROVE  KeysIn(s \o t) = KeysIn(s) \cup KeysIn(t)
<1>1. /\ Len(s) \in Nat /\ Len(t) \in Nat /\ DOMAIN s = 1..Len(s) /\ DOMAIN t = 1..Len(t)
      /\ DOMAIN (s \o t) = 1..(Len(s) + Len(t))
      BY LenProperties, ConcatProperties
<1>2. /\ \A i \in 1..Len(s) : (s \o t)[i] = s[i]
      /\ \A i \in 1..Len(t) : (s \o t)[Len(s) + i] = t[i]
      BY <1>1, ConcatProperties
<1>3. ASSUME NEW i \in 1..(Len(s) + Len(t))
      PROVE  \/ i \in 1..Len(s)
             \/ \E j \in 1..Len(t) : i = Len(s) + j
  <2>1. CASE i =< Len(s)
        BY <1>1, <2>1
  <2>2. CASE i > Len(s)
    <3>1. i - Len(s) \in 1..Len(t) /\ i = Len(s) + (i - Len(s))
          BY <1>1, <2>2
    <3> QED
          BY <3>1
  <2> QED
        BY <1>1, <2>1, <2>2
<1>4. \A i \in DOMAIN t : Len(s) + i \in DOMAIN (s \o t)
      BY <1>1
<1>5. \A i \in DOMAIN s : i \in DOMAIN (s \o t)
      BY <1>1
<1>6. KeysIn(s \o t) \subseteq KeysIn(s) \cup KeysIn(t)
  <2> SUFFICES ASSUME NEW i \in 1..(Len(s) + Len(t))
               PROVE  (s \o t)[i].key \in KeysIn(s) \cup KeysIn(t)
      BY <1>1 DEF KeysIn
  <2>1. CASE i \in 1..Len(s)
        BY <1>1, <1>2, <2>1 DEF KeysIn
  <2>2. CASE \E j \in 1..Len(t) : i = Len(s) + j
        BY <1>1, <1>2, <2>2 DEF KeysIn
  <2> QED
        BY <1>3, <2>1, <2>2
<1>7. KeysIn(s) \subseteq KeysIn(s \o t)
      BY <1>1, <1>2, <1>5 DEF KeysIn
<1>8. KeysIn(t) \subseteq KeysIn(s \o t)
      BY <1>1, <1>2, <1>4 DEF KeysIn
<1> QED
      BY <1>6, <1>7, <1>8

\* A chunk and what is left of it have all the keys.
LEMMA ChunkKeys ==
  ASSUME NEW s \in Seq(Row)
  PROVE  KeysIn(s) = KeysIn(Chunk(s)) \cup KeysIn(AfterChunk(s))
<1> DEFINE n == ChunkLen(s)
<1>1. /\ Len(s) \in Nat /\ n \in 0..Len(s) /\ DOMAIN s = 1..Len(s)
      /\ DOMAIN Chunk(s) = 1..n /\ DOMAIN AfterChunk(s) = 1..(Len(s) - n)
      /\ \A i \in 1..n : Chunk(s)[i] = s[i]
      /\ \A i \in 1..(Len(s) - n) : AfterChunk(s)[i] = s[n + i]
      BY ChunkProperties, LenProperties
<1> HIDE DEF n
<1>2. KeysIn(Chunk(s)) \subseteq KeysIn(s)
  <2>1. \A i \in 1..n : i \in 1..Len(s)
        BY <1>1
  <2> QED
        BY <1>1, <2>1 DEF KeysIn
<1>3. KeysIn(AfterChunk(s)) \subseteq KeysIn(s)
  <2>1. \A i \in 1..(Len(s) - n) : n + i \in 1..Len(s)
        BY <1>1
  <2> QED
        BY <1>1, <2>1 DEF KeysIn
<1>4. KeysIn(s) \subseteq KeysIn(Chunk(s)) \cup KeysIn(AfterChunk(s))
  <2> SUFFICES ASSUME NEW i \in 1..Len(s)
               PROVE  s[i].key \in KeysIn(Chunk(s)) \cup KeysIn(AfterChunk(s))
      BY <1>1 DEF KeysIn
  <2>1. CASE i =< n
    <3>1. i \in 1..n
          BY <1>1, <2>1
    <3> QED
          BY <1>1, <3>1 DEF KeysIn
  <2>2. CASE i > n
    <3>1. i - n \in 1..(Len(s) - n) /\ n + (i - n) = i
          BY <1>1, <2>2
    <3>2. AfterChunk(s)[i - n] = s[i]
          BY <1>1, <3>1
    <3> QED
          BY <1>1, <3>1, <3>2 DEF KeysIn
  <2> QED
        BY <1>1, <2>1, <2>2
<1> QED
      BY <1>2, <1>3, <1>4

LEMMA NoKeys == KeysIn(<<>>) = {}
BY DEF KeysIn

\* Persisting never loses a key: the keys of the batch stay in it or are durable.
LEMMA PersistKeys ==
  ASSUME TypeOK, HoldersInv, NEW f \in Flushers, PersistChunk(f) \/ PersistFail(f)
  PROVE  /\ \A p \in Partitions : DurableKeys(p) \subseteq KeysIn(log'[p])
         /\ KeysIn(batch[f].records) \subseteq
              KeysIn(log'[batch[f].part]) \cup KeysIn(batch'[f].records)
<1> DEFINE p == batch[f].part
           s == batch[f].records
           t == Fresh(f)
<1>1. p \in Partitions /\ s \in Seq(Row) /\ log[p] \in Seq(Row)
  <2>1. pc[f] = "persist"
        BY DEF PersistChunk, PersistFail
  <2>2. p \in Partitions
        BY <2>1 DEF HoldersInv, Holding
  <2> QED
        BY <2>2 DEF TypeOK, Batch
<1>2. /\ t \in Seq(Row)
      /\ \A i \in DOMAIN s : s[i].key \notin DurableKeys(p) => \E n \in DOMAIN t : t[n] = s[i]
      BY FreshProperties
<1>3. KeysIn(s) \subseteq DurableKeys(p) \cup KeysIn(t)
      BY <1>2 DEF KeysIn
<1>4. /\ \A q \in Partitions : q # p => log'[q] = log[q]
      /\ \/ log'[p] = log[p] /\ t = <<>>
         \/ log'[p] = log[p] \o Chunk(t) /\ batch'[f].records \in {AfterChunk(t), s}
         \/ log'[p] = log[p] /\ batch'[f].records \in {t, s}
      BY PersistStep
<1>5. /\ KeysIn(log[p] \o Chunk(t)) = DurableKeys(p) \cup KeysIn(Chunk(t))
      /\ KeysIn(t) = KeysIn(Chunk(t)) \cup KeysIn(AfterChunk(t))
  <2>1. Chunk(t) \in Seq(Row)
        BY <1>2, ChunkProperties
  <2> QED
        BY <1>1, <1>2, <2>1, KeysInConcat, ChunkKeys DEF DurableKeys
<1> HIDE DEF p, s, t
<1>6. DurableKeys(p) \subseteq KeysIn(log'[p])
      BY <1>4, <1>5 DEF DurableKeys
<1>7. KeysIn(s) \subseteq KeysIn(log'[p]) \cup KeysIn(batch'[f].records)
  <2>1. CASE log'[p] = log[p] /\ t = <<>>
        BY <1>3, <1>6, <2>1, NoKeys
  <2>2. CASE log'[p] = log[p] \o Chunk(t) /\ batch'[f].records \in {AfterChunk(t), s}
        BY <1>3, <1>5, <2>2
  <2>3. CASE log'[p] = log[p] /\ batch'[f].records \in {t, s}
        BY <1>3, <1>6, <2>3
  <2> QED
        BY <1>4, <2>1, <2>2, <2>3
<1>8. \A q \in Partitions : DurableKeys(q) \subseteq KeysIn(log'[q])
      BY <1>4, <1>6 DEF DurableKeys
<1> QED
      BY <1>7, <1>8 DEF p, s

LEMMA AnswersStep ==
  ASSUME TypeOK, HoldersInv, AnswersInv, [Next]_vars
  PROVE  AnswersInv'
<1> USE DEF Holding
<1>0. \A c \in Calls : \A p \in Partitions : RowsIn(c, p) \in Seq(Row)
      BY RowsInType
<1>1. ASSUME NEW c \in Calls, IngestRecords(c) PROVE AnswersInv'
  <2>1. /\ pc[c] = "idle" /\ pc'[c] \in {"flush", "select"}
        /\ \A g \in Flushers : g # c => pc'[g] = pc[g]
        /\ \A p \in Partitions :
              /\ buffers'[p].records = buffers[p].records \o RowsIn(c, p)
              /\ buffers'[p].waiters \subseteq buffers[p].waiters \cup {c}
        /\ UNCHANGED <<batch, inbox, log>>
        BY <1>1, IngestStep
  <2>2. ASSUME NEW p \in Partitions
        PROVE  KeysIn(buffers'[p].records) = KeysIn(buffers[p].records) \cup KeysIn(RowsIn(c, p))
    <3>1. buffers[p].records \in Seq(Row)
          BY DEF TypeOK, Buffer
    <3> QED
          BY <1>0, <2>1, <3>1, KeysInConcat
  <2>3. \A p \in Partitions : \A d \in buffers'[p].waiters :
          KeysIn(RowsIn(d, p)) \subseteq DurableKeys(p) \cup KeysIn(buffers'[p].records)
        BY <2>1, <2>2 DEF AnswersInv, SentIn
  <2> QED
        BY <2>1, <2>3 DEF AnswersInv, SentIn, DurableKeys, Flushers
<1>2. ASSUME NEW f \in Flushers, Moves(f) PROVE AnswersInv'
      BY <1>2 DEF AnswersInv, SentIn, DurableKeys, Moves, Flushers, Parts
<1>3. ASSUME NEW f \in Flushers, FlushTake(f) PROVE AnswersInv'
  <2>1. /\ pc[f] = "flush" /\ pc'[f] = "persist"
        /\ \A g \in Flushers : g # f => pc'[g] = pc[g] /\ batch'[g] = batch[g]
        /\ UNCHANGED <<inbox, log>>
        BY <1>3, TakeStep
  <2>2. PICK p \in Partitions :
              /\ batch'[f].part = p /\ batch'[f].records = buffers[p].records
              /\ batch'[f].waiters = buffers[p].waiters
              /\ buffers'[p] = [records |-> <<>>, waiters |-> {}, flushing |-> TRUE]
              /\ \A q \in Partitions : q # p => buffers'[q] = buffers[q]
        BY <1>3, TakeStep
  <2>3. buffers'[p].waiters = {}
        BY <2>2
  <2> QED
        BY <2>1, <2>2, <2>3 DEF AnswersInv, SentIn, DurableKeys, Flushers
<1>4. ASSUME NEW f \in Flushers, PersistChunk(f) \/ PersistFail(f) PROVE AnswersInv'
  <2>1. /\ pc[f] = "persist" /\ pc'[f] \in {"persist", "persisted", "failed"}
        /\ \A g \in Flushers : g # f => pc'[g] = pc[g] /\ batch'[g] = batch[g]
        /\ batch'[f].part = batch[f].part /\ batch'[f].waiters = batch[f].waiters
        /\ UNCHANGED <<buffers, inbox>>
        BY <1>4, PersistStep
  <2>2. /\ \A p \in Partitions : DurableKeys(p) \subseteq KeysIn(log'[p])
        /\ KeysIn(batch[f].records) \subseteq
              KeysIn(log'[batch[f].part]) \cup KeysIn(batch'[f].records)
        BY <1>4, PersistKeys
  <2>3. \A g \in Flushers : Holding(g) \/ pc[g] = "wake_ok" => batch[g].part \in Partitions
        BY DEF HoldersInv, Waking
  <2>4. \A p \in Partitions : \A d \in buffers'[p].waiters : SentIn(d, p, buffers[p].records)'
        BY <2>1, <2>2 DEF AnswersInv, SentIn, DurableKeys
  <2>5. ASSUME NEW g \in Flushers, pc'[g] \in {"persist", "persisted", "failed", "wake_ok"},
               NEW d \in batch'[g].waiters
        PROVE  SentIn(d, batch[g].part, batch[g].records)'
    <3>1. CASE g = f
          BY <2>1, <2>2, <2>3, <2>5, <3>1 DEF AnswersInv, SentIn, DurableKeys
    <3>2. CASE g # f
          BY <2>1, <2>2, <2>3, <2>5, <3>2 DEF AnswersInv, SentIn, DurableKeys
    <3> QED
          BY <3>1, <3>2
  <2>6. \A d \in Calls : \A p \in Partitions : SentIn(d, p, <<>>) => SentIn(d, p, <<>>)'
        BY <2>2 DEF SentIn, DurableKeys
  <2>7. \A d \in Calls : \A p \in Partitions : inbox'[d][p] = "ok" => SentIn(d, p, <<>>)'
        BY <2>1, <2>6 DEF AnswersInv
  <2>8. \A d \in Calls : pc'[d] = "ok" => \A p \in Parts(d) : SentIn(d, p, <<>>)'
        BY <2>1, <2>6 DEF AnswersInv, Parts, Flushers
  <2> QED
        BY <2>4, <2>5, <2>7, <2>8 DEF AnswersInv
<1>5. ASSUME NEW f \in Flushers, FlushOk(f) PROVE AnswersInv'
  <2>1. /\ pc[f] = "persisted" /\ pc'[f] = "wake_ok"
        /\ \A g \in Flushers : g # f => pc'[g] = pc[g]
        /\ \A q \in Partitions : /\ buffers'[q].records = buffers[q].records
                                  /\ buffers'[q].waiters = buffers[q].waiters
        /\ UNCHANGED <<batch, inbox, log>>
        BY <1>5, OkStep
  <2> QED
        BY <2>1 DEF AnswersInv, SentIn, DurableKeys, Flushers
<1>6. ASSUME NEW f \in Flushers, FlushErr(f) PROVE AnswersInv'
  <2>1. /\ pc[f] = "failed" /\ pc'[f] = "wake_err"
        /\ \A g \in Flushers : g # f => pc'[g] = pc[g] /\ batch'[g] = batch[g]
        /\ buffers'[batch[f].part] =
             [records |-> batch[f].records \o buffers[batch[f].part].records,
              waiters |-> {}, flushing |-> FALSE]
        /\ \A q \in Partitions : q # batch[f].part => buffers'[q] = buffers[q]
        /\ UNCHANGED <<inbox, log>>
        BY <1>6, ErrStep
  <2>2. buffers'[batch[f].part].waiters = {}
        BY <2>1
  <2> QED
        BY <2>1, <2>2 DEF AnswersInv, SentIn, DurableKeys, Flushers
<1>7. ASSUME NEW f \in Flushers, Wake(f) PROVE AnswersInv'
  <2>1. /\ Waking(f) /\ pc'[f] \in {"flush", "err"}
        /\ \A g \in Flushers : g # f =>
              /\ batch'[g] = batch[g]
              /\ pc'[g] = pc[g] \/ (pc[g] = "notified" /\ pc'[g] = "flush")
        /\ \A c \in Calls : \A p \in Partitions : inbox'[c][p] = "ok" =>
              \/ inbox[c][p] = "ok"
              \/ pc[f] = "wake_ok" /\ c \in batch[f].waiters /\ p = batch[f].part
        /\ UNCHANGED <<buffers, log>>
        BY <1>7, WakeStep
  <2>2. batch[f].records = <<>>
        BY <2>1 DEF HoldersInv
  <2>3. \A d \in Calls : \A p \in Partitions : inbox'[d][p] = "ok" => SentIn(d, p, <<>>)
        BY <2>1, <2>2 DEF AnswersInv
  <2> QED
        BY <2>1, <2>3 DEF AnswersInv, SentIn, DurableKeys, Flushers
<1>8. ASSUME NEW c \in Calls, Disconnect(c) PROVE AnswersInv'
  <2>1. /\ pc'[c] = "gone"
        /\ \A g \in Flushers : g # c => pc'[g] = pc[g] /\ batch'[g] = batch[g]
        /\ \A d \in Calls : \A p \in Partitions : inbox'[d][p] = "ok" => inbox[d][p] = "ok"
        /\ UNCHANGED <<buffers, log>>
        BY <1>8, DisconnectStep
  <2> QED
        BY <2>1 DEF AnswersInv, SentIn, DurableKeys, Flushers
<1>9. CASE UNCHANGED vars
      BY <1>9 DEF vars, AnswersInv, SentIn, DurableKeys
<1> QED
      BY <1>1, <1>2, <1>3, <1>4, <1>5, <1>6, <1>7, <1>8, <1>9, NextCases

\* An ingest_records call that returns Ok has all of its records in the database,
\* whoever flushed them and whatever failed or was dropped meanwhile.
THEOREM AnswersSafety == Spec => []OkMeansDurable
<1>1. Init => AnswersInv
      BY DEF Init, AnswersInv, EmptyBuffer, NoBatch, Holding, Flushers
<1>2. TypeOK /\ HoldersInv /\ AnswersInv /\ [Next]_vars => AnswersInv'
      BY AnswersStep
<1>3. AnswersInv => OkMeansDurable
  <2> SUFFICES ASSUME AnswersInv, NEW c \in Calls, pc[c] = "ok", NEW p \in Parts(c),
                      NEW i \in DOMAIN Payload[c][p]
               PROVE  Payload[c][p][i] \in DurableKeys(p)
      BY DEF OkMeansDurable
  <2>1. p \in Partitions /\ KeysIn(RowsIn(c, p)) \subseteq DurableKeys(p)
        BY NoKeys DEF AnswersInv, SentIn, Parts
  <2>2. /\ RowsIn(c, p)[i].key = Payload[c][p][i]
        /\ i \in DOMAIN RowsIn(c, p)
        BY <2>1, RowsInType
  <2> QED
        BY <2>1, <2>2 DEF KeysIn
<1> QED
      BY <1>1, <1>2, <1>3, HoldersInvariant, PTL DEF Spec

----------------------------------------------------------------------------
(* No record is lost. *)

LEMMA ConcatHolds ==
  ASSUME NEW s \in Seq(Row), NEW t \in Seq(Row), NEW row
  PROVE  Holds(s \o t, row) <=> Holds(s, row) \/ Holds(t, row)
<1>1. /\ Len(s) \in Nat /\ Len(t) \in Nat /\ DOMAIN s = 1..Len(s) /\ DOMAIN t = 1..Len(t)
      /\ DOMAIN (s \o t) = 1..(Len(s) + Len(t))
      /\ \A i \in 1..(Len(s) + Len(t)) :
            (s \o t)[i] = IF i =< Len(s) THEN s[i] ELSE t[i - Len(s)]
      BY LenProperties, ConcatProperties
<1>2. ASSUME NEW i \in 1..(Len(s) + Len(t)), (s \o t)[i] = row
      PROVE  Holds(s, row) \/ Holds(t, row)
  <2>1. CASE i =< Len(s)
        BY <1>1, <1>2, <2>1 DEF Holds
  <2>2. CASE i > Len(s)
    <3>1. i - Len(s) \in 1..Len(t) /\ t[i - Len(s)] = row
          BY <1>1, <1>2, <2>2
    <3> QED
          BY <1>1, <3>1 DEF Holds
  <2> QED
        BY <1>1, <2>1, <2>2
<1>3. ASSUME NEW i \in 1..Len(s), s[i] = row PROVE Holds(s \o t, row)
      BY <1>1, <1>3 DEF Holds
<1>4. ASSUME NEW i \in 1..Len(t), t[i] = row PROVE Holds(s \o t, row)
  <2>1. Len(s) + i \in 1..(Len(s) + Len(t)) /\ (s \o t)[Len(s) + i] = row
        BY <1>1, <1>4
  <2> QED
        BY <1>1, <2>1 DEF Holds
<1> QED
      BY <1>1, <1>2, <1>3, <1>4 DEF Holds

\* A partition whose flusher was dropped stays marked, with nobody to clear it.
LEMMA AbandonedStays ==
  ASSUME TypeOK, HoldersInv, [Next]_vars, NEW p \in Partitions, Abandoned(p)
  PROVE  Abandoned(p)'
<1> USE DEF Holding
<1>0. buffers[p].flushing /\ \A f \in Flushers : Holding(f) => batch[f].part # p
      BY DEF Abandoned
<1> SUFFICES /\ buffers'[p].flushing
             /\ \A f \in Flushers : pc'[f] \in {"persist", "persisted", "failed"} =>
                                      batch'[f].part # p
    BY DEF Abandoned
<1>1. ASSUME NEW c \in Calls, IngestRecords(c)
      PROVE  /\ buffers'[p].flushing /\ batch' = batch
             /\ \A f \in Flushers : pc'[f] \in {"persist", "persisted", "failed"} => pc'[f] = pc[f]
      BY <1>0, <1>1, IngestStep
<1>2. ASSUME NEW f \in Flushers, Moves(f)
      PROVE  /\ buffers'[p].flushing /\ batch' = batch
             /\ \A g \in Flushers : pc'[g] \in {"persist", "persisted", "failed"} => pc'[g] = pc[g]
      BY <1>0, <1>2 DEF Moves
<1>3. ASSUME NEW f \in Flushers, FlushTake(f)
      PROVE  /\ buffers'[p].flushing /\ batch'[f].part # p
             /\ \A g \in Flushers : g # f => pc'[g] = pc[g] /\ batch'[g] = batch[g]
      BY <1>0, <1>3, TakeStep
<1>4. ASSUME NEW f \in Flushers, PersistChunk(f) \/ PersistFail(f)
      PROVE  /\ buffers'[p].flushing /\ batch'[f].part # p
             /\ \A g \in Flushers : g # f => pc'[g] = pc[g] /\ batch'[g] = batch[g]
      BY <1>0, <1>4, PersistStep
<1>5. ASSUME NEW f \in Flushers, FlushOk(f)
      PROVE  /\ buffers'[p].flushing /\ batch' = batch
             /\ \A g \in Flushers : pc'[g] \in {"persist", "persisted", "failed"} => pc'[g] = pc[g]
      BY <1>0, <1>5, OkStep
<1>6. ASSUME NEW f \in Flushers, FlushErr(f)
      PROVE  /\ buffers'[p].flushing /\ batch'[f].part # p
             /\ \A g \in Flushers : g # f => pc'[g] = pc[g] /\ batch'[g] = batch[g]
      BY <1>0, <1>6, ErrStep
<1>7. ASSUME NEW f \in Flushers, Wake(f)
      PROVE  /\ buffers'[p].flushing
             /\ \A g \in Flushers : pc'[g] \in {"persist", "persisted", "failed"} =>
                                      pc'[g] = pc[g] /\ batch'[g] = batch[g]
  <2>1. /\ buffers' = buffers /\ pc'[f] \in {"flush", "err"}
        /\ \A g \in Flushers : g # f =>
              /\ batch'[g] = batch[g]
              /\ pc'[g] = pc[g] \/ (pc[g] = "notified" /\ pc'[g] = "flush")
        BY <1>7, WakeStep
  <2> QED
        BY <1>0, <2>1
<1>8. ASSUME NEW c \in Calls, Disconnect(c)
      PROVE  /\ buffers'[p].flushing
             /\ \A g \in Flushers : pc'[g] \in {"persist", "persisted", "failed"} =>
                                      pc'[g] = pc[g] /\ batch'[g] = batch[g]
  <2>1. /\ buffers' = buffers /\ pc'[c] = "gone"
        /\ \A g \in Flushers : g # c => pc'[g] = pc[g] /\ batch'[g] = batch[g]
        BY <1>8, DisconnectStep
  <2> QED
        BY <1>0, <2>1
<1>9. CASE UNCHANGED vars
      BY <1>0, <1>9 DEF vars
<1>10. CASE \E f \in Flushers : FlushTake(f) \/ PersistChunk(f) \/ PersistFail(f) \/ FlushErr(f)
      BY <1>0, <1>3, <1>4, <1>6, <1>10
<1>11. CASE \/ \E c \in Calls : IngestRecords(c) \/ Disconnect(c)
            \/ \E f \in Flushers : Moves(f) \/ FlushOk(f) \/ Wake(f)
      BY <1>0, <1>1, <1>2, <1>5, <1>7, <1>8, <1>11
<1> QED
      BY <1>9, <1>10, <1>11, NextCases

\* A row that is kept stays kept, unless its flusher is dropped with it.
LEMMA KeptStep ==
  ASSUME TypeOK, HoldersInv, [Next]_vars, NEW p \in Partitions, ~Abandoned(p)',
         NEW row, Kept(p, row)
  PROVE  Kept(p, row)'
<1> USE DEF Holding
<1>0. buffers[p].records \in Seq(Row) /\ \A f \in Flushers : batch[f].records \in Seq(Row)
      BY DEF TypeOK, Buffer, Batch
<1>1. ASSUME NEW c \in Calls, IngestRecords(c) PROVE Kept(p, row)'
  <2>1. /\ pc[c] = "idle" /\ \A g \in Flushers : g # c => pc'[g] = pc[g]
        /\ buffers'[p].records = buffers[p].records \o RowsIn(c, p)
        /\ UNCHANGED <<batch, log>>
        BY <1>1, IngestStep
  <2>2. Holds(buffers[p].records, row) => Holds(buffers'[p].records, row)
        BY <1>0, <2>1, RowsInType, ConcatHolds
  <2> QED
        BY <2>1, <2>2 DEF Kept, DurableKeys
<1>2. ASSUME NEW f \in Flushers, Moves(f) PROVE Kept(p, row)'
      BY <1>2 DEF Kept, DurableKeys, Moves
<1>3. ASSUME NEW f \in Flushers, FlushTake(f) PROVE Kept(p, row)'
  <2>1. /\ pc[f] = "flush" /\ pc'[f] = "persist"
        /\ \A g \in Flushers : g # f => pc'[g] = pc[g] /\ batch'[g] = batch[g]
        /\ log' = log
        BY <1>3, TakeStep
  <2>2. PICK q \in Partitions :
              /\ batch'[f].part = q /\ batch'[f].records = buffers[q].records
              /\ \A r \in Partitions : r # q => buffers'[r] = buffers[r]
        BY <1>3, TakeStep
  <2> QED
        BY <2>1, <2>2 DEF Kept, DurableKeys
<1>4. ASSUME NEW f \in Flushers, PersistChunk(f) \/ PersistFail(f) PROVE Kept(p, row)'
  <2> DEFINE t == Fresh(f)
  <2>1. /\ pc[f] = "persist" /\ pc'[f] \in {"persist", "persisted", "failed"}
        /\ \A g \in Flushers : g # f => pc'[g] = pc[g] /\ batch'[g] = batch[g]
        /\ batch'[f].part = batch[f].part
        /\ buffers' = buffers
        BY <1>4, PersistStep
  <2>2. DurableKeys(p) \subseteq KeysIn(log'[p])
        BY <1>4, PersistKeys
  <2>3. ASSUME batch[f].part = p, Holds(batch[f].records, row), row.key \notin KeysIn(log'[p])
        PROVE  Holds(batch'[f].records, row)
    <3>1. /\ t \in Seq(Row) /\ Holds(t, row)
      <4>1. /\ t \in Seq(Row)
            /\ \A i \in DOMAIN batch[f].records :
                 batch[f].records[i].key \notin DurableKeys(p) =>
                   \E n \in DOMAIN t : t[n] = batch[f].records[i]
            BY <2>3, FreshProperties
      <4> QED
            BY <2>2, <2>3, <4>1 DEF Holds
    <3>2. \/ log'[p] = log[p] /\ t = <<>>
          \/ log'[p] = log[p] \o Chunk(t) /\ batch'[f].records \in {AfterChunk(t), batch[f].records}
          \/ log'[p] = log[p] /\ batch'[f].records \in {t, batch[f].records}
          BY <1>4, <2>3, PersistStep
    <3> HIDE DEF t
    <3>3. t # <<>>
          BY <3>1 DEF Holds
    <3>4. ASSUME log'[p] = log[p] \o Chunk(t) PROVE Holds(AfterChunk(t), row)
      <4>1. log[p] \in Seq(Row) /\ Chunk(t) \in Seq(Row) /\ Len(t) \in Nat /\ DOMAIN t = 1..Len(t)
            BY <3>1, ChunkProperties, LenProperties DEF TypeOK
      <4>2. row.key \notin KeysIn(Chunk(t))
            BY <2>3, <3>4, <4>1, KeysInConcat
      <4>3. PICK i \in 1..Len(t) : t[i] = row
            BY <3>1, <4>1 DEF Holds
      <4>4. /\ ChunkLen(t) \in 0..Len(t)
            /\ DOMAIN Chunk(t) = 1..ChunkLen(t)
            /\ \A k \in 1..ChunkLen(t) : Chunk(t)[k] = t[k]
            /\ DOMAIN AfterChunk(t) = 1..(Len(t) - ChunkLen(t))
            /\ \A k \in 1..(Len(t) - ChunkLen(t)) : AfterChunk(t)[k] = t[ChunkLen(t) + k]
            BY <3>1, ChunkProperties
      <4>5. i \notin 1..ChunkLen(t)
            BY <4>2, <4>3, <4>4 DEF KeysIn
      <4>6. /\ i - ChunkLen(t) \in 1..(Len(t) - ChunkLen(t))
            /\ ChunkLen(t) + (i - ChunkLen(t)) = i
            BY <4>1, <4>4, <4>5
      <4> QED
            BY <4>3, <4>4, <4>6 DEF Holds
    <3> QED
          BY <2>3, <3>1, <3>2, <3>3, <3>4
  <2> QED
        BY <2>1, <2>2, <2>3 DEF Kept, DurableKeys
<1>5. ASSUME NEW f \in Flushers, FlushOk(f) PROVE Kept(p, row)'
  <2>1. /\ pc[f] = "persisted"
        /\ \A g \in Flushers : g # f => pc'[g] = pc[g]
        /\ buffers'[p].records = buffers[p].records
        /\ UNCHANGED <<batch, log>>
        BY <1>5, OkStep
  <2>2. ~Holds(batch[f].records, row)
        BY <2>1 DEF HoldersInv, Holds
  <2> QED
        BY <2>1, <2>2 DEF Kept, DurableKeys
<1>6. ASSUME NEW f \in Flushers, FlushErr(f) PROVE Kept(p, row)'
  <2>1. /\ pc[f] = "failed"
        /\ \A g \in Flushers : g # f => pc'[g] = pc[g] /\ batch'[g] = batch[g]
        /\ buffers'[batch[f].part] =
             [records |-> batch[f].records \o buffers[batch[f].part].records,
              waiters |-> {}, flushing |-> FALSE]
        /\ p # batch[f].part => buffers'[p] = buffers[p]
        /\ log' = log
        BY <1>6, ErrStep
  <2>2. ASSUME batch[f].part = p
        PROVE  buffers'[p].records = batch[f].records \o buffers[p].records
    <3> DEFINE s == batch[f].records \o buffers[p].records
    <3>1. buffers'[p] = [records |-> s, waiters |-> {}, flushing |-> FALSE]
          BY <2>1, <2>2, Zenon
    <3> HIDE DEF s
    <3>2. buffers'[p].records = s
          BY <3>1
    <3> QED
          BY <3>2 DEF s
  <2>3. /\ Holds(buffers[p].records, row) => Holds(buffers'[p].records, row)
        /\ batch[f].part = p /\ Holds(batch[f].records, row) => Holds(buffers'[p].records, row)
    <3>1. Holds(batch[f].records \o buffers[p].records, row) <=>
            Holds(batch[f].records, row) \/ Holds(buffers[p].records, row)
          BY <1>0, ConcatHolds
    <3> QED
          BY <2>1, <2>2, <3>1
  <2>4. CASE row.key \in DurableKeys(p)
        BY <2>1, <2>4 DEF Kept, DurableKeys
  <2>5. CASE Holds(buffers[p].records, row)
        BY <2>3, <2>5 DEF Kept
  <2>6. ASSUME NEW g \in Flushers, Holding(g), batch[g].part = p, Holds(batch[g].records, row)
        PROVE  Kept(p, row)'
    <3>1. CASE g = f
          BY <2>3, <2>6, <3>1 DEF Kept
    <3>2. CASE g # f
          BY <2>1, <2>6, <3>2 DEF Kept
    <3> QED
          BY <3>1, <3>2
  <2> QED
        BY <2>4, <2>5, <2>6 DEF Kept
<1>7. ASSUME NEW f \in Flushers, Wake(f) PROVE Kept(p, row)'
  <2>1. /\ pc[f] \in {"wake_ok", "wake_err"}
        /\ \A g \in Flushers : g # f =>
              /\ batch'[g] = batch[g]
              /\ pc'[g] = pc[g] \/ (pc[g] = "notified" /\ pc'[g] = "flush")
        /\ UNCHANGED <<buffers, log>>
        BY <1>7, WakeStep DEF Waking
  <2> QED
        BY <2>1 DEF Kept, DurableKeys
<1>8. ASSUME NEW c \in Calls, Disconnect(c) PROVE Kept(p, row)'
  <2>1. /\ c \in Flushers /\ pc'[c] = "gone"
        /\ \A g \in Flushers : g # c => pc'[g] = pc[g] /\ batch'[g] = batch[g]
        /\ UNCHANGED <<buffers, log>>
        BY <1>8, DisconnectStep DEF Flushers
  <2>2. ~(Holding(c) /\ batch[c].part = p)
    <3> SUFFICES ASSUME Holding(c), batch[c].part = p PROVE Abandoned(p)'
        OBVIOUS
    <3>1. buffers'[p].flushing
          BY <2>1 DEF HoldersInv
    <3>2. ASSUME NEW g \in Flushers, pc'[g] \in {"persist", "persisted", "failed"}
          PROVE  batch'[g].part # p
          BY <2>1, <3>2 DEF HoldersInv
    <3> QED
          BY <3>1, <3>2 DEF Abandoned
  <2> QED
        BY <2>1, <2>2 DEF Kept, DurableKeys
<1>9. CASE UNCHANGED vars
      BY <1>9 DEF vars, Kept, DurableKeys
<1> QED
      BY <1>1, <1>2, <1>3, <1>4, <1>5, <1>6, <1>7, <1>8, <1>9, NextCases

\* Apart from arriving and moving, a step is one of a call that is under way, and
\* ends no other call.
Works(f) ==
  /\ pc[f] \notin Returned \cup {"idle"} /\ pc'[f] # "ok"
  /\ \A g \in Flushers : g # f => \/ pc'[g] = pc[g]
                                  \/ pc[g] = "notified" /\ pc'[g] = "flush"

LEMMA WhoMoves ==
  ASSUME TypeOK, HoldersInv, [Next]_vars
  PROVE  \/ \E c \in Calls : IngestRecords(c)
         \/ \E f \in Flushers : Moves(f) \/ Works(f)
         \/ UNCHANGED vars
<1>1. ASSUME NEW f \in Flushers, FlushTake(f) PROVE Works(f)
      BY <1>1, TakeStep DEF Works, Returned
<1>2. ASSUME NEW f \in Flushers, PersistChunk(f) \/ PersistFail(f) PROVE Works(f)
  <2>1. /\ pc[f] = "persist" /\ pc'[f] \in {"persist", "persisted", "failed"}
        /\ \A g \in Flushers : g # f => pc'[g] = pc[g]
        BY <1>2, PersistStep
  <2> QED
        BY <2>1 DEF Works, Returned
<1>3. ASSUME NEW f \in Flushers, FlushOk(f) PROVE Works(f)
  <2>1. /\ pc[f] = "persisted" /\ pc'[f] = "wake_ok"
        /\ \A g \in Flushers : g # f => pc'[g] = pc[g]
        BY <1>3, OkStep
  <2> QED
        BY <2>1 DEF Works, Returned
<1>4. ASSUME NEW f \in Flushers, FlushErr(f) PROVE Works(f)
  <2>1. /\ pc[f] = "failed" /\ pc'[f] = "wake_err"
        /\ \A g \in Flushers : g # f => pc'[g] = pc[g]
        BY <1>4, ErrStep
  <2> QED
        BY <2>1 DEF Works, Returned
<1>5. ASSUME NEW f \in Flushers, Wake(f) PROVE Works(f)
      BY <1>5, WakeStep DEF Works, Waking, Returned
<1>6. ASSUME NEW c \in Calls, Disconnect(c) PROVE c \in Flushers /\ Works(c)
      BY <1>6, DisconnectStep DEF Works, Flushers
<1> QED
      BY <1>1, <1>2, <1>3, <1>4, <1>5, <1>6, NextCases

LEMMA LossStep ==
  ASSUME TypeOK, HoldersInv, LossInv, [Next]_vars
  PROVE  LossInv'
<1> USE DEF Holding
<1>1. ASSUME NEW p \in Partitions, ~Abandoned(p)', NEW row \in Row, Holds(arrived'[p], row)
      PROVE  Kept(p, row)'
  <2>1. ~Abandoned(p)
        BY <1>1, AbandonedStays
  <2>2. Holds(arrived[p], row) => Kept(p, row)'
        BY <1>1, <2>1, KeptStep DEF LossInv
  <2>3. ASSUME NEW c \in Calls, IngestRecords(c), ~Holds(arrived[p], row)
        PROVE  Kept(p, row)'
    <3>1. /\ arrived'[p] = arrived[p] \o RowsIn(c, p)
          /\ buffers'[p].records = buffers[p].records \o RowsIn(c, p)
          BY <2>3, IngestStep
    <3>2. /\ arrived[p] \in Seq(Row) /\ buffers[p].records \in Seq(Row)
          /\ RowsIn(c, p) \in Seq(Row)
          BY RowsInType DEF TypeOK, Buffer
    <3>3. Holds(RowsIn(c, p), row)
          BY <1>1, <2>3, <3>1, <3>2, ConcatHolds
    <3>4. Holds(buffers'[p].records, row)
          BY <3>1, <3>2, <3>3, ConcatHolds
    <3> QED
          BY <3>4 DEF Kept
  <2>4. \/ \E c \in Calls : IngestRecords(c)
        \/ arrived' = arrived
    <3>1. ASSUME NEW f \in Flushers,
                 \/ Moves(f) \/ FlushTake(f) \/ PersistChunk(f) \/ PersistFail(f)
                 \/ FlushOk(f) \/ FlushErr(f) \/ Wake(f)
          PROVE  arrived' = arrived
          BY <3>1 DEF Moves, FlushTake, PersistChunk, PersistFail, FlushOk, FlushErr, Wake
    <3>2. ASSUME NEW c \in Calls, Disconnect(c) PROVE arrived' = arrived
          BY <3>2 DEF Disconnect
    <3>3. UNCHANGED vars => arrived' = arrived
          BY DEF vars
    <3> QED
          BY <3>1, <3>2, <3>3, NextCases
  <2> QED
        BY <1>1, <2>2, <2>3, <2>4
<1>2. ASSUME pc'[Shutdown] # "idle", NEW c \in Calls
      PROVE  pc'[c] \in Returned \cup {"idle"}
  <2>1. c \in Flushers /\ Shutdown \in Flushers /\ c # Shutdown /\ Shutdown \notin Calls
        BY ConstantsAssumption DEF Flushers
  <2>2. pc[Shutdown] # "idle" => pc[c] \in Returned \cup {"idle"}
        BY DEF LossInv
  <2>3. ASSUME NEW d \in Calls, IngestRecords(d) PROVE pc'[Shutdown] = "idle"
        BY <2>1, <2>3, IngestStep
  <2>4. ASSUME NEW f \in Flushers, Moves(f) PROVE pc'[c] \in Returned \cup {"idle"}
    <3>1. CASE f = c
      <4>1. pc[c] \in {"select", "flush", "receive"}
            BY <2>4, <3>1 DEF Moves
      <4>2. pc[Shutdown] # "idle"
            BY <1>2, <2>1, <2>4, <3>1 DEF Moves
      <4> QED
            BY <2>2, <4>1, <4>2 DEF Returned
    <3>2. CASE f = Shutdown
          BY <2>1, <2>2, <2>4, <3>2 DEF Moves
    <3>3. CASE f # c /\ f # Shutdown
          BY <1>2, <2>1, <2>2, <2>4, <3>3 DEF Moves
    <3> QED
          BY <3>1, <3>2, <3>3
  <2>5. ASSUME NEW f \in Flushers, Works(f) PROVE pc'[c] \in Returned \cup {"idle"}
    <3>1. pc[Shutdown] # "idle"
          BY <1>2, <2>1, <2>5 DEF Works
    <3> QED
          BY <2>1, <2>2, <2>5, <3>1 DEF Works, Returned
  <2>6. UNCHANGED vars => pc' = pc
        BY DEF vars
  <2> QED
        BY <1>2, <2>2, <2>3, <2>4, <2>5, <2>6, WhoMoves
<1>3. ASSUME pc'[Shutdown] = "ok", NEW p \in Partitions
      PROVE  ~buffers'[p].flushing /\ buffers'[p].records = <<>>
  <2>1. Shutdown \in Flushers /\ Shutdown \notin Calls
        BY ConstantsAssumption DEF Flushers
  <2>2. ASSUME NEW c \in Calls, IngestRecords(c) PROVE FALSE
        BY <1>3, <2>1, <2>2, IngestStep
  <2>3. pc[Shutdown] = "ok" => \A f \in Flushers : pc[f] \in Returned \cup {"idle"}
        BY DEF LossInv, Flushers, Returned
  <2>4. ASSUME NEW f \in Flushers, Works(f) PROVE FALSE
    <3>1. pc[Shutdown] = "ok" /\ f # Shutdown
          BY <1>3, <2>1, <2>4 DEF Works, Returned
    <3> QED
          BY <2>3, <2>4, <3>1 DEF Works
  <2>5. ASSUME NEW f \in Flushers, Moves(f) PROVE f = Shutdown /\ buffers' = buffers
    <3> SUFFICES ASSUME f # Shutdown PROVE FALSE
        BY <2>5 DEF Moves
    <3>1. pc[Shutdown] = "ok" /\ pc[f] \in {"select", "flush", "receive"}
          BY <1>3, <2>1, <2>5 DEF Moves, Flushers
    <3> QED
          BY <2>3, <3>1 DEF Returned
  <2>6. CASE \E f \in Flushers : Moves(f)
        BY <1>3, <2>5, <2>6 DEF Moves
  <2>7. CASE UNCHANGED vars
        BY <1>3, <2>7 DEF vars, LossInv
  <2> QED
        BY <2>2, <2>4, <2>6, <2>7, WhoMoves
<1> QED
      BY <1>1, <1>2, <1>3 DEF LossInv

LEMMA LossInit == Init => LossInv
BY DEF Init, LossInv, Holds, Flushers

\* What the buffer has accepted is in the database, in the buffer or with the call
\* that flushes it, unless a handler was dropped with a batch of the partition; and
\* after a successful shutdown flush it is in the database.
THEOREM NothingIsLost == Spec => []NoRecordIsLost
<1>1. TypeOK /\ HoldersInv /\ LossInv /\ [Next]_vars => LossInv'
      BY LossStep
<1>2. TypeOK /\ HoldersInv /\ LossInv => NoRecordIsLost
  <2> SUFFICES ASSUME TypeOK, HoldersInv, LossInv, NEW p \in Partitions, ~Abandoned(p),
                      NEW i \in DOMAIN arrived[p],
                      arrived[p][i].key \notin DurableKeys(p)
               PROVE  /\ pc[Shutdown] # "ok"
                      /\ \/ Holds(buffers[p].records, arrived[p][i])
                         \/ \E f \in Flushers : /\ batch[f].part = p
                                               /\ Holds(batch[f].records, arrived[p][i])
      BY DEF NoRecordIsLost
  <2>1. arrived[p][i] \in Row /\ Holds(arrived[p], arrived[p][i])
    <3>1. arrived[p] \in Seq(Row)
          BY DEF TypeOK
    <3> QED
          BY <3>1, ElementOfSeq, LenProperties DEF Holds
  <2>2. Kept(p, arrived[p][i])
        BY <2>1 DEF LossInv
  <2>3. ASSUME pc[Shutdown] = "ok" PROVE FALSE
    <3>1. ~buffers[p].flushing /\ buffers[p].records = <<>>
          BY <2>3 DEF LossInv
    <3>2. \A f \in Flushers : Holding(f) => batch[f].part # p
          BY <3>1 DEF HoldersInv
    <3>3. ~Holds(buffers[p].records, arrived[p][i])
          BY <3>1 DEF Holds
    <3> QED
          BY <2>2, <3>2, <3>3 DEF Kept
  <2> QED
        BY <2>2, <2>3 DEF Kept
<1> QED
      BY <1>1, <1>2, LossInit, HoldersInvariant, PTL DEF Spec

----------------------------------------------------------------------------
(* Records become durable in the order in which they came. *)

\* The order of the rows that arrived is not changed by the ones that come later.
LEMMA OrderGrows ==
  ASSUME NEW h \in Seq(Row), NEW R \in Seq(Row), NEW s \in Seq(Row), NEW t \in Seq(Row)
  PROVE  /\ InOrder(h, s) => InOrder(h \o R, s)
         /\ AfterLog(h, s, t) => AfterLog(h \o R, s, t)
         /\ AllBefore(h, s, t) => AllBefore(h \o R, s, t)
<1>1. /\ \A a \in DOMAIN h : a \in DOMAIN (h \o R) /\ (h \o R)[a] = h[a]
  <2>1. /\ Len(h) \in Nat /\ Len(R) \in Nat /\ DOMAIN h = 1..Len(h)
        /\ DOMAIN (h \o R) = 1..(Len(h) + Len(R))
        /\ \A i \in 1..(Len(h) + Len(R)) :
              (h \o R)[i] = IF i =< Len(h) THEN h[i] ELSE R[i - Len(h)]
        BY LenProperties, ConcatProperties
  <2> QED
        BY <2>1
<1>2. \A r, q : Before(h, r, q) => Before(h \o R, r, q)
      BY <1>1 DEF Before
<1>3. \A r : Holds(h, r) => Holds(h \o R, r)
      BY <1>1 DEF Holds
<1>4. InOrder(h, s) => InOrder(h \o R, s)
      BY <1>2, <1>3 DEF InOrder
<1>5. AfterLog(h, s, t) => AfterLog(h \o R, s, t)
      BY <1>2 DEF AfterLog
<1>6. AllBefore(h, s, t) => AllBefore(h \o R, s, t)
      BY <1>2 DEF AllBefore
<1> QED
      BY <1>4, <1>5, <1>6

\* The rows that come later come after the ones that have arrived.
LEMMA LaterRows ==
  ASSUME NEW h \in Seq(Row), NEW R \in Seq(Row), NEW s \in Seq(Row), InOrder(h, s)
  PROVE  InOrder(h \o R, R) /\ AllBefore(h \o R, s, R)
<1>1. /\ Len(h) \in Nat /\ Len(R) \in Nat /\ DOMAIN h = 1..Len(h) /\ DOMAIN R = 1..Len(R)
      /\ DOMAIN (h \o R) = 1..(Len(h) + Len(R))
      /\ \A i \in 1..(Len(h) + Len(R)) :
            (h \o R)[i] = IF i =< Len(h) THEN h[i] ELSE R[i - Len(h)]
      BY LenProperties, ConcatProperties
<1>2. ASSUME NEW j \in DOMAIN R
      PROVE  Len(h) + j \in DOMAIN (h \o R) /\ (h \o R)[Len(h) + j] = R[j]
      BY <1>1
<1>3. ASSUME NEW a \in DOMAIN h
      PROVE  a \in DOMAIN (h \o R) /\ (h \o R)[a] = h[a]
      BY <1>1
<1>4. ASSUME NEW i \in DOMAIN R, NEW j \in DOMAIN R, i < j
      PROVE  Before(h \o R, R[i], R[j])
  <2>1. Len(h) + i < Len(h) + j
        BY <1>1, <1>4
  <2> QED
        BY <1>2, <2>1 DEF Before
<1>5. ASSUME NEW i \in DOMAIN s, NEW j \in DOMAIN R
      PROVE  Before(h \o R, s[i], R[j])
  <2>1. PICK a \in DOMAIN h : h[a] = s[i]
        BY DEF InOrder, Holds
  <2>2. a < Len(h) + j
        BY <1>1
  <2> QED
        BY <1>2, <1>3, <2>1, <2>2 DEF Before
<1>6. \A i \in DOMAIN R : Holds(h \o R, R[i])
      BY <1>2 DEF Holds
<1> QED
      BY <1>4, <1>5, <1>6 DEF InOrder, AllBefore

\* Two sequences in order, the first before the second, are in order.
LEMMA OrderConcat ==
  ASSUME NEW h, NEW s \in Seq(Row), NEW t \in Seq(Row),
         InOrder(h, s), InOrder(h, t), AllBefore(h, s, t)
  PROVE  InOrder(h, s \o t)
<1>1. /\ Len(s) \in Nat /\ Len(t) \in Nat /\ DOMAIN s = 1..Len(s) /\ DOMAIN t = 1..Len(t)
      /\ DOMAIN (s \o t) = 1..(Len(s) + Len(t))
      /\ \A i \in 1..(Len(s) + Len(t)) :
            (s \o t)[i] = IF i =< Len(s) THEN s[i] ELSE t[i - Len(s)]
      BY LenProperties, ConcatProperties
<1>2. ASSUME NEW i \in 1..(Len(s) + Len(t))
      PROVE  \/ i \in DOMAIN s /\ (s \o t)[i] = s[i]
             \/ i > Len(s) /\ i - Len(s) \in DOMAIN t /\ (s \o t)[i] = t[i - Len(s)]
      BY <1>1
<1>3. \A i \in DOMAIN (s \o t) : Holds(h, (s \o t)[i])
      BY <1>1, <1>2 DEF InOrder
<1>4. ASSUME NEW i \in 1..(Len(s) + Len(t)), NEW j \in 1..(Len(s) + Len(t)), i < j
      PROVE  Before(h, (s \o t)[i], (s \o t)[j])
  <2>1. CASE j \in DOMAIN s
    <3>1. i \in DOMAIN s /\ (s \o t)[i] = s[i] /\ (s \o t)[j] = s[j]
          BY <1>1, <1>2, <1>4, <2>1
    <3> QED
          BY <1>4, <2>1, <3>1 DEF InOrder
  <2>2. CASE i \in DOMAIN s /\ j \notin DOMAIN s
    <3>1. (s \o t)[i] = s[i] /\ j - Len(s) \in DOMAIN t /\ (s \o t)[j] = t[j - Len(s)]
          BY <1>1, <1>2, <2>2
    <3> QED
          BY <2>2, <3>1 DEF AllBefore
  <2>3. CASE i \notin DOMAIN s
    <3>1. /\ i - Len(s) \in DOMAIN t /\ (s \o t)[i] = t[i - Len(s)]
          /\ j - Len(s) \in DOMAIN t /\ (s \o t)[j] = t[j - Len(s)]
          /\ i - Len(s) < j - Len(s)
          BY <1>1, <1>2, <1>4, <2>3
    <3> QED
          BY <3>1 DEF InOrder
  <2> QED
        BY <2>1, <2>2, <2>3
<1> QED
      BY <1>1, <1>3, <1>4 DEF InOrder

LEMMA BeforeConcat ==
  ASSUME NEW h, NEW r \in Seq(Row), NEW s \in Seq(Row), NEW t \in Seq(Row)
  PROVE  /\ AllBefore(h, r, s) /\ AllBefore(h, r, t) => AllBefore(h, r, s \o t)
         /\ AfterLog(h, r, s) /\ AfterLog(h, r, t) => AfterLog(h, r, s \o t)
<1>1. /\ Len(s) \in Nat /\ Len(t) \in Nat /\ DOMAIN s = 1..Len(s) /\ DOMAIN t = 1..Len(t)
      /\ DOMAIN (s \o t) = 1..(Len(s) + Len(t))
      /\ \A i \in 1..(Len(s) + Len(t)) :
            (s \o t)[i] = IF i =< Len(s) THEN s[i] ELSE t[i - Len(s)]
      BY LenProperties, ConcatProperties
<1>2. ASSUME NEW i \in DOMAIN (s \o t)
      PROVE  \/ \E j \in DOMAIN s : (s \o t)[i] = s[j]
             \/ \E j \in DOMAIN t : (s \o t)[i] = t[j]
  <2>1. \/ i \in DOMAIN s /\ (s \o t)[i] = s[i]
        \/ i - Len(s) \in DOMAIN t /\ (s \o t)[i] = t[i - Len(s)]
        BY <1>1
  <2> QED
        BY <2>1
<1> QED
      BY <1>2 DEF AllBefore, AfterLog

\* t is a part of s, in its order.
Embeds(t, s) ==
  /\ \A n \in DOMAIN t : \E i \in DOMAIN s : t[n] = s[i]
  /\ \A n, k \in DOMAIN t : n < k => \E i, j \in DOMAIN s : i < j /\ t[n] = s[i] /\ t[k] = s[j]

LEMMA EmbedsInOrder ==
  ASSUME NEW h, NEW l, NEW u, NEW s, NEW t, Embeds(t, s)
  PROVE  /\ InOrder(h, s) => InOrder(h, t)
         /\ AfterLog(h, l, s) => AfterLog(h, l, t)
         /\ AllBefore(h, s, u) => AllBefore(h, t, u)
<1>1. \A n \in DOMAIN t : \E i \in DOMAIN s : t[n] = s[i]
      BY DEF Embeds
<1>2. \A n, k \in DOMAIN t : n < k => \E i, j \in DOMAIN s : i < j /\ t[n] = s[i] /\ t[k] = s[j]
      BY DEF Embeds
<1>3. InOrder(h, s) => InOrder(h, t)
      BY <1>1, <1>2 DEF InOrder
<1>4. AfterLog(h, l, s) => AfterLog(h, l, t)
      BY <1>1 DEF AfterLog
<1>5. AllBefore(h, s, u) => AllBefore(h, t, u)
      BY <1>1 DEF AllBefore
<1> QED
      BY <1>3, <1>4, <1>5

LEMMA ChunkEmbeds ==
  ASSUME NEW s \in Seq(Row)
  PROVE  /\ Embeds(Chunk(s), s) /\ Embeds(AfterChunk(s), s)
         /\ \A h : InOrder(h, s) => AllBefore(h, Chunk(s), AfterChunk(s))
<1> DEFINE n == ChunkLen(s)
<1>1. /\ Len(s) \in Nat /\ n \in 0..Len(s) /\ DOMAIN s = 1..Len(s)
      /\ DOMAIN Chunk(s) = 1..n /\ DOMAIN AfterChunk(s) = 1..(Len(s) - n)
      /\ \A i \in 1..n : Chunk(s)[i] = s[i]
      /\ \A i \in 1..(Len(s) - n) : AfterChunk(s)[i] = s[n + i]
      BY ChunkProperties, LenProperties
<1> HIDE DEF n
<1>2. \A i \in 1..n : i \in 1..Len(s)
      BY <1>1
<1>3. \A i \in 1..(Len(s) - n) : n + i \in 1..Len(s)
      BY <1>1
<1>4. \A i, j \in 1..(Len(s) - n) : i < j => n + i < n + j
      BY <1>1
<1>5. \A i \in 1..n, j \in 1..(Len(s) - n) : i < n + j
      BY <1>1
<1>6. Embeds(Chunk(s), s)
      BY <1>1, <1>2 DEF Embeds
<1>7. Embeds(AfterChunk(s), s)
  <2>1. \A i \in DOMAIN AfterChunk(s) : \E a \in DOMAIN s : AfterChunk(s)[i] = s[a]
        BY <1>1, <1>3
  <2>2. ASSUME NEW i \in DOMAIN AfterChunk(s), NEW j \in DOMAIN AfterChunk(s), i < j
        PROVE  \E a, b \in DOMAIN s : a < b /\ AfterChunk(s)[i] = s[a] /\ AfterChunk(s)[j] = s[b]
    <3>1. /\ n + i \in DOMAIN s /\ n + j \in DOMAIN s /\ n + i < n + j
          /\ AfterChunk(s)[i] = s[n + i] /\ AfterChunk(s)[j] = s[n + j]
          BY <1>1, <1>3, <1>4, <2>2
    <3> QED
          BY <3>1
  <2> QED
        BY <2>1, <2>2 DEF Embeds
<1>8. ASSUME NEW h, InOrder(h, s), NEW i \in 1..n, NEW j \in 1..(Len(s) - n)
      PROVE  Before(h, Chunk(s)[i], AfterChunk(s)[j])
  <2>1. /\ i \in DOMAIN s /\ n + j \in DOMAIN s /\ i < n + j
        /\ Chunk(s)[i] = s[i] /\ AfterChunk(s)[j] = s[n + j]
        BY <1>1, <1>2, <1>3, <1>5
  <2> QED
        BY <1>8, <2>1 DEF InOrder
<1>9. \A h : InOrder(h, s) => AllBefore(h, Chunk(s), AfterChunk(s))
      BY <1>1, <1>8 DEF AllBefore
<1> QED
      BY <1>6, <1>7, <1>9

LEMMA EmbedsInEmbedded ==
  ASSUME NEW r, NEW s, NEW t, Embeds(r, t), Embeds(t, s)
  PROVE  Embeds(r, s)
BY DEF Embeds

LEMMA LongerLog ==
  ASSUME NEW h, NEW l \in Seq(Row), NEW c \in Seq(Row), NEW u,
         AfterLog(h, l, u),
         \A i \in DOMAIN c, j \in DOMAIN u :
            u[j].key \notin KeysIn(l) \cup KeysIn(c) => Before(h, c[i], u[j])
  PROVE  AfterLog(h, l \o c, u)
<1>1. /\ Len(l) \in Nat /\ Len(c) \in Nat /\ DOMAIN l = 1..Len(l) /\ DOMAIN c = 1..Len(c)
      /\ DOMAIN (l \o c) = 1..(Len(l) + Len(c))
      /\ \A i \in 1..(Len(l) + Len(c)) :
            (l \o c)[i] = IF i =< Len(l) THEN l[i] ELSE c[i - Len(l)]
      BY LenProperties, ConcatProperties
<1>2. KeysIn(l \o c) = KeysIn(l) \cup KeysIn(c)
      BY KeysInConcat
<1>3. ASSUME NEW i \in DOMAIN (l \o c)
      PROVE  \/ i \in DOMAIN l /\ (l \o c)[i] = l[i]
             \/ i - Len(l) \in DOMAIN c /\ (l \o c)[i] = c[i - Len(l)]
      BY <1>1
<1>4. ASSUME NEW i \in DOMAIN (l \o c), NEW j \in DOMAIN u, u[j].key \notin KeysIn(l \o c)
      PROVE  Before(h, (l \o c)[i], u[j])
      BY <1>2, <1>3, <1>4 DEF AfterLog
<1> QED
      BY <1>4 DEF AfterLog

\* Committing a chunk of the new rows t of a batch s, with b in the buffer: the log
\* stays in order, and what is left comes after it.
LEMMA CommitOrder ==
  ASSUME NEW h, NEW l \in Seq(Row), NEW s \in Seq(Row), NEW t \in Seq(Row),
         NEW b \in Seq(Row),
         Embeds(t, s),
         \A n \in DOMAIN t : t[n].key \notin KeysIn(l),
         \A i \in DOMAIN s : s[i].key \notin KeysIn(l) => \E n \in DOMAIN t : t[n] = s[i],
         InOrder(h, l), InOrder(h, s), AfterLog(h, l, s), AllBefore(h, s, b), AfterLog(h, l, b)
  PROVE  /\ InOrder(h, l \o Chunk(t))
         /\ AfterLog(h, l \o Chunk(t), b)
         /\ AfterLog(h, l \o Chunk(t), s)
         /\ AfterLog(h, l \o Chunk(t), AfterChunk(t))
<1> DEFINE c == Chunk(t)
           r == AfterChunk(t)
<1>1. /\ c \in Seq(Row) /\ r \in Seq(Row)
      /\ Embeds(c, t) /\ Embeds(r, t) /\ Embeds(c, s) /\ Embeds(r, s)
      BY ChunkProperties, ChunkEmbeds, EmbedsInEmbedded
<1>2. InOrder(h, t) /\ InOrder(h, c) /\ AllBefore(h, c, r) /\ AllBefore(h, c, b)
      BY <1>1, EmbedsInOrder, ChunkEmbeds
<1>3. KeysIn(t) = KeysIn(c) \cup KeysIn(r)
      BY ChunkKeys
<1>4. InOrder(h, l \o c)
  <2>1. ASSUME NEW i \in DOMAIN l, NEW n \in DOMAIN c PROVE Before(h, l[i], c[n])
    <3>1. AfterLog(h, l, t)
          BY EmbedsInOrder
    <3>2. PICK k \in DOMAIN t : c[n] = t[k]
          BY <1>1 DEF Embeds
    <3> QED
          BY <3>1, <3>2 DEF AfterLog
  <2>2. AllBefore(h, l, c)
        BY <2>1 DEF AllBefore
  <2> QED
        BY <1>1, <1>2, <2>2, OrderConcat
<1>5. AfterLog(h, l \o c, b)
      BY <1>1, <1>2, LongerLog DEF AllBefore
<1>6. AfterLog(h, l \o c, r)
  <2>1. AfterLog(h, l, r)
        BY <1>1, EmbedsInOrder
  <2> QED
        BY <1>1, <1>2, <2>1, LongerLog DEF AllBefore
<1>7. ASSUME NEW i \in DOMAIN c, NEW j \in DOMAIN s, s[j].key \notin KeysIn(l) \cup KeysIn(c)
      PROVE  Before(h, c[i], s[j])
  <2>1. PICK k \in DOMAIN t : t[k] = s[j]
        BY <1>7
  <2>2. \E m \in DOMAIN r : r[m] = s[j]
    <3> DEFINE n == ChunkLen(t)
    <3>1. /\ Len(t) \in Nat /\ n \in 0..Len(t) /\ DOMAIN t = 1..Len(t)
          /\ DOMAIN c = 1..n /\ DOMAIN r = 1..(Len(t) - n)
          /\ \A a \in 1..n : c[a] = t[a]
          /\ \A a \in 1..(Len(t) - n) : r[a] = t[n + a]
          BY ChunkProperties, LenProperties
    <3> HIDE DEF n, c, r
    <3>2. k \notin 1..n
          BY <1>7, <2>1, <3>1 DEF KeysIn
    <3>3. k - n \in 1..(Len(t) - n) /\ n + (k - n) = k
          BY <3>1, <3>2
    <3>4. r[k - n] = t[k]
          BY <3>1, <3>3
    <3> QED
          BY <2>1, <3>1, <3>3, <3>4
  <2> QED
        BY <1>2, <2>2 DEF AllBefore
<1>8. AfterLog(h, l \o c, s)
      BY <1>1, <1>7, LongerLog
<1> QED
      BY <1>4, <1>5, <1>6, <1>8

LEMMA NoRowsInOrder ==
  ASSUME NEW h, NEW s
  PROVE  /\ InOrder(h, <<>>) /\ AfterLog(h, s, <<>>)
         /\ AllBefore(h, <<>>, s) /\ AllBefore(h, s, <<>>)
BY DEF InOrder, AfterLog, AllBefore

\* A step that leaves the order of a partition and of its rows as it was.
LEMMA SameOrder ==
  ASSUME OrderInv, NEW p \in Partitions,
         arrived'[p] = arrived[p], log'[p] = log[p], buffers'[p].records = buffers[p].records,
         \A f \in Flushers : batch'[f].part = p =>
            batch'[f].records = <<>> \/ batch'[f] = batch[f]
  PROVE  /\ InOrder(arrived'[p], log'[p])
         /\ InOrder(arrived'[p], buffers'[p].records)
         /\ AfterLog(arrived'[p], log'[p], buffers'[p].records)
         /\ \A f \in Flushers : batch'[f].part = p =>
              /\ InOrder(arrived'[p], batch'[f].records)
              /\ AfterLog(arrived'[p], log'[p], batch'[f].records)
              /\ AllBefore(arrived'[p], batch'[f].records, buffers'[p].records)
<1>1. ASSUME NEW f \in Flushers, batch'[f].part = p
      PROVE  /\ InOrder(arrived'[p], batch'[f].records)
             /\ AfterLog(arrived'[p], log'[p], batch'[f].records)
             /\ AllBefore(arrived'[p], batch'[f].records, buffers'[p].records)
  <2>1. CASE batch'[f].records = <<>>
        BY <2>1, NoRowsInOrder
  <2>2. CASE batch'[f] = batch[f]
        BY <1>1, <2>2 DEF OrderInv
  <2> QED
        BY <1>1, <2>1, <2>2
<1> QED
      BY <1>1 DEF OrderInv

LEMMA OrderStep ==
  ASSUME TypeOK, HoldersInv, OrderInv, [Next]_vars
  PROVE  OrderInv'
<1> DEFINE Goal(p) ==
       /\ InOrder(arrived'[p], log'[p])
       /\ InOrder(arrived'[p], buffers'[p].records)
       /\ AfterLog(arrived'[p], log'[p], buffers'[p].records)
       /\ \A f \in Flushers : batch'[f].part = p =>
            /\ InOrder(arrived'[p], batch'[f].records)
            /\ AfterLog(arrived'[p], log'[p], batch'[f].records)
            /\ AllBefore(arrived'[p], batch'[f].records, buffers'[p].records)
<1> SUFFICES ASSUME NEW p \in Partitions PROVE Goal(p)
    BY DEF OrderInv
<1>1. /\ InOrder(arrived[p], log[p])
      /\ InOrder(arrived[p], buffers[p].records)
      /\ AfterLog(arrived[p], log[p], buffers[p].records)
      /\ \A f \in Flushers : batch[f].part = p =>
           /\ InOrder(arrived[p], batch[f].records)
           /\ AfterLog(arrived[p], log[p], batch[f].records)
           /\ AllBefore(arrived[p], batch[f].records, buffers[p].records)
      BY DEF OrderInv
<1>2. /\ arrived[p] \in Seq(Row) /\ log[p] \in Seq(Row) /\ buffers[p].records \in Seq(Row)
      /\ \A f \in Flushers : batch[f].records \in Seq(Row)
      BY DEF TypeOK, Buffer, Batch
<1>3. \A f \in Flushers : ~(pc[f] \in {"persist", "failed"}) => batch[f].records = <<>>
      BY DEF HoldersInv, Holding, Waking, NoBatch
<1> HIDE DEF Goal
<1>4. ASSUME NEW c \in Calls, IngestRecords(c) PROVE Goal(p)
  <2> DEFINE h == arrived[p]
             R == RowsIn(c, p)
             b == buffers[p].records
             l == log[p]
  <2>1. /\ buffers'[p].records = b \o R /\ arrived'[p] = h \o R /\ log'[p] = l
        /\ batch' = batch
        BY <1>4, IngestStep
  <2>2. h \in Seq(Row) /\ R \in Seq(Row) /\ b \in Seq(Row) /\ l \in Seq(Row)
        BY <1>2, RowsInType
  <2>3. InOrder(h, l) /\ InOrder(h, b) /\ AfterLog(h, l, b)
        BY <1>1
  <2> HIDE DEF h, R, b, l
  <2>4. /\ InOrder(h \o R, l) /\ InOrder(h \o R, b) /\ AfterLog(h \o R, l, b)
        /\ InOrder(h \o R, R) /\ AllBefore(h \o R, l, R) /\ AllBefore(h \o R, b, R)
        BY <2>2, <2>3, OrderGrows, LaterRows
  <2>5. InOrder(h \o R, b \o R)
        BY <2>2, <2>4, OrderConcat
  <2>6. AfterLog(h \o R, l, b \o R)
    <3>1. AfterLog(h \o R, l, R)
          BY <2>4 DEF AllBefore, AfterLog
    <3> QED
          BY <2>2, <2>4, <3>1, BeforeConcat
  <2>7. ASSUME NEW f \in Flushers, batch[f].part = p
        PROVE  /\ InOrder(h \o R, batch[f].records)
               /\ AfterLog(h \o R, l, batch[f].records)
               /\ AllBefore(h \o R, batch[f].records, b \o R)
    <3> DEFINE s == batch[f].records
    <3>1. s \in Seq(Row) /\ InOrder(h, s) /\ AfterLog(h, l, s) /\ AllBefore(h, s, b)
          BY <1>1, <1>2, <2>7 DEF h, l, b
    <3> HIDE DEF s
    <3>2. /\ InOrder(h \o R, s) /\ AfterLog(h \o R, l, s) /\ AllBefore(h \o R, s, b)
          /\ AllBefore(h \o R, s, R)
          BY <2>2, <3>1, OrderGrows, LaterRows
    <3>3. AllBefore(h \o R, s, b \o R)
          BY <2>2, <3>1, <3>2, BeforeConcat
    <3> QED
          BY <3>2, <3>3 DEF s
  <2> QED
        BY <2>1, <2>4, <2>5, <2>6, <2>7 DEF Goal
<1>5. ASSUME NEW f \in Flushers, Moves(f) PROVE Goal(p)
      BY <1>5, SameOrder DEF Moves, Goal
<1>6. ASSUME NEW f \in Flushers, FlushTake(f) PROVE Goal(p)
  <2>1. /\ \A g \in Flushers : g # f => batch'[g] = batch[g]
        /\ UNCHANGED <<log, arrived>>
        BY <1>6, TakeStep
  <2>2. PICK q \in Partitions :
              /\ batch'[f].part = q /\ batch'[f].records = buffers[q].records
              /\ buffers'[q] = [records |-> <<>>, waiters |-> {}, flushing |-> TRUE]
              /\ \A r \in Partitions : r # q => buffers'[r] = buffers[r]
        BY <1>6, TakeStep
  <2>3. CASE q # p
        BY <2>1, <2>2, <2>3, SameOrder DEF Goal
  <2>4. CASE q = p
    <3>1. /\ buffers'[p].records = <<>> /\ batch'[f].records = buffers[p].records
          BY <2>2, <2>4
    <3>2. \A g \in Flushers : batch'[g].part = p =>
              \/ batch'[g].records = buffers[p].records
              \/ batch[g].part = p /\ batch'[g].records = batch[g].records
          BY <2>1, <3>1
    <3> QED
          BY <1>1, <2>1, <3>1, <3>2, NoRowsInOrder DEF Goal
  <2> QED
        BY <2>3, <2>4
<1>7. ASSUME NEW f \in Flushers, PersistChunk(f) \/ PersistFail(f) PROVE Goal(p)
  <2> DEFINE t == Fresh(f)
             s == batch[f].records
             h == arrived[p]
             l == log[p]
             b == buffers[p].records
  <2>1. /\ pc[f] = "persist" /\ batch'[f].part = batch[f].part
        /\ \A g \in Flushers : g # f => batch'[g] = batch[g]
        /\ p # batch[f].part => log'[p] = log[p]
        /\ UNCHANGED <<buffers, arrived>>
        BY <1>7, PersistStep
  <2>2. CASE p # batch[f].part
        BY <2>1, <2>2, SameOrder DEF Goal
  <2>3. CASE p = batch[f].part
    <3>1. /\ t \in Seq(Row) /\ Embeds(t, s)
          /\ \A n \in DOMAIN t : t[n].key \notin KeysIn(l)
          /\ \A i \in DOMAIN s : s[i].key \notin KeysIn(l) => \E n \in DOMAIN t : t[n] = s[i]
          BY <2>3, FreshProperties DEF DurableKeys, Embeds
    <3>2. /\ h \in Seq(Row) /\ l \in Seq(Row) /\ s \in Seq(Row) /\ b \in Seq(Row)
          /\ InOrder(h, l) /\ InOrder(h, s) /\ AfterLog(h, l, s) /\ AllBefore(h, s, b)
          /\ AfterLog(h, l, b) /\ InOrder(h, b)
          BY <1>1, <1>2, <2>3
    <3>3. ASSUME NEW g \in Flushers, g # f, batch'[g].part = p PROVE batch'[g].records = <<>>
      <4>1. batch[g].part = p /\ batch'[g] = batch[g]
            BY <2>1, <3>3
      <4>2. ~Holding(g)
            BY <2>1, <2>3, <3>3, <4>1 DEF HoldersInv, Holding
      <4> QED
            BY <1>3, <4>1, <4>2 DEF Holding
    <3>4. \/ log'[p] = l /\ batch'[f].records \in {<<>>, t, s}
          \/ log'[p] = l \o Chunk(t) /\ batch'[f].records \in {AfterChunk(t), s}
          BY <1>7, <2>3, PersistStep
    <3>5. arrived'[p] = h /\ buffers'[p].records = b
          BY <2>1
    <3> HIDE DEF t, s, h, l, b
    <3>6. /\ InOrder(h, t) /\ AfterLog(h, l, t) /\ AllBefore(h, t, b)
          BY <3>1, <3>2, EmbedsInOrder
    <3>7. /\ InOrder(h, l \o Chunk(t)) /\ AfterLog(h, l \o Chunk(t), b)
          /\ AfterLog(h, l \o Chunk(t), s) /\ AfterLog(h, l \o Chunk(t), AfterChunk(t))
          BY <3>1, <3>2, CommitOrder
    <3>8. InOrder(h, AfterChunk(t)) /\ AllBefore(h, AfterChunk(t), b)
          BY <3>1, <3>6, ChunkEmbeds, EmbedsInOrder
    <3>9. ASSUME NEW x, x = batch'[f].records
          PROVE  /\ InOrder(h, log'[p]) /\ AfterLog(h, log'[p], b)
                 /\ InOrder(h, x) /\ AfterLog(h, log'[p], x) /\ AllBefore(h, x, b)
      <4>1. CASE log'[p] = l /\ x \in {<<>>, t, s}
            BY <3>2, <3>6, <4>1, NoRowsInOrder
      <4>2. CASE log'[p] = l \o Chunk(t) /\ x \in {AfterChunk(t), s}
            BY <3>2, <3>7, <3>8, <4>2
      <4> QED
            BY <3>4, <3>9, <4>1, <4>2
    <3>10. ASSUME NEW g \in Flushers, batch'[g].part = p
           PROVE  /\ InOrder(h, batch'[g].records) /\ AfterLog(h, log'[p], batch'[g].records)
                  /\ AllBefore(h, batch'[g].records, b)
      <4>1. CASE g = f
            BY <3>9, <4>1
      <4>2. CASE g # f
            BY <3>3, <3>10, <4>2, NoRowsInOrder
      <4> QED
            BY <4>1, <4>2
    <3> QED
          BY <3>2, <3>5, <3>9, <3>10 DEF Goal
  <2> QED
        BY <2>2, <2>3
<1>8. ASSUME NEW f \in Flushers, FlushOk(f) PROVE Goal(p)
  <2>1. buffers'[p].records = buffers[p].records /\ UNCHANGED <<batch, log, arrived>>
        BY <1>8, OkStep
  <2> QED
        BY <2>1, SameOrder DEF Goal
<1>9. ASSUME NEW f \in Flushers, FlushErr(f) PROVE Goal(p)
  <2>1. /\ pc[f] = "failed" /\ batch'[f].part = batch[f].part /\ batch'[f].records = <<>>
        /\ \A g \in Flushers : g # f => batch'[g] = batch[g]
        /\ buffers'[batch[f].part] =
             [records |-> batch[f].records \o buffers[batch[f].part].records,
              waiters |-> {}, flushing |-> FALSE]
        /\ p # batch[f].part => buffers'[p] = buffers[p]
        /\ UNCHANGED <<log, arrived>>
        BY <1>9, ErrStep
  <2>2. CASE p # batch[f].part
        BY <2>1, <2>2, SameOrder DEF Goal
  <2>3. CASE p = batch[f].part
    <3> DEFINE s == batch[f].records
               b == buffers[p].records
               x == s \o b
    <3>1. buffers'[p] = [records |-> x, waiters |-> {}, flushing |-> FALSE]
          BY <2>1, <2>3, Zenon
    <3>2. InOrder(arrived[p], x) /\ AfterLog(arrived[p], log[p], x)
      <4>1. /\ s \in Seq(Row) /\ b \in Seq(Row) /\ log[p] \in Seq(Row)
            /\ InOrder(arrived[p], s) /\ InOrder(arrived[p], b) /\ AllBefore(arrived[p], s, b)
            /\ AfterLog(arrived[p], log[p], s) /\ AfterLog(arrived[p], log[p], b)
            BY <1>1, <1>2, <2>3
      <4> HIDE DEF s, b
      <4> QED
            BY <4>1, OrderConcat, BeforeConcat
    <3> HIDE DEF x
    <3>3. buffers'[p].records = x
          BY <3>1
    <3>4. ASSUME NEW g \in Flushers, batch'[g].part = p PROVE batch'[g].records = <<>>
      <4>1. CASE g = f
            BY <2>1, <4>1
      <4>2. CASE g # f
        <5>1. batch[g].part = p /\ batch'[g] = batch[g]
              BY <2>1, <3>4, <4>2
        <5>2. ~Holding(g)
              BY <2>1, <2>3, <4>2, <5>1 DEF HoldersInv, Holding
        <5> QED
              BY <1>3, <5>1, <5>2 DEF Holding
      <4> QED
            BY <4>1, <4>2
    <3> QED
          BY <1>1, <2>1, <3>2, <3>3, <3>4, NoRowsInOrder DEF Goal
  <2> QED
        BY <2>2, <2>3
<1>10. ASSUME NEW f \in Flushers, Wake(f) PROVE Goal(p)
  <2>1. /\ \A g \in Flushers : g # f => batch'[g] = batch[g]
        /\ batch'[f].records = <<>> /\ UNCHANGED <<buffers, log, arrived>>
        BY <1>10, WakeStep DEF NoBatch
  <2> QED
        BY <2>1, SameOrder DEF Goal
<1>11. ASSUME NEW c \in Calls, Disconnect(c) PROVE Goal(p)
  <2>1. /\ \A g \in Flushers : g # c => batch'[g] = batch[g]
        /\ batch'[c].records = <<>> /\ UNCHANGED <<buffers, log, arrived>>
        BY <1>11, DisconnectStep DEF NoBatch
  <2> QED
        BY <2>1, SameOrder DEF Goal
<1>12. CASE UNCHANGED vars
      BY <1>12, SameOrder DEF vars, Goal
<1> QED
      BY <1>4, <1>5, <1>6, <1>7, <1>8, <1>9, <1>10, <1>11, <1>12, NextCases

\* Within a partition rows get their ids in the order in which their records were
\* buffered, whatever failed, was put back and tried again by another call.
THEOREM ArrivalOrder == Spec => []KeepsArrivalOrder
<1>1. Init => OrderInv
      BY NoRowsInOrder DEF Init, OrderInv, EmptyBuffer, NoBatch
<1>2. TypeOK /\ HoldersInv /\ OrderInv /\ [Next]_vars => OrderInv'
      BY OrderStep
<1>3. OrderInv => KeepsArrivalOrder
      BY DEF OrderInv, KeepsArrivalOrder, InOrder, Before
<1> QED
      BY <1>1, <1>2, <1>3, HoldersInvariant, PTL DEF Spec
============================================================================
