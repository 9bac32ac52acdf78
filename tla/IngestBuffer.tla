---------------------------- MODULE IngestBuffer ----------------------------
(***************************************************************************)
(* The in-memory side of ingest: Ingestor::ingest_records buffers records  *)
(* per partition, and flush() persists the buffers one partition at a      *)
(* time.  Calls run concurrently on one Ingestor; whoever flushes persists *)
(* the records of all and answers everybody's oneshot receivers.           *)
(*                                                                         *)
(* A step is what a call does between two awaits.  The calls of            *)
(* persist_partition_records are reduced to what flush() sees of them      *)
(* (TraceStore has their detail): chunks of rows become durable one by one *)
(* and at any point the call may fail.                                     *)
(***************************************************************************)
EXTENDS Naturals, FiniteSets, Sequences

CONSTANTS Partitions,         \* PartitionKeys; numbers, ordered as in the BTreeMap
          Calls,              \* ingest_records calls, one per HTTP request
          Shutdown,           \* flush_pending_ingest, at the end of main
          Keys,               \* idempotency keys
          Payload,            \* Payload[c][p]: the keys of c's records in partition p
          MaxSpansPerSegment, \* IngestConfig::max_spans_per_segment
          ZeroDelay,          \* max_flush_delay is zero
          Disconnects         \* the calls whose client may go away

Flushers == Calls \cup {Shutdown}

ASSUME ConstantsAssumption ==
  /\ Partitions \subseteq Nat
  /\ Shutdown \notin Calls
  /\ Payload \in [Calls -> [Partitions -> Seq(Keys)]]
  /\ \A c \in Calls : \E p \in Partitions : Payload[c][p] # <<>>
  /\ MaxSpansPerSegment \in Nat \ {0}
  /\ ZeroDelay \in BOOLEAN
  /\ Disconnects \subseteq Calls

Row == [call : Calls, key : Keys]
Answers == {"none", "ok", "err"}
Returned == {"ok", "err", "gone"}

VARIABLES buffers,  \* pending: records, waiters and the flushing mark per partition
          pc,       \* the next await of each call
          again,    \* the flush of the call is the one of should_flush_now
          batch,    \* the FlushBatch in the hands of each call
          inbox,    \* what each call's oneshot receivers hold
          log,      \* rows made durable, per partition, in the order of their ids
          arrived   \* history: rows in the order in which they were buffered

vars == <<buffers, pc, again, batch, inbox, log, arrived>>

EmptyBuffer == [records |-> <<>>, waiters |-> {}, flushing |-> FALSE]
NoBatch == [part |-> 0, records |-> <<>>, waiters |-> {}]

Parts(c) == {p \in Partitions : Payload[c][p] # <<>>}
RowsIn(c, p) == [i \in DOMAIN Payload[c][p] |-> [call |-> c, key |-> Payload[c][p][i]]]
KeysIn(s) == {s[i].key : i \in DOMAIN s}
DurableKeys(p) == KeysIn(log[p])

Init == /\ buffers = [p \in Partitions |-> EmptyBuffer]
        /\ pc = [f \in Flushers |-> "idle"]
        /\ again = [f \in Flushers |-> FALSE]
        /\ batch = [f \in Flushers |-> NoBatch]
        /\ inbox = [c \in Calls |-> [p \in Partitions |-> "none"]]
        /\ log = [p \in Partitions |-> <<>>]
        /\ arrived = [p \in Partitions |-> <<>>]

----------------------------------------------------------------------------
(* ingest_records *)

\* Under the lock: append the records, register a waiter in each partition, and
\* decide whether to flush now.
IngestRecords(c) ==
  /\ pc[c] = "idle"
  /\ pc[Shutdown] = "idle"
  /\ LET filled(p) == buffers[p].records \o RowsIn(c, p)
         now == \E p \in Parts(c) : ZeroDelay \/ Len(filled(p)) >= MaxSpansPerSegment
     IN /\ buffers' = [p \in Partitions |->
                         IF p \in Parts(c)
                         THEN [buffers[p] EXCEPT !.records = filled(p),
                                                 !.waiters = @ \cup {c}]
                         ELSE buffers[p]]
        /\ pc' = [pc EXCEPT ![c] = IF now THEN "flush" ELSE "select"]
        /\ again' = [again EXCEPT ![c] = now]
  /\ arrived' = [p \in Partitions |-> arrived[p] \o RowsIn(c, p)]
  /\ UNCHANGED <<batch, inbox, log>>

\* wait_for_flush_receivers takes the receivers in partition order and ends at
\* the first error.
Answered(c, result) ==
  \/ result = "ok" /\ \A p \in Parts(c) : inbox[c][p] = "ok"
  \/ /\ result = "err"
     /\ \E p \in Parts(c) : /\ inbox[c][p] = "err"
                            /\ \A q \in Parts(c) : q < p => inbox[c][q] = "ok"

\* The receivers end the call, in the select! or after its own flush.
Return(c, result) ==
  /\ pc[c] \in {"select", "receive"}
  /\ Answered(c, result)
  /\ pc' = [pc EXCEPT ![c] = result]
  /\ UNCHANGED <<buffers, again, batch, inbox, log, arrived>>

\* The sleep of max_flush_delay ends the select!.
DelayElapsed(c) ==
  /\ pc[c] = "select"
  /\ pc' = [pc EXCEPT ![c] = "flush"]
  /\ UNCHANGED <<buffers, again, batch, inbox, log, arrived>>

----------------------------------------------------------------------------
(* flush *)

Flushable(p) == ~buffers[p].flushing /\ buffers[p].records # <<>>

FlushTake(f) ==
  /\ pc[f] = "flush"
  /\ \E p \in Partitions :
       /\ Flushable(p)
       /\ \A q \in Partitions : Flushable(q) => p =< q
       /\ batch' = [batch EXCEPT ![f] = [part |-> p, records |-> buffers[p].records,
                                         waiters |-> buffers[p].waiters]]
       /\ buffers' = [buffers EXCEPT ![p] = [records |-> <<>>, waiters |-> {},
                                             flushing |-> TRUE]]
  /\ pc' = [pc EXCEPT ![f] = "persist"]
  /\ UNCHANGED <<again, inbox, log, arrived>>

\* Nothing to take, but somebody is flushing: wait for flush_finished.
FlushWait(f) ==
  /\ pc[f] = "flush"
  /\ \A p \in Partitions : ~Flushable(p)
  /\ \E p \in Partitions : buffers[p].flushing
  /\ pc' = [pc EXCEPT ![f] = "notified"]
  /\ UNCHANGED <<buffers, again, batch, inbox, log, arrived>>

\* flush() returns; after should_flush_now the call flushes once more.
FlushReturn(f) ==
  /\ pc[f] = "flush"
  /\ \A p \in Partitions : ~Flushable(p) /\ ~buffers[p].flushing
  /\ pc' = [pc EXCEPT ![f] = IF again[f] THEN "flush"
                             ELSE IF f = Shutdown THEN "ok" ELSE "receive"]
  /\ again' = [again EXCEPT ![f] = FALSE]
  /\ UNCHANGED <<buffers, batch, inbox, log, arrived>>

\* filter_duplicate_records keeps, in their order, the records whose keys are not
\* in the database: the n-th of the new positions is the one with n - 1 before it.
New(s, durable) == {i \in DOMAIN s : s[i].key \notin durable}
Rank(i, K) == Cardinality({j \in K : j =< i})
Selected(s, K) == [n \in 1..Cardinality(K) |-> s[CHOOSE i \in K : Rank(i, K) = n]]
Fresh(f) == Selected(batch[f].records, New(batch[f].records, DurableKeys(batch[f].part)))

\* The rows of the next segment, and the rows that are left.
ChunkLen(s) == IF Len(s) < MaxSpansPerSegment THEN Len(s) ELSE MaxSpansPerSegment
Chunk(s) == SubSeq(s, 1, ChunkLen(s))
AfterChunk(s) == SubSeq(s, ChunkLen(s) + 1, Len(s))

\* A sequence of rows has a key twice.
Twice(s) == \E i, j \in DOMAIN s : i # j /\ s[i].key = s[j].key

\* One iteration of persist_partition_records.  A chunk that holds a key twice
\* conflicts with itself: the transaction is rolled back, and the filter, which
\* asks the database, lets all of its rows through again.
PersistChunk(f) ==
  /\ pc[f] = "persist"
  /\ \/ /\ Fresh(f) = <<>>
        /\ pc' = [pc EXCEPT ![f] = "persisted"]
        /\ batch' = [batch EXCEPT ![f].records = <<>>]
        /\ UNCHANGED log
     \/ /\ Fresh(f) # <<>>
        /\ ~Twice(Chunk(Fresh(f)))
        /\ log' = [log EXCEPT ![batch[f].part] = @ \o Chunk(Fresh(f))]
        /\ batch' = [batch EXCEPT ![f].records = AfterChunk(Fresh(f))]
        /\ UNCHANGED pc
     \/ /\ Twice(Chunk(Fresh(f)))
        /\ batch' = [batch EXCEPT ![f].records = Fresh(f)]
        /\ UNCHANGED <<pc, log>>
  /\ UNCHANGED <<buffers, again, inbox, arrived>>

\* Variant: a phase of its own for every failure.
PersistFailElsewhere(f) ==
  /\ pc[f] = "persist"
  /\ pc' = [pc EXCEPT ![f] = "retry"]
  /\ UNCHANGED <<buffers, again, batch, inbox, log, arrived>>

\* It fails, with the rows that it has not seen committed; the chunk may have
\* been committed without an answer.
PersistFail(f) ==
  /\ pc[f] = "persist"
  /\ pc' = [pc EXCEPT ![f] = "failed"]
  /\ \/ UNCHANGED log
     \/ /\ ~Twice(Chunk(Fresh(f)))
        /\ log' = [log EXCEPT ![batch[f].part] = @ \o Chunk(Fresh(f))]
  /\ UNCHANGED <<buffers, again, batch, inbox, arrived>>

\* Variant: a success answers the waiters that came meanwhile too.
FlushOkForAll(f) ==
  /\ pc[f] = "persisted"
  /\ LET p == batch[f].part IN
     /\ buffers' = [buffers EXCEPT ![p] = [@ EXCEPT !.flushing = FALSE, !.waiters = {}]]
     /\ batch' = [batch EXCEPT ![f].waiters = @ \cup buffers[p].waiters]
  /\ pc' = [pc EXCEPT ![f] = "wake_ok"]
  /\ UNCHANGED <<again, inbox, log, arrived>>

\* The Ok arm, under the lock.
FlushOk(f) ==
  /\ pc[f] = "persisted"
  /\ buffers' = [buffers EXCEPT ![batch[f].part].flushing = FALSE]
  /\ pc' = [pc EXCEPT ![f] = "wake_ok"]
  /\ UNCHANGED <<again, batch, inbox, log, arrived>>

\* Variants: the rows go to the back of the buffer, or nowhere.
FlushErrToBack(f) ==
  /\ pc[f] = "failed"
  /\ LET p == batch[f].part IN
     /\ buffers' = [buffers EXCEPT ![p] = [records |-> @.records \o batch[f].records,
                                           waiters |-> {}, flushing |-> FALSE]]
     /\ batch' = [batch EXCEPT ![f].records = <<>>,
                               ![f].waiters = @ \cup buffers[p].waiters]
  /\ pc' = [pc EXCEPT ![f] = "wake_err"]
  /\ UNCHANGED <<again, inbox, log, arrived>>
FlushErrDropped(f) ==
  /\ pc[f] = "failed"
  /\ LET p == batch[f].part IN
     /\ buffers' = [buffers EXCEPT ![p] = [@ EXCEPT !.waiters = {}, !.flushing = FALSE]]
     /\ batch' = [batch EXCEPT ![f].records = <<>>,
                               ![f].waiters = @ \cup buffers[p].waiters]
  /\ pc' = [pc EXCEPT ![f] = "wake_err"]
  /\ UNCHANGED <<again, inbox, log, arrived>>

\* The Err arm, under the lock: the rows go back to the front of the buffer, and
\* the waiters that came meanwhile will get the error too.
FlushErr(f) ==
  /\ pc[f] = "failed"
  /\ LET p == batch[f].part IN
     /\ buffers' = [buffers EXCEPT ![p] = [records |-> batch[f].records \o @.records,
                                           waiters |-> {}, flushing |-> FALSE]]
     /\ batch' = [batch EXCEPT ![f].records = <<>>,
                               ![f].waiters = @ \cup buffers[p].waiters]
  /\ pc' = [pc EXCEPT ![f] = "wake_err"]
  /\ UNCHANGED <<again, inbox, log, arrived>>

\* Variant: the tasks that wait for flush_finished are not woken.
WakeReceiversOnly(f) ==
  /\ pc[f] \in {"wake_ok", "wake_err"}
  /\ LET result == IF pc[f] = "wake_ok" THEN "ok" ELSE "err" IN
     /\ inbox' = [c \in Calls |->
                    IF c \in batch[f].waiters
                    THEN [inbox[c] EXCEPT ![batch[f].part] = result] ELSE inbox[c]]
     /\ pc' = [pc EXCEPT ![f] = IF result = "ok" THEN "flush" ELSE "err"]
  /\ batch' = [batch EXCEPT ![f] = NoBatch]
  /\ UNCHANGED <<buffers, again, log, arrived>>

\* flush_finished.notify_waiters() and notify_waiters(...).  After an error the
\* ? operators end the call; after a success its loop goes on.
Wake(f) ==
  /\ pc[f] \in {"wake_ok", "wake_err"}
  /\ LET result == IF pc[f] = "wake_ok" THEN "ok" ELSE "err" IN
     /\ inbox' = [c \in Calls |->
                    IF c \in batch[f].waiters
                    THEN [inbox[c] EXCEPT ![batch[f].part] = result] ELSE inbox[c]]
     /\ pc' = [g \in Flushers |->
                 IF g = f THEN IF result = "ok" THEN "flush" ELSE "err"
                 ELSE IF pc[g] = "notified" THEN "flush" ELSE pc[g]]
  /\ batch' = [batch EXCEPT ![f] = NoBatch]
  /\ UNCHANGED <<buffers, again, log, arrived>>

----------------------------------------------------------------------------
(* The server around it. *)

\* The client goes away and the server drops the handler's future at whatever
\* await it is: its FlushBatch is dropped with it, senders included, and nothing
\* clears the flushing mark.
Disconnect(c) ==
  /\ pc[c] \in {"select", "flush", "notified", "persist", "persisted", "failed", "receive"}
  /\ inbox' = [d \in Calls |->
                 IF d \in batch[c].waiters
                 THEN [inbox[d] EXCEPT ![batch[c].part] = "err"] ELSE inbox[d]]
  /\ batch' = [batch EXCEPT ![c] = NoBatch]
  /\ pc' = [pc EXCEPT ![c] = "gone"]
  /\ UNCHANGED <<buffers, again, log, arrived>>

\* Graceful shutdown: no handler runs any more, and main flushes what is left.
FlushPendingIngest ==
  /\ pc[Shutdown] = "idle"
  /\ \A c \in Calls : pc[c] \in Returned \cup {"idle"}
  /\ pc' = [pc EXCEPT ![Shutdown] = "flush"]
  /\ UNCHANGED <<buffers, again, batch, inbox, log, arrived>>

\* The process has ended.
Exited == pc[Shutdown] \in Returned /\ UNCHANGED vars

----------------------------------------------------------------------------
Flush(f) == \/ FlushTake(f)
            \/ FlushWait(f)
            \/ FlushReturn(f)
            \/ PersistChunk(f)
            \/ FlushOk(f)
            \/ FlushErr(f)
            \/ Wake(f)

Await(c) == \/ \E result \in {"ok", "err"} : Return(c, result)
            \/ DelayElapsed(c)

Next == \/ \E c \in Calls : IngestRecords(c) \/ Await(c)
        \/ \E f \in Flushers : Flush(f) \/ PersistFail(f)
        \/ \E c \in Disconnects : Disconnect(c)
        \/ FlushPendingIngest
        \/ Exited

\* Every task runs, and every database and object store call answers.  Nothing
\* obliges a client to call or to go away, or a call to fail.
Fairness == /\ \A c \in Calls : WF_vars(Await(c))
            /\ \A f \in Flushers : WF_vars(Flush(f))

Spec == Init /\ [][Next]_vars
FairSpec == Spec /\ Fairness

----------------------------------------------------------------------------
(* Properties. *)

Buffer == [records : Seq(Row), waiters : SUBSET Calls, flushing : BOOLEAN]
Batch == [part : Nat, records : Seq(Row), waiters : SUBSET Calls]
Phases == {"idle", "select", "flush", "notified", "persist", "persisted", "failed",
           "wake_ok", "wake_err", "receive"} \cup Returned

TypeOK ==
  /\ buffers \in [Partitions -> Buffer]
  /\ pc \in [Flushers -> Phases]
  /\ again \in [Flushers -> BOOLEAN]
  /\ batch \in [Flushers -> Batch]
  /\ inbox \in [Calls -> [Partitions -> Answers]]
  /\ log \in [Partitions -> Seq(Row)]
  /\ arrived \in [Partitions -> Seq(Row)]

\* ingest_records answers Ok only for records that are durable: whichever call
\* flushed them, and whatever failed, was retried or disconnected meanwhile.
OkMeansDurable ==
  \A c \in Calls : pc[c] = "ok" =>
    \A p \in Parts(c) : \A i \in DOMAIN Payload[c][p] : Payload[c][p][i] \in DurableKeys(p)

\* Within a partition records become durable in the order in which they were
\* buffered (event ids, which break ties of event time, follow that order):
\* at most one flush has records of a partition, and a failed one puts them
\* back before the ones that came later.
KeepsArrivalOrder ==
  \A p \in Partitions : \A i, j \in DOMAIN log[p] : i < j =>
    \E a, b \in DOMAIN arrived[p] :
       a < b /\ arrived[p][a] = log[p][i] /\ arrived[p][b] = log[p][j]

Holds(s, row) == \E i \in DOMAIN s : s[i] = row

\* A handler was dropped with a batch in its hands: nobody will clear the mark.
Abandoned(p) ==
  /\ buffers[p].flushing
  /\ \A f \in Flushers : pc[f] \in {"persist", "persisted", "failed"} => batch[f].part # p

\* Nothing buffered is forgotten unless a handler is dropped with it: a record is
\* durable, in its buffer or with a flush, even after its caller was
\* told that the flush failed; and a shutdown flush that succeeds drains all.
NoRecordIsLost ==
  \A p \in Partitions : ~Abandoned(p) =>
    \A i \in DOMAIN arrived[p] :
      \/ arrived[p][i].key \in DurableKeys(p)
      \/ /\ pc[Shutdown] # "ok"
         /\ \/ Holds(buffers[p].records, arrived[p][i])
            \/ \E f \in Flushers : batch[f].part = p /\ Holds(batch[f].records, arrived[p][i])

\* Every ingest call is answered, whichever flushes fail, whatever is retried and
\* whoever goes away, unless one of two things happens: a handler is dropped with a
\* batch, or a batch holds a record twice.  Nobody waits for ever on a flush of
\* somebody else for any other reason.
OnlyTwoThingsKeepCallsWaiting ==
  []<>(\/ \A c \in Calls : pc[c] \in {"idle"} \cup Returned
       \/ \E p \in Partitions : Abandoned(p)
       \/ \E f \in Flushers : Twice(batch[f].records))

\* README.md, KEVINDB_INGEST_MAX_FLUSH_DELAY_MS: an underfilled batch waits for a
\* bounded time before a durable flush.  Every ingest call is answered.
EveryCallReturns == \A c \in Calls : pc[c] # "idle" ~> pc[c] \in Returned

----------------------------------------------------------------------------
(* The inductive invariants: HoldersInv about who holds a batch, and with it    *)
(* AnswersInv behind OkMeansDurable, LossInv behind NoRecordIsLost, and         *)
(* OrderInv behind KeepsArrivalOrder.                                           *)

Holding(f) == pc[f] \in {"persist", "persisted", "failed"}
Waking(f) == pc[f] \in {"wake_ok", "wake_err"}

\* A batch is in the hands of a call that persists it or answers its waiters; a
\* partition is marked as long as one persists it, and only one does.
HoldersInv ==
  /\ \A f \in Flushers : ~Holding(f) /\ ~Waking(f) => batch[f] = NoBatch
  /\ \A f \in Flushers : Holding(f) \/ Waking(f) => batch[f].part \in Partitions
  /\ \A f \in Flushers : Holding(f) => buffers[batch[f].part].flushing
  /\ \A f, g \in Flushers : Holding(f) /\ Holding(g) /\ batch[f].part = batch[g].part => f = g
  /\ \A f \in Flushers : pc[f] = "persisted" \/ Waking(f) => batch[f].records = <<>>

\* Every record of c in p is durable, or its key is in s.
SentIn(c, p, s) == KeysIn(RowsIn(c, p)) \subseteq DurableKeys(p) \cup KeysIn(s)

\* Where a call waits its records are, and it hears of success only when they
\* are durable.
AnswersInv ==
  /\ \A p \in Partitions : \A c \in buffers[p].waiters : SentIn(c, p, buffers[p].records)
  /\ \A f \in Flushers : Holding(f) \/ pc[f] = "wake_ok" =>
        \A c \in batch[f].waiters : SentIn(c, batch[f].part, batch[f].records)
  /\ \A c \in Calls : \A p \in Partitions : inbox[c][p] = "ok" => SentIn(c, p, <<>>)
  /\ \A c \in Calls : pc[c] = "ok" => \A p \in Parts(c) : SentIn(c, p, <<>>)

\* A row is durable, in the buffer, or with the call that persists it.
Kept(p, row) ==
  \/ row.key \in DurableKeys(p)
  \/ Holds(buffers[p].records, row)
  \/ \E f \in Flushers : /\ Holding(f) /\ batch[f].part = p
                         /\ Holds(batch[f].records, row)

LossInv ==
  /\ \A p \in Partitions :
        Abandoned(p) \/ \A row \in Row : Holds(arrived[p], row) => Kept(p, row)
  /\ pc[Shutdown] # "idle" => \A c \in Calls : pc[c] \in Returned \cup {"idle"}
  /\ pc[Shutdown] = "ok" =>
        \A p \in Partitions : ~buffers[p].flushing /\ buffers[p].records = <<>>

\* With the rows that arrived in h: r came before q.
Before(h, r, q) == \E a, b \in DOMAIN h : a < b /\ h[a] = r /\ h[b] = q

\* The rows of s arrived, in the order of s; the ones that are not durable
\* after the ones in l, which are; and all the rows of s before those of t.
InOrder(h, s) ==
  /\ \A i \in DOMAIN s : Holds(h, s[i])
  /\ \A i, j \in DOMAIN s : i < j => Before(h, s[i], s[j])
AfterLog(h, l, s) ==
  \A i \in DOMAIN l, j \in DOMAIN s : s[j].key \notin KeysIn(l) => Before(h, l[i], s[j])
AllBefore(h, s, t) == \A i \in DOMAIN s, j \in DOMAIN t : Before(h, s[i], t[j])

OrderInv ==
  \A p \in Partitions :
    /\ InOrder(arrived[p], log[p])
    /\ InOrder(arrived[p], buffers[p].records)
    /\ AfterLog(arrived[p], log[p], buffers[p].records)
    /\ \A f \in Flushers : batch[f].part = p =>
         /\ InOrder(arrived[p], batch[f].records)
         /\ AfterLog(arrived[p], log[p], batch[f].records)
         /\ AllBefore(arrived[p], batch[f].records, buffers[p].records)
============================================================================
