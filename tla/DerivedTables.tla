--------------------------- MODULE DerivedTables ---------------------------
(***************************************************************************)
(* The tables that every metadata transaction derives from run_heads: the  *)
(* tree of a trace (run_tree_nodes, run_tree_edges and the root columns of *)
(* run_heads), the threads (thread_traces with thread_messages, threads)   *)
(* and the rollups of a project.  persist_metadata and delete_run_in_tx    *)
(* rebuild them inside their transaction, statement by statement, from     *)
(* what each statement sees.                                               *)
(*                                                                         *)
(* Postgres runs these transactions at READ COMMITTED: a statement sees    *)
(* what was committed when it began and what its own transaction did; it   *)
(* waits for a row that another transaction has written, and goes on with  *)
(* the row as that one left it.  A transaction is its statements, with the *)
(* rows that it has written and not yet committed.                         *)
(***************************************************************************)
EXTENDS Naturals, Sequences, FiniteSets, FiniteSetsExt, SequencesExt, Relation

CONSTANTS Spans,       \* the runs; numbers, so that span_id order is theirs
          TraceOf,     \* the trace_id of each; numbers
          Threads,     \* thread ids; numbers, as a BTreeMap visits them in order
          Groups,      \* groups of a rollup: a time bucket with a run type, say
          None,        \* no parent, no thread, no row
          Workers,     \* connections that run transactions
          Deployments, \* the sets of connections that may be in use
          Jobs,        \* what each deployment's transactions may do
          MaxWrites    \* bound: ingest transactions

ASSUME SpansAssumption ==
  /\ Spans \subseteq Nat /\ IsFiniteSet(Spans)
  /\ TraceOf \in [Spans -> Nat]
  /\ Threads \subseteq Nat
  /\ MaxWrites \in Nat
  /\ None \notin Nat

Traces == {TraceOf[s] : s \in Spans}

\* An operation of a transaction: a record that is ingested, or a run that is
\* deleted.  parent is any span id, also one that is never written.
WriteOp == [op : {"write"}, span : Spans, parent : Nat \cup {None},
            thread : Threads \cup {None}, group : Groups, start : Nat, at : Nat]
DeleteOp == [op : {"delete"}, span : Spans, at : Nat]
IsWrite(j) == j[1].op = "write"

\* A transaction ingests records, or deletes runs (one, or those that retention
\* selected).  Of two records with one event time the later upsert wins here;
\* TraceStore has the ids that decide it.
ASSUME JobsAssumption ==
  \A c \in Deployments : /\ c # {} /\ c \subseteq Workers
                         /\ \A j \in Jobs[c] : j \in Seq(WriteOp) \cup Seq(DeleteOp)
                         /\ <<>> \notin Jobs[c]

\* A row of run_heads; at is last_event_time_unix_nano, root is root_span_id.
RunHead == [parent : Nat \cup {None}, thread : Threads \cup {None}, group : Groups,
            start : Nat, at : Nat, root : Spans, marked : BOOLEAN]

ASSUME NoneAssumption == None \notin RunHead

VARIABLES conns,          \* the connections of this deployment
          heads,          \* run_heads
          deletions,      \* runs with a row in run_deletions
          nodes,          \* run_tree_nodes, each with the edge to its parent
          thread_traces,  \* thread_traces, each with its messages
          threads,        \* threads
          rollups,        \* run_metric_rollups: group -> count, no zero rows
          tx,             \* the transactions in progress
          writes          \* ingest transactions begun

tables == <<heads, deletions, nodes, thread_traces, threads, rollups>>
vars == <<conns, heads, deletions, nodes, thread_traces, threads, rollups, tx, writes>>

----------------------------------------------------------------------------
(* build_trace_tree_index: what the tree of a trace is computed from. *)

\* ORDER BY start_time_unix_nano ASC, span_id ASC.
StartsBefore(hs, s, t) ==
  \/ hs[s].start < hs[t].start
  \/ hs[s].start = hs[t].start /\ s < t

InOrder(hs, S) ==
  [i \in 1..Cardinality(S) |->
     CHOOSE s \in S : Cardinality({t \in S : StartsBefore(hs, t, s)}) = i - 1]

\* parent_creates_cycle: the chain of parents that starts at the parent meets
\* the child.  A chain that repeats itself before it meets the child never does.
ParentCreatesCycle(hs, runs, child) ==
  LET chain[k \in Nat] ==
        IF k = 0 THEN hs[child].parent
        ELSE IF chain[k - 1] \in runs THEN hs[chain[k - 1]].parent ELSE None
  IN  \E k \in 0..Cardinality(runs) : chain[k] = child

\* Variant: only a run that is its own parent is taken for a cycle.
OwnParentOnly(hs, runs, s) ==
  IF hs[s].parent \in runs \ {s} THEN hs[s].parent ELSE None

EffectiveParent(hs, runs, s) ==
  IF hs[s].parent \in runs /\ hs[s].parent # s /\ ~ParentCreatesCycle(hs, runs, s)
  THEN hs[s].parent ELSE None

Children(hs, runs, p) == InOrder(hs, {s \in runs : EffectiveParent(hs, runs, s) = p})

\* Siblings are visited in order; each takes up the numbering where the one before
\* has left it.  visit[s][sibling_order][next_order] is the next number and the rows
\* of the subtree of s.
VisitInOrder(visit, siblings, next_order) ==
  LET upto[i \in 0..Len(siblings)] ==
        IF i = 0 THEN [next |-> next_order, rows |-> {}]
        ELSE LET v == visit[siblings[i]][i - 1][upto[i - 1].next]
             IN  [next |-> v.next, rows |-> upto[i - 1].rows \cup v.rows]
  IN  upto[Len(siblings)]

\* visit_tree_node, for a root: numbers are taken on the way in and on the way out.
\* left bounds the levels below: no chain of parents is longer than there are runs.
VisitTreeNode(hs, runs, root) ==
  LET visit[left \in Nat] ==
        [s \in runs |-> [sibling_order \in Nat |-> [next_order \in Nat |->
           LET below == IF left = 0 THEN [next |-> next_order + 1, rows |-> {}]
                        ELSE VisitInOrder(visit[left - 1], Children(hs, runs, s), next_order + 1)
           IN  [next |-> below.next + 1,
                rows |-> below.rows \cup
                  {[span |-> s, parent |-> EffectiveParent(hs, runs, s), root |-> root,
                    depth |-> Cardinality(runs) - left, sibling_order |-> sibling_order,
                    subtree_start |-> next_order, subtree_end |-> below.next,
                    descendant_count |-> Cardinality(below.rows),
                    unresolved_parent |-> hs[s].parent # None /\ hs[s].parent \notin runs,
                    cycle_detected |-> hs[s].parent \in runs
                                       /\ ParentCreatesCycle(hs, runs, s)]}]]]]
  IN  visit[Cardinality(runs)][root]

BuildTraceTreeIndex(hs, runs) ==
  VisitInOrder([r \in runs |-> VisitTreeNode(hs, runs, r)], Children(hs, runs, None), 0).rows

----------------------------------------------------------------------------
(* Threads and rollups. *)

\* The runs of every query: neither marked nor in run_deletions.
Visible(hs, ds) == {s \in Spans : hs[s] # None /\ s \notin ds /\ ~hs[s].marked}

\* build_thread_trace_upsert for each thread of a trace.  tokens stands for the
\* sums over its runs, start for its place in the thread.
ThreadTraceRows(hs, runs, trace) ==
  {[thread |-> h, trace |-> trace,
    start |-> Min({hs[s].start : s \in {r \in runs : hs[r].thread = h}}),
    tokens |-> Cardinality({r \in runs : hs[r].thread = h})] :
      h \in {hs[s].thread : s \in runs} \ {None}}

\* refresh_thread_summary: the traces of a thread by start and trace id.
Summary(rows) ==
  LET before(p, q) == p.start < q.start \/ (p.start = q.start /\ p.trace < q.trace)
      ordered == SetToSortSeq(rows, before)
  IN  [count |-> Len(ordered), first |-> Head(ordered).trace,
       last |-> ordered[Len(ordered)].trace,
       tokens |-> FoldLeft(LAMBDA acc, r : acc + r.tokens, 0, ordered)]

\* The row that ensure_thread_row inserts.
NewThread == [count |-> 0, first |-> None, last |-> None, tokens |-> 0]

\* Variant: the runs are not joined with the deletions.
RollupsOfAllHeads(hs, ds) ==
  LET live == {s \in Spans : hs[s] # None}
  IN  [g \in {hs[s].group : s \in live} |-> Cardinality({s \in live : hs[s].group = g})]

\* The rows that refresh_project_aggregate_rollups inserts for one kind.
RollupRows(hs, ds) ==
  LET live == Visible(hs, ds)
  IN  [g \in {hs[s].group : s \in live} |-> Cardinality({s \in live : hs[s].group = g})]

----------------------------------------------------------------------------
(* Transactions: what a statement sees, and the rows it has to wait for. *)

\* heads, threads: the rows written, with their new values (None: deleted).
\* nodes_new, nodes_gone, tt_new, tt_gone: rows inserted and deleted.  traces
\* are to be refreshed; rows, victims, affected belong to the current statement.
IdleTx == [pc |-> "idle", id |-> 0, todo |-> <<>>, traces |-> {},
           heads |-> <<>>, deletions |-> {}, nodes_new |-> {}, nodes_gone |-> {},
           tt_new |-> {}, tt_gone |-> {}, threads |-> <<>>, stats |-> FALSE,
           rollups |-> <<>>, rows |-> {}, victims |-> {}, affected |-> {}]

Overlay(own, table) ==
  [k \in DOMAIN table |-> IF k \in DOMAIN own THEN own[k] ELSE table[k]]

\* own with k set to v.
With(own, k, v) == [x \in DOMAIN own \cup {k} |-> IF x = k THEN v ELSE own[x]]

HeadsOf(w) == Overlay(tx[w].heads, heads)
DeletionsOf(w) == deletions \cup tx[w].deletions
NodesOf(w) == (nodes \ tx[w].nodes_gone) \cup tx[w].nodes_new
ThreadTracesOf(w) == (thread_traces \ tx[w].tt_gone) \cup tx[w].tt_new
ThreadsOf(w) == Overlay(tx[w].threads, threads)
VisibleTo(w) == Visible(HeadsOf(w), DeletionsOf(w))

Others(w) == conns \ {w}
HeadIsLocked(w, s) == \E v \in Others(w) : s \in DOMAIN tx[v].heads
ThreadIsLocked(w, h) == \E v \in Others(w) : h \in DOMAIN tx[v].threads
NodeIsLocked(w, n) == \E v \in Others(w) : n \in tx[v].nodes_gone
ThreadTraceIsLocked(w, r) == \E v \in Others(w) : \E q \in tx[v].tt_gone : q.id = r.id

\* A number that tells the rows of a new transaction from the rows there are.
FreshId ==
  LET used == {n.id : n \in nodes} \cup {r.id : r \in thread_traces}
              \cup {tx[v].id : v \in conns}
  IN  CHOOSE i \in 1..(Cardinality(used) + 1) :
        i \notin used /\ \A k \in 1..(i - 1) : k \in used

Trace(w) == Min(tx[w].traces)

InTrace(S, t) == {s \in S : TraceOf[s] = t}

\* The statement after the refresh of a trace, or after the records.
AfterHeads(todo, traces) ==
  IF todo # <<>> /\ Head(todo).op = "write" THEN "heads"
  ELSE IF traces # {} THEN "tree"
  ELSE IF todo # <<>> THEN "heads" ELSE "commit"

\* The project exists and has no runs, as after set_project_retention_policy (the
\* first to insert a project makes the others wait for it).
Init ==
  /\ conns \in Deployments
  /\ heads = [s \in Spans |-> None]
  /\ deletions = {}
  /\ nodes = {}
  /\ thread_traces = {}
  /\ threads = [h \in Threads |-> None]
  /\ rollups = <<>>
  /\ tx = [w \in Workers |-> IdleTx]
  /\ writes = 0

At(w, pc) == w \in conns /\ tx[w].pc = pc
Become(w, t) == tx' = [tx EXCEPT ![w] = t]

\* The transaction begins: persist_segment, delete_run or the expiry of runs.
Begin(w) ==
  /\ At(w, "idle")
  /\ \E job \in Jobs[conns] :
       /\ IsWrite(job) => writes < MaxWrites
       /\ writes' = IF IsWrite(job) THEN writes + 1 ELSE writes
       /\ Become(w, [IdleTx EXCEPT !.pc = "heads", !.id = FreshId, !.todo = job])
  /\ UNCHANGED <<conns, tables>>

\* Variant: a run without a parent row gets its parent as root.
ParentAsRoot(w, r) ==
  IF r.parent \in Spans /\ HeadsOf(w)[r.parent] # None
  THEN HeadsOf(w)[r.parent].root ELSE r.parent

\* root_locator_for_record: the root of the parent's head, whatever its state.
RootLocator(w, r) ==
  IF r.parent \in Spans /\ TraceOf[r.parent] = TraceOf[r.span] /\ HeadsOf(w)[r.parent] # None
  THEN HeadsOf(w)[r.parent].root ELSE r.span

\* The upsert of a record's head.  A head that is not older is left as it is,
\* and its trace is not refreshed for this record; its row is locked all the same.
UpsertHead(w) ==
  /\ At(w, "heads")
  /\ LET t == tx[w]
         r == Head(t.todo)
         old == HeadsOf(w)[r.span]
         updated == old = None \/ old.at =< r.at
         new == [parent |-> r.parent, thread |-> r.thread, group |-> r.group,
                 start |-> r.start, at |-> r.at, root |-> RootLocator(w, r),
                 marked |-> FALSE]
         traces == IF updated THEN t.traces \cup {TraceOf[r.span]} ELSE t.traces
     IN  /\ r.op = "write"
         /\ ~HeadIsLocked(w, r.span)
         /\ Become(w, [t EXCEPT !.heads = With(t.heads, r.span, IF updated THEN new ELSE old),
                                !.todo = Tail(t.todo), !.traces = traces,
                                !.pc = AfterHeads(Tail(t.todo), traces)])
  /\ UNCHANGED <<conns, tables, writes>>

\* delete_run_in_tx up to its refresh: nothing is done for a run that has no
\* head or is marked already.
DeleteHead(w) ==
  /\ At(w, "heads")
  /\ LET t == tx[w]
         r == Head(t.todo)
         old == HeadsOf(w)[r.span]
         found == old # None /\ ~old.marked
         traces == IF found THEN {TraceOf[r.span]} ELSE {}
     IN  /\ r.op = "delete"
         /\ found => ~HeadIsLocked(w, r.span)
         /\ Become(w, [t EXCEPT
              !.heads = IF found THEN With(@, r.span, [old EXCEPT !.marked = TRUE, !.at = r.at])
                        ELSE @,
              !.deletions = IF found THEN @ \cup {r.span} ELSE @,
              !.todo = Tail(@), !.traces = traces, !.pc = AfterHeads(Tail(t.todo), traces)])
  /\ UNCHANGED <<conns, tables, writes>>

----------------------------------------------------------------------------
(* refresh_trace_tree_metadata. *)

TreeSelect(w) ==
  /\ At(w, "tree")
  /\ Become(w, [tx[w] EXCEPT
       !.pc = "tree_delete",
       !.rows = {[id |-> tx[w].id, trace |-> Trace(w), node |-> n] :
                   n \in BuildTraceTreeIndex(HeadsOf(w), InTrace(VisibleTo(w), Trace(w)))}])
  /\ UNCHANGED <<conns, tables, writes>>

\* The deletes choose their rows from what they see when they begin ...
TreeDelete(w) ==
  /\ At(w, "tree_delete")
  /\ Become(w, [tx[w] EXCEPT !.pc = "tree_lock",
                             !.victims = {n \in NodesOf(w) : n.trace = Trace(w)}])
  /\ UNCHANGED <<conns, tables, writes>>

\* ... and wait for those that another transaction is deleting.
TreeLock(w) ==
  /\ At(w, "tree_lock")
  /\ \A n \in tx[w].victims : ~NodeIsLocked(w, n)
  /\ Become(w, [tx[w] EXCEPT !.pc = "tree_insert", !.victims = {},
                             !.nodes_gone = @ \cup (tx[w].victims \cap nodes),
                             !.nodes_new = @ \ tx[w].victims])
  /\ UNCHANGED <<conns, tables, writes>>

SameNode(m, n) == m.node.span = n.node.span

\* The inserts are plain: the keys are distinct, and a row with one of them must be
\* gone, and its fate settled.
TreeInsert(w) ==
  /\ At(w, "tree_insert")
  /\ \A m, n \in tx[w].rows : SameNode(m, n) => m = n
  /\ \A n \in tx[w].rows :
       /\ \A m \in NodesOf(w) : ~SameNode(m, n)
       /\ \A v \in Others(w) : \A m \in tx[v].nodes_new : ~SameNode(m, n)
  /\ Become(w, [tx[w] EXCEPT !.pc = "tree_heads", !.nodes_new = @ \cup tx[w].rows])
  /\ UNCHANGED <<conns, tables, writes>>

\* A committed row has the key: the transaction fails with a duplicate key.
TreeConflict(w) ==
  /\ At(w, "tree_insert")
  /\ \E n \in tx[w].rows : \E m \in NodesOf(w) : SameNode(m, n) /\ ~NodeIsLocked(w, m)
  /\ Become(w, IdleTx)
  /\ UNCHANGED <<conns, tables, writes>>

\* Variant: the root columns of run_heads are left to the upsert.
TreeHeadsUntouched(w) ==
  /\ At(w, "tree_heads")
  /\ Become(w, [tx[w] EXCEPT !.pc = "thread_delete", !.rows = {}])
  /\ UNCHANGED <<conns, tables, writes>>

\* UPDATE run_heads SET root_run_id, root_span_id, is_root: the other columns
\* are the latest ones.
TreeHeads(w) ==
  /\ At(w, "tree_heads")
  /\ LET rows == tx[w].rows
         mine == {n.node.span : n \in rows}
         root(s) == (CHOOSE n \in rows : n.node.span = s).node.root
     IN  /\ \A s \in mine : ~HeadIsLocked(w, s)
         /\ Become(w, [tx[w] EXCEPT
              !.pc = "thread_delete", !.rows = {},
              !.heads = [s \in DOMAIN @ \cup mine |->
                           IF s \in mine THEN [HeadsOf(w)[s] EXCEPT !.root = root(s)] ELSE @[s]]])
  /\ UNCHANGED <<conns, tables, writes>>

----------------------------------------------------------------------------
(* refresh_trace_thread_metadata. *)

\* delete_existing_trace_thread_rows: the threads the trace was in, and its rows.
ThreadDelete(w) ==
  /\ At(w, "thread_delete")
  /\ LET old == {r \in ThreadTracesOf(w) : r.trace = Trace(w)}
     IN  Become(w, [tx[w] EXCEPT !.pc = "thread_lock", !.victims = old,
                                 !.affected = {r.thread : r \in old}])
  /\ UNCHANGED <<conns, tables, writes>>

\* The rows are deleted as they are by then, and load_trace_thread_runs follows.
ThreadLock(w) ==
  /\ At(w, "thread_lock")
  /\ \A r \in tx[w].victims : ~ThreadTraceIsLocked(w, r)
  /\ LET ids == {<<r.id, r.thread>> : r \in tx[w].victims}
         old == {r \in ThreadTracesOf(w) : r.trace = Trace(w) /\ <<r.id, r.thread>> \in ids}
         rows == ThreadTraceRows(HeadsOf(w), InTrace(VisibleTo(w), Trace(w)), Trace(w))
     IN  Become(w, [tx[w] EXCEPT !.pc = "thread_upsert", !.victims = {}, !.rows = rows,
                                 !.affected = @ \cup {r.thread : r \in rows},
                                 !.tt_gone = @ \cup (old \cap thread_traces),
                                 !.tt_new = @ \ old])
  /\ UNCHANGED <<conns, tables, writes>>

\* ensure_thread_row, upsert_thread_trace and replace_thread_messages for the
\* next thread.  An existing row of the trace keeps its identity.
ThreadUpsert(w) ==
  /\ At(w, "thread_upsert") /\ tx[w].rows # {}
  /\ LET t == tx[w]
         h == Min({r.thread : r \in t.rows})
         row == CHOOSE r \in t.rows : r.thread = h
         same == {r \in ThreadTracesOf(w) : r.thread = h /\ r.trace = Trace(w)}
         id == IF same = {} THEN t.id ELSE (CHOOSE r \in same : TRUE).id
         thread == IF ThreadsOf(w)[h] = None THEN NewThread ELSE ThreadsOf(w)[h]
     IN  /\ ~ThreadIsLocked(w, h)
         /\ \A r \in same : ~ThreadTraceIsLocked(w, r)
         /\ Become(w, [t EXCEPT
              !.rows = @ \ {row}, !.threads = With(@, h, thread),
              !.tt_gone = @ \cup (same \cap thread_traces),
              !.tt_new = (@ \ same) \cup
                {[id |-> id, thread |-> h, trace |-> row.trace, start |-> row.start,
                  tokens |-> row.tokens]}])
  /\ UNCHANGED <<conns, tables, writes>>

Thread(w) == Min(tx[w].affected)

\* The traces of the next affected thread.
SummaryRead(w) ==
  /\ At(w, "thread_upsert") /\ tx[w].rows = {} /\ tx[w].affected # {}
  /\ Become(w, [tx[w] EXCEPT !.pc = "summary",
                             !.rows = {r \in ThreadTracesOf(w) : r.thread = Thread(w)}])
  /\ UNCHANGED <<conns, tables, writes>>

\* Variant: a thread without traces is left in place.
SummaryKeepsEmptyThreads(w) ==
  /\ At(w, "summary")
  /\ LET h == Thread(w)
     IN  /\ ~ThreadIsLocked(w, h)
         /\ Become(w, [tx[w] EXCEPT
              !.pc = "thread_upsert", !.rows = {}, !.affected = @ \ {h},
              !.threads = IF tx[w].rows = {} THEN @ ELSE With(@, h, Summary(tx[w].rows))])
  /\ UNCHANGED <<conns, tables, writes>>

\* The summary is written, or the thread deleted when it had no traces, and then
\* ON DELETE CASCADE takes whatever rows of thread_traces name it.
SummaryWrite(w) ==
  /\ At(w, "summary")
  /\ LET t == tx[w]
         h == Thread(w)
         found == ThreadsOf(w)[h] # None
         row == IF t.rows = {} THEN None ELSE Summary(t.rows)
         cascade == {r \in ThreadTracesOf(w) : found /\ t.rows = {} /\ r.thread = h}
     IN  /\ found => ~ThreadIsLocked(w, h)
         /\ \A r \in cascade : ~ThreadTraceIsLocked(w, r)
         /\ Become(w, [t EXCEPT
              !.pc = "thread_upsert", !.rows = {}, !.affected = @ \ {h},
              !.threads = IF found THEN With(@, h, row) ELSE @,
              !.tt_gone = @ \cup (cascade \cap thread_traces),
              !.tt_new = @ \ cascade])
  /\ UNCHANGED <<conns, tables, writes>>

\* The trace is done; persist_metadata goes on to its next trace.
TraceDone(w) ==
  /\ At(w, "thread_upsert") /\ tx[w].rows = {} /\ tx[w].affected = {}
  /\ LET left == tx[w].traces \ {Trace(w)}
     IN  Become(w, [tx[w] EXCEPT !.traces = left,
                                 !.pc = IF left = {} THEN "stats" ELSE "tree"])
  /\ UNCHANGED <<conns, tables, writes>>

----------------------------------------------------------------------------
(* The project: filter stats, rollups, and the end of the transaction. *)

\* refresh_project_filter_stats upserts one set of rows for the whole project,
\* so transactions pass here one at a time.  The counts are left out.
StatsUpsert(w) ==
  /\ At(w, "stats")
  /\ \A v \in Others(w) : ~tx[v].stats
  /\ Become(w, [tx[w] EXCEPT !.pc = "rollups", !.stats = TRUE])
  /\ UNCHANGED <<conns, tables, writes>>

\* refresh_project_aggregate_rollups: all rows are deleted and inserted anew; no
\* other transaction is between its own stats and its commit.
\* retention goes on with its next run.
RefreshRollups(w) ==
  /\ At(w, "rollups")
  /\ Become(w, [tx[w] EXCEPT !.rollups = RollupRows(HeadsOf(w), DeletionsOf(w)),
                             !.pc = AfterHeads(tx[w].todo, {})])
  /\ UNCHANGED <<conns, tables, writes>>

Commit(w) ==
  /\ At(w, "commit")
  /\ heads' = HeadsOf(w)
  /\ deletions' = DeletionsOf(w)
  /\ nodes' = NodesOf(w)
  /\ thread_traces' = ThreadTracesOf(w)
  /\ threads' = ThreadsOf(w)
  /\ rollups' = IF tx[w].stats THEN tx[w].rollups ELSE rollups
  /\ Become(w, IdleTx)
  /\ UNCHANGED <<conns, writes>>

\* An error, a crash, a duplicate event, or the victim of a deadlock: everything
\* is rolled back.
Fail(w) ==
  /\ w \in conns /\ tx[w].pc # "idle"
  /\ Become(w, IdleTx)
  /\ UNCHANGED <<conns, tables, writes>>

RefreshTraceTree(w) ==
  TreeSelect(w) \/ TreeDelete(w) \/ TreeLock(w) \/ TreeInsert(w) \/ TreeConflict(w) \/ TreeHeads(w)
RefreshTraceThreads(w) ==
  ThreadDelete(w) \/ ThreadLock(w) \/ ThreadUpsert(w) \/ SummaryRead(w) \/ SummaryWrite(w)
  \/ TraceDone(w)

Next ==
  \E w \in Workers :
    \/ Begin(w) \/ UpsertHead(w) \/ DeleteHead(w)
    \/ RefreshTraceTree(w) \/ RefreshTraceThreads(w)
    \/ StatsUpsert(w) \/ RefreshRollups(w)
    \/ Commit(w) \/ Fail(w)

Spec == Init /\ [][Next]_vars

----------------------------------------------------------------------------
(* What readers see. *)

\* load_trace_tree_runs: the visible runs that have a node, each with its parent
\* unless that one is not visible.
LoadTraceTree(t) ==
  LET live == Visible(heads, deletions)
  IN  {[span |-> n.node.span,
        parent |-> IF n.node.parent \in live THEN n.node.parent ELSE None] :
          n \in {m \in nodes : m.trace = t /\ m.node.span \in live}}

----------------------------------------------------------------------------
(* Properties. *)

\* Every table holds rows of its kind, and a transaction refreshes real traces.
TypeOK ==
  /\ conns \in Deployments
  /\ \A s \in Spans : heads[s] = None \/ heads[s] \in RunHead
  /\ deletions \subseteq Spans
  /\ \A n \in nodes : n.node.span \in Spans /\ TraceOf[n.node.span] = n.trace
  /\ \A r \in thread_traces : r.thread \in Threads /\ r.trace \in Traces
  /\ DOMAIN rollups \subseteq Groups
  /\ \A w \in Workers : tx[w].traces \subseteq Traces /\ tx[w].affected \subseteq Threads
  /\ writes \in 0..MaxWrites

Alone == Cardinality(conns) = 1

\* The parents that the tree should show: the visible parent in the same trace,
\* unless the run is its own ancestor.
TrueAncestors(runs) ==
  LET raw == [p, s \in runs |-> heads[s].parent = p]
      above == TransitiveClosure(raw, runs)
      edge == [p, s \in runs |-> raw[p, s] /\ ~above[s, s]]
  IN  TransitiveClosure(edge, runs)

\* With one transaction at a time the nodes of a trace are exactly its visible
\* runs; a run's interval holds another's exactly when it is an ancestor of it,
\* depth and descendant_count count those, and the root is the topmost one; and
\* load_trace_tree shows each run below its parent: for late parents, orphans,
\* cycles, moved and deleted runs alike (build_trace_tree_index and the refresh
\* around it).
TreeMatchesTheHeads ==
  Alone =>
    \A t \in Traces :
      LET runs == InTrace(Visible(heads, deletions), t)
          above == TrueAncestors(runs)
          rows == {m.node : m \in {n \in nodes : n.trace = t}}
      IN  /\ {n.span : n \in rows} = runs /\ Cardinality(rows) = Cardinality(runs)
          /\ \A m, n \in rows :
               above[m.span, n.span] <=>
                 m.subtree_start < n.subtree_start /\ n.subtree_end < m.subtree_end
          /\ \A n \in rows :
               /\ n.depth = Cardinality({a \in runs : above[a, n.span]})
               /\ n.descendant_count = Cardinality({d \in runs : above[n.span, d]})
               /\ \A a \in runs : ~above[a, n.root]
               /\ n.root = n.span \/ above[n.root, n.span]
          /\ LoadTraceTree(t) = {[span |-> s, parent |-> IF heads[s].parent \in runs /\ above[heads[s].parent, s]
                                                         THEN heads[s].parent ELSE None] : s \in runs}

\* With one transaction at a time, thread_traces and threads are what the visible
\* runs make them: no thread outlives its last run, none is missing or miscounted
\* after runs moved between threads, were updated or deleted.
ThreadsMatchTheHeads ==
  Alone =>
    \A h \in Threads :
      LET members == {s \in Visible(heads, deletions) : heads[s].thread = h}
          turns == {TraceOf[s] : s \in members}
          start(t) == Min({heads[s].start : s \in InTrace(members, t)})
      IN  /\ {r.trace : r \in {q \in thread_traces : q.thread = h}} = turns
          /\ threads[h] = None <=> members = {}
          /\ members # {} =>
               /\ threads[h].count = Cardinality(turns)
               /\ threads[h].tokens = Cardinality(members)
               /\ threads[h].first \in turns /\ threads[h].last \in turns
               /\ \A t \in turns : /\ start(threads[h].first) =< start(t)
                                   /\ start(t) =< start(threads[h].last)

\* However transactions overlap, the rollups count exactly the visible runs:
\* the upsert of project_filter_stats comes first and lets one transaction at a
\* time through, so the last to commit has seen all the others.
RollupsMatchTheHeads ==
  LET members(g) == {s \in Visible(heads, deletions) : heads[s].group = g}
  IN  \A g \in Groups : IF g \in DOMAIN rollups
                        THEN rollups[g] = Cardinality(members(g)) /\ members(g) # {}
                        ELSE members(g) = {}

\* However transactions overlap, the root columns of run_heads and the tree say
\* the same of every visible run that is in the tree: is_root filters and tree
\* filters agree.
HeadRootsAgreeWithTheTree ==
  \A n \in nodes :
    n.node.span \in Visible(heads, deletions) => heads[n.node.span].root = n.node.root
=============================================================================
