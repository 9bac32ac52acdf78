---------------------------- MODULE ObjectCache ----------------------------
(***************************************************************************)
(* CachedObjectStore (crates/kevindb-server/src/cache.rs): a cache of reads *)
(* in front of an object store.  Reads are cached under the path and the   *)
(* requested range; keys_by_path remembers which keys a path has, so that  *)
(* a write can drop them.  The cache and the key index are not updated     *)
(* together: an insert fills the cache and then the index, an invalidation *)
(* empties the index and then drops the keys one by one, and both          *)
(* interleave with every other caller.                                     *)
(***************************************************************************)
EXTENDS ObjectReads, FiniteSets

CONSTANTS
    Procs,          \* callers of the store
    Capacity,       \* entries the cache holds
    Hybrid,         \* the cache has a disk tier, which survives a restart
    MaxEvents       \* bound on the calls begun and restarts together

ASSUME HybridAssumption == Hybrid \in BOOLEAN

ASSUME CapacityAssumption == Capacity \in Nat \ {0}

ASSUME MaxEventsAssumption == MaxEvents \in Nat

VARIABLES
    store,          \* the inner store: paths that hold an object
    written,        \* history: paths that ever held one
    cache,          \* read cached under <<path, request>>, Word("none") if none
    index,          \* keys_by_path: requests cached for a path
    recovered,      \* history: entries a restart found on disk and no call inserted since
    pc, call,       \* per caller: where its call stands, and the call
    got,            \* per caller: its reply, pending until the call took effect
    todo,           \* per caller: paths still to be invalidated
    drop,           \* per caller: keys taken out of the index, still to be removed
    events          \* calls begun and restarts so far

procVars == <<pc, call, got, todo, drop>>

vars == <<store, written, cache, index, recovered, procVars, events>>

Keys == Paths \X Requests

NoRead == Word("none")

\* The requests of one path; a write has no range, its entry is the full read.
Calls == [op : {"none", "get", "put", "upload", "delete", "copy", "rename"},
          from : Paths, to : Paths, req : Requests]

NoCall == [op |-> "none", from |-> CHOOSE p \in Paths : TRUE,
           to |-> CHOOSE p \in Paths : TRUE, req |-> All]

\* Variant: the range is left out of the key.
CacheKeyOfPath(p, r) == <<p, All>>

\* cache_key: requests have distinct keys.
CacheKey(p, r) == <<p, r>>

\* Variant: the whole cached read stands in for every range of it.
SlicedNowhere(read, r) == {read}

\* CachedObjectRead::slice: cut a request out of a cached read of the whole object.
Sliced(read, r) ==
    {ReadOf(read.bytes, g) : g \in {h \in RequestedRange(read.size, r) :
                                        read.start = 0 /\ read.end = read.size}}

Init ==
    /\ store \in SUBSET Paths
    /\ written = store
    /\ cache = [k \in Keys |-> NoRead]
    /\ index = [p \in Paths |-> {}]
    /\ recovered = {}
    /\ pc = [q \in Procs |-> "idle"]
    /\ call = [q \in Procs |-> NoCall]
    /\ got = [q \in Procs |-> NoRead]
    /\ todo = [q \in Procs |-> <<>>]
    /\ drop = [q \in Procs |-> {}]
    /\ events = 0

Goto(q, label) == pc' = [pc EXCEPT ![q] = label]

Begin(q, label, c) ==
    /\ pc[q] = "idle" /\ events < MaxEvents
    /\ events' = events + 1
    /\ Goto(q, label)
    /\ call' = [call EXCEPT ![q] = c]
    /\ got' = [got EXCEPT ![q] = Word("pending")]

Answer(q, reply) == Goto(q, "done") /\ got' = [got EXCEPT ![q] = reply]

----------------------------------------------------------------------------
\* Reads.

\* get_opts: a conditional, versioned or head request bypasses the cache.
StartGet(q, p, r) ==
    /\ \E label \in {"key", "uncached"} :
         Begin(q, label, [op |-> "get", from |-> p, to |-> p, req |-> r])
    /\ UNCHANGED <<store, written, cache, index, recovered, todo, drop>>

\* The inner store's answer to a read: its bytes, not found, or an error.
InnerAnswers(p, r) ==
    {Word("failed")}
    \cup IF p \in store
         THEN {ReadOf(Content[p], g) : g \in AsRange(Len(Content[p]), r)}
         ELSE {Word("missing")}

GetUncached(q) ==
    /\ pc[q] = "uncached"
    /\ \E answer \in InnerAnswers(call[q].from, call[q].req) : Answer(q, answer)
    /\ UNCHANGED <<store, written, cache, index, recovered, call, todo, drop, events>>

\* The first lookup, under the request's own key.  A failed read of the disk tier
\* is a miss.
LookupKey(q) ==
    /\ pc[q] = "key"
    /\ LET read == cache[CacheKey(call[q].from, call[q].req)] IN
         \/ read # NoRead /\ Answer(q, read)
         \/ /\ read = NoRead \/ Hybrid
            /\ Goto(q, IF call[q].req = All THEN "inner" ELSE "full")
            /\ UNCHANGED got
    /\ UNCHANGED <<store, written, cache, index, recovered, call, todo, drop, events>>

\* The second lookup: a range is cut out of a cached whole object.
LookupFull(q) ==
    /\ pc[q] = "full"
    /\ LET full == cache[CacheKey(call[q].from, All)]
           cut  == IF full = NoRead THEN {} ELSE Sliced(full, call[q].req) IN
         \/ \E read \in cut : Goto(q, "insert") /\ got' = [got EXCEPT ![q] = read]
         \/ (cut = {} \/ Hybrid) /\ Goto(q, "inner") /\ UNCHANGED got
    /\ UNCHANGED <<store, written, cache, index, recovered, call, todo, drop, events>>

\* A miss: the inner store is read, and what it returns will be cached.
InnerGet(q) ==
    /\ pc[q] = "inner"
    /\ \E answer \in InnerAnswers(call[q].from, call[q].req) :
         /\ got' = [got EXCEPT ![q] = answer]
         /\ Goto(q, IF answer.is = "read" THEN "insert" ELSE "done")
    /\ UNCHANGED <<store, written, cache, index, recovered, call, todo, drop, events>>

----------------------------------------------------------------------------
\* insert: first the cache, then, under its mutex, the key index.

\* The path and request the read in hand is cached under.
InsertPath(q) == call[q].to

InsertKey(q) == CacheKey(call[q].to, call[q].req)

Cached == {k \in Keys : cache[k] # NoRead}

\* A full cache gives up entries, which stay in keys_by_path.
CacheInsert(q) ==
    /\ pc[q] = "insert"
    /\ \E victims \in SUBSET (Cached \ {InsertKey(q)}) :
         /\ Cardinality((Cached \ victims) \cup {InsertKey(q)}) <= Capacity
         /\ cache' = [k \in Keys |->
                        IF k = InsertKey(q)
                        THEN IF call[q].op = "put" THEN FullRead(call[q].to) ELSE got[q]
                        ELSE IF k \in victims THEN NoRead ELSE cache[k]]
         /\ recovered' = recovered \ victims
    /\ Goto(q, "index")
    /\ UNCHANGED <<store, written, index, call, got, todo, drop, events>>

\* Variant: the key index keeps the last key of a path.
IndexInsertReplacing(q) ==
    /\ pc[q] = "index"
    /\ index' = [index EXCEPT ![InsertPath(q)] = {call[q].req}]
    /\ recovered' = recovered \ {InsertKey(q)}
    /\ Goto(q, "done")
    /\ UNCHANGED <<store, written, cache, call, got, todo, drop, events>>

IndexInsert(q) ==
    /\ pc[q] = "index"
    /\ index' = [index EXCEPT ![InsertPath(q)] = @ \cup {call[q].req}]
    /\ recovered' = recovered \ {InsertKey(q)}
    /\ Goto(q, "done")
    /\ UNCHANGED <<store, written, cache, call, got, todo, drop, events>>

----------------------------------------------------------------------------
\* invalidate_path: the keys of a path leave the index at once, the cache one by one.

TakeKeys(q) ==
    /\ pc[q] = "take"
    /\ drop' = [drop EXCEPT ![q] = {CacheKey(Head(todo[q]), r) : r \in index[Head(todo[q])]}]
    /\ index' = [index EXCEPT ![Head(todo[q])] = {}]
    /\ todo' = [todo EXCEPT ![q] = Tail(@)]
    /\ Goto(q, "drop")
    /\ UNCHANGED <<store, written, cache, recovered, call, got, events>>

DropKey(q) ==
    /\ pc[q] = "drop" /\ drop[q] # {}
    /\ \E k \in drop[q] :
         /\ cache' = [cache EXCEPT ![k] = NoRead]
         /\ drop' = [drop EXCEPT ![q] = @ \ {k}]
    /\ UNCHANGED <<store, written, index, recovered, pc, call, got, todo, events>>

\* Variant: a delete returns once the cache forgot the path.
KeysDroppedAndDone(q) ==
    /\ pc[q] = "drop" /\ drop[q] = {}
    /\ Goto(q, IF todo[q] # <<>> THEN "take"
               ELSE IF call[q].op = "put" THEN "insert" ELSE "done")
    /\ UNCHANGED <<store, written, cache, index, recovered, call, got, todo, drop, events>>

\* What follows an invalidation: the next path, the cached copy of a put, the
\* inner delete, or the return.
KeysDropped(q) ==
    /\ pc[q] = "drop" /\ drop[q] = {}
    /\ Goto(q, IF todo[q] # <<>> THEN "take"
               ELSE CASE call[q].op = "delete" -> "innerdelete"
                      [] call[q].op = "put"    -> "insert"
                      [] OTHER                 -> "done")
    /\ UNCHANGED <<store, written, cache, index, recovered, call, got, todo, drop, events>>

----------------------------------------------------------------------------
\* Writes: the inner store first, then the invalidation; a delete the other way round.

WriteOps == {"put", "upload", "copy", "rename"}

\* put_opts, the completion of a multipart upload, copy_opts, rename_opts.  A path
\* keeps naming one content: a copy is made under a path with the same one.
StartWrite(q, op, p, t) ==
    /\ IF op \in {"put", "upload"} THEN p = t ELSE Content[p] = Content[t]
    /\ Begin(q, "innerwrite", [op |-> op, from |-> p, to |-> t, req |-> All])
    /\ UNCHANGED <<store, written, cache, index, recovered, todo, drop>>

\* The inner write succeeds: the paths to invalidate are the ones it changed.
InnerWrite(q) ==
    /\ pc[q] = "innerwrite"
    /\ call[q].op \in {"copy", "rename"} => call[q].from \in store
    /\ store' = (store \ IF call[q].op = "rename" THEN {call[q].from} ELSE {}) \cup {call[q].to}
    /\ written' = written \cup {call[q].to}
    /\ got' = [got EXCEPT ![q] = Word("ok")]
    /\ todo' = [todo EXCEPT ![q] = IF call[q].op = "rename"
                                   THEN <<call[q].from, call[q].to>> ELSE <<call[q].to>>]
    /\ Goto(q, "take")
    /\ UNCHANGED <<cache, index, recovered, call, drop, events>>

\* The inner store reports an error; a put may have stored the object all the same.
InnerWriteFails(q) ==
    /\ pc[q] = "innerwrite"
    /\ \E stored \in {{}, {call[q].to}} :
         /\ stored = {} \/ call[q].op \in {"put", "upload"}
         /\ store' = store \cup stored
         /\ written' = written \cup stored
    /\ Answer(q, Word("failed"))
    /\ UNCHANGED <<cache, index, recovered, call, todo, drop, events>>

\* delete_stream: each location is invalidated as it passes to the inner store.
StartDelete(q, p) ==
    /\ Begin(q, "take", [op |-> "delete", from |-> p, to |-> p, req |-> All])
    /\ todo' = [todo EXCEPT ![q] = <<p>>]
    /\ UNCHANGED <<store, written, cache, index, recovered, drop>>

InnerDelete(q) ==
    /\ pc[q] = "innerdelete"
    /\ \/ store' = store \ {call[q].from} /\ Answer(q, Word("ok"))
       \/ store' = store /\ Answer(q, Word("failed"))
    /\ UNCHANGED <<written, cache, index, recovered, call, todo, drop, events>>

Return(q) ==
    /\ pc[q] = "done"
    /\ Goto(q, "idle")
    /\ call' = [call EXCEPT ![q] = NoCall]
    /\ got' = [got EXCEPT ![q] = NoRead]
    /\ UNCHANGED <<store, written, cache, index, recovered, todo, drop, events>>

----------------------------------------------------------------------------
\* The server stops and starts: calls end, the key index is empty, and a hybrid
\* cache finds some of its entries on disk again.
Restart ==
    /\ events < MaxEvents
    /\ events' = events + 1
    /\ \E kept \in SUBSET (IF Hybrid THEN Cached ELSE {}) :
         /\ cache' = [k \in Keys |-> IF k \in kept THEN cache[k] ELSE NoRead]
         /\ recovered' = kept
    /\ index' = [p \in Paths |-> {}]
    /\ pc' = [q \in Procs |-> "idle"]
    /\ call' = [q \in Procs |-> NoCall]
    /\ got' = [q \in Procs |-> NoRead]
    /\ todo' = [q \in Procs |-> <<>>]
    /\ drop' = [q \in Procs |-> {}]
    /\ UNCHANGED <<store, written>>

Step(q) ==
    \/ \E p \in Paths, r \in Requests : StartGet(q, p, r)
    \/ GetUncached(q) \/ LookupKey(q) \/ LookupFull(q) \/ InnerGet(q)
    \/ CacheInsert(q) \/ IndexInsert(q)
    \/ TakeKeys(q) \/ DropKey(q) \/ KeysDropped(q)
    \/ \E op \in WriteOps, p, t \in Paths : StartWrite(q, op, p, t)
    \/ InnerWrite(q) \/ InnerWriteFails(q)
    \/ \E p \in Paths : StartDelete(q, p)
    \/ InnerDelete(q) \/ Return(q)

Next == (\E q \in Procs : Step(q)) \/ Restart

Spec == Init /\ [][Next]_vars

----------------------------------------------------------------------------
Labels == {"idle", "uncached", "key", "full", "inner", "insert", "index", "take",
           "drop", "innerwrite", "innerdelete", "done"}

\* Where a call stands before the inner store or a cached read decided its reply.
Undecided(q) ==
    \/ pc[q] \in {"uncached", "key", "full", "inner", "innerwrite", "innerdelete"}
    \/ call[q].op = "delete" /\ pc[q] \in {"take", "drop"}

\* The label, the call, the reply and the invalidation list of a caller fit together.
CallOK(q) ==
    /\ (pc[q] = "idle") <=> (call[q].op = "none")
    /\ (pc[q] = "idle") <=> (got[q].is = "none")
    /\ Undecided(q) <=> (got[q].is = "pending")
    /\ got[q].is \in {"none", "pending"} => got[q] = Word(got[q].is)
    /\ pc[q] \in {"uncached", "key", "full", "inner"} => call[q].op = "get"
    /\ pc[q] \in {"insert", "index"} => call[q].op \in {"get", "put"}
    /\ pc[q] = "insert" /\ call[q].op = "get" => got[q].is = "read"
    /\ pc[q] = "innerwrite" => call[q].op \in WriteOps
    /\ pc[q] = "innerdelete" => call[q].op = "delete"
    /\ pc[q] \in {"take", "drop"} => call[q].op \notin {"none", "get"}
    /\ call[q].op \in {"get", "put", "upload"} => call[q].from = call[q].to
    /\ call[q].op = "put" => call[q].req = All
    /\ pc[q] = "insert" /\ call[q].op = "put" => call[q].to \in written
    /\ pc[q] \in {"take", "drop"} /\ call[q].op = "put" => call[q].to \in written
    /\ pc[q] = "take" => todo[q] # <<>>
    /\ todo[q] # <<>> => pc[q] \in {"take", "drop"}
    /\ drop[q] # {} => pc[q] = "drop"

\* The state has its types, and every caller's fields fit together.
TypeOK ==
    /\ store \subseteq written /\ written \subseteq Paths
    /\ DOMAIN cache = Keys
    /\ index \in [Paths -> SUBSET Requests]
    /\ recovered \subseteq Keys
    /\ pc \in [Procs -> Labels]
    /\ call \in [Procs -> Calls]
    /\ DOMAIN got = Procs
    /\ todo \in [Procs -> Seq(Paths)]
    /\ drop \in [Procs -> SUBSET Keys]
    /\ events \in Nat
    /\ \A q \in Procs : CallOK(q)

\* Every cached read is the exact answer to its request for an object that was
\* written: whatever order fills, slices, puts and restarts took, no key ever holds
\* another range's or another object's bytes.
CachedReadsAreExact ==
    \A p \in Paths, r \in Requests :
        cache[<<p, r>>] # NoRead => /\ p \in written
                                   /\ cache[<<p, r>>] \in Readings(p, r)

\* The read a caller returns, and may be about to cache, is exact too.
ReadInHandIsExact(q) ==
    got[q].is = "read" =>
        /\ call[q].op = "get" /\ call[q].from \in written
        /\ got[q] \in Readings(call[q].from, call[q].req)

\* A key an invalidation of its path will find.
WithinReach(p, r) ==
    \/ r \in index[p]
    \/ <<p, r>> \in recovered
    \/ \E q \in Procs : pc[q] = "index" /\ InsertKey(q) = <<p, r>>
    \/ \E q \in Procs : <<p, r>> \in drop[q]

\* An invalidation reaches every entry of its path: a cached key is in the key index,
\* or its insert has yet to add it there, or an invalidation has yet to drop it.  Only
\* entries that a restart found on disk, before any call inserted them again, escape:
\* keys_by_path is not persisted.
InvalidationReachesEveryEntry ==
    \A p \in Paths, r \in Requests : cache[<<p, r>>] # NoRead => WithinReach(p, r)

\* The cached store behaves like a store without a cache: every call takes effect
\* once, and a read answers with the object's own bytes or with a failure.  One reply
\* differs, and Readings allows it: no bytes, not an error, for a range that is empty.
Store == INSTANCE ObjectStore WITH present <- store, reply <- got

BehavesLikeTheStore == Store!Spec
=============================================================================
