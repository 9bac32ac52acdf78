------------------------- MODULE ObjectCacheProofs -------------------------
(***************************************************************************)
(* The cached object store implements the store without a cache, and its   *)
(* invalidations reach every entry, for any callers, paths, contents,      *)
(* requests and capacity, with or without a disk tier.                     *)
(***************************************************************************)
EXTENDS ObjectCache, SequenceTheorems, TLAPS

----------------------------------------------------------------------------
\* Ranges and reads.

\* requested_range never cuts another range than the store would serve, empty ones apart.
LEMMA RangesAgree ==
  ASSUME NEW size \in Nat, NEW r \in Requests, NEW g \in RequestedRange(size, r)
  PROVE  g \in AsRange(size, r) \/ g[1] = g[2]
<1>1. r \in [kind : {"all", "bounded", "offset", "suffix"}, a : Nat, b : Nat]
      BY RequestsAssumption
<1>2. CASE r.kind = "all"
      BY <1>1, <1>2 DEF RequestedRange, AsRange
<1>3. CASE r.kind = "bounded"
      BY <1>1, <1>3 DEF RequestedRange, AsRange
<1>4. CASE r.kind = "offset"
      BY <1>1, <1>4 DEF RequestedRange, AsRange
<1>5. CASE r.kind = "suffix"
      BY <1>1, <1>5 DEF RequestedRange, AsRange
<1> QED
      BY <1>1, <1>2, <1>3, <1>4, <1>5

LEMMA FullReadFields ==
  ASSUME NEW p \in Paths
  PROVE  /\ Content[p] \in Seq(Nat) /\ Len(Content[p]) \in Nat
         /\ FullRead(p) = [is |-> "read", bytes |-> Content[p], size |-> Len(Content[p]),
                           start |-> 0, end |-> Len(Content[p])]
<1>1. Content[p] \in Seq(Nat) /\ Len(Content[p]) \in Nat
      BY ContentAssumption
<1>2. SubSeq(Content[p], 1, Len(Content[p])) = Content[p]
      BY <1>1, SubSeqFull
<1>3. <<0, Len(Content[p])>>[1] + 1 = 1 /\ <<0, Len(Content[p])>>[1] = 0
      OBVIOUS
<1>4. <<0, Len(Content[p])>>[2] = Len(Content[p])
      OBVIOUS
<1> QED
      BY <1>1, <1>2, <1>3, <1>4, Zenon DEF FullRead, ReadOf

\* The reply to a request for the whole object is the whole object.
LEMMA ReadingsOfAll ==
  ASSUME NEW p \in Paths
  PROVE  Readings(p, All) = {FullRead(p)}
<1>1. Len(Content[p]) \in Nat
      BY FullReadFields
<1>2. AsRange(Len(Content[p]), All) = {<<0, Len(Content[p])>>}
      BY DEF AsRange, All
<1>3. RequestedRange(Len(Content[p]), All) = {<<0, Len(Content[p])>>}
      BY DEF RequestedRange, All
<1> QED
      BY <1>2, <1>3 DEF Readings, FullRead

LEMMA ReadingsAreReads ==
  ASSUME NEW p, NEW r, NEW read \in Readings(p, r)
  PROVE  read.is = "read"
BY DEF Readings, ReadOf

\* A range cut out of the cached object is an answer the store could give.
LEMMA SlicesAreReadings ==
  ASSUME NEW p \in Paths, NEW r \in Requests, NEW read \in Sliced(FullRead(p), r)
  PROVE  read \in Readings(p, r)
<1>1. PICK g \in RequestedRange(Len(Content[p]), r) : read = ReadOf(Content[p], g)
      BY FullReadFields DEF Sliced
<1>2. g \in AsRange(Len(Content[p]), r) \/ g[1] = g[2]
      BY FullReadFields, RangesAgree
<1> QED
      BY <1>1, <1>2 DEF Readings

LEMMA InnerReadsAreReadings ==
  ASSUME NEW p \in Paths, NEW r \in Requests, NEW answer \in InnerAnswers(p, r)
  PROVE  /\ answer.is \in {"read", "failed", "missing"}
         /\ answer.is = "read" => p \in store /\ answer \in Readings(p, r)
         /\ answer.is # "read" => answer \in {Word("failed"), Word("missing")}
         /\ answer = Word("missing") => p \notin store
BY DEF InnerAnswers, Readings, ReadOf, Word

----------------------------------------------------------------------------
\* The inductive invariant: types, and exact reads in the cache and in hand.

CallerOK(q) == CallOK(q) /\ ReadInHandIsExact(q)

Exact ==
    /\ TypeOK
    /\ CachedReadsAreExact
    /\ \A q \in Procs : ReadInHandIsExact(q)

\* A step of one caller leaves the others' fields alone, and written only grows.
LEMMA OthersKeepTheirCalls ==
  ASSUME NEW o \in Procs, CallerOK(o), written \subseteq written',
         pc'[o] = pc[o], call'[o] = call[o], got'[o] = got[o],
         todo'[o] = todo[o], drop'[o] = drop[o]
  PROVE  CallerOK(o)'
BY DEF CallerOK, CallOK, Undecided, ReadInHandIsExact

\* The cache stays exact when no entry changes but those that are dropped.
LEMMA FewerEntriesStayExact ==
  ASSUME CachedReadsAreExact, written \subseteq written',
         \A k \in Keys : cache'[k] \in {NoRead, cache[k]}
  PROVE  CachedReadsAreExact'
BY DEF CachedReadsAreExact, Keys

LEMMA NoCallType == NoCall \in Calls /\ NoCall.op = "none"
BY PathsAssumption, AllAssumption DEF NoCall, Calls

LEMMA ExactInit == Init => Exact
<1> SUFFICES ASSUME Init PROVE Exact
    OBVIOUS
<1>1. TypeOK
      BY NoCallType DEF Init, TypeOK, Keys, Labels, CallOK, Undecided, NoRead, Word, WriteOps
<1>2. CachedReadsAreExact
      BY DEF Init, CachedReadsAreExact, Keys
<1>3. \A q \in Procs : ReadInHandIsExact(q)
      BY DEF Init, ReadInHandIsExact, NoRead, Word
<1> QED
      BY <1>1, <1>2, <1>3 DEF Exact

\* One step per action; under it the caller that moved, then the others, then the cache.
LEMMA ExactStep == Exact /\ [Next]_vars => Exact'
<1> SUFFICES ASSUME Exact, [Next]_vars PROVE Exact'
    OBVIOUS
<1> USE AllAssumption
<1> DEFINE Others(q) == \A o \in Procs \ {q} : CallerOK(o)'
<1>c. TypeOK /\ CachedReadsAreExact /\ \A o \in Procs : CallerOK(o)
      BY DEF Exact, TypeOK, CallerOK
<1>q. ASSUME NEW q \in Procs
      PROVE  /\ call[q] \in Calls /\ call[q].from \in Paths /\ call[q].to \in Paths
             /\ call[q].req \in Requests
             /\ pc[q] \in Labels /\ todo[q] \in Seq(Paths) /\ drop[q] \subseteq Keys
             /\ CallOK(q) /\ ReadInHandIsExact(q)
      BY <1>c DEF TypeOK, Calls, CallerOK
<1>1. ASSUME NEW q \in Procs, NEW p \in Paths, NEW r \in Requests, StartGet(q, p, r)
      PROVE  Exact'
  <2>1. PICK label \in {"key", "uncached"} :
            Begin(q, label, [op |-> "get", from |-> p, to |-> p, req |-> r])
        BY <1>1 DEF StartGet
  <2>2. CallerOK(q)'
        BY <1>1, <1>c, <2>1
        DEF StartGet, Begin, Goto, TypeOK, CallerOK, CallOK, Undecided, ReadInHandIsExact, Word
  <2>3. Others(q)
        BY <1>1, <1>c, <2>1, OthersKeepTheirCalls DEF StartGet, Begin, Goto, TypeOK
  <2>4. CachedReadsAreExact'
        BY <1>1, <1>c, FewerEntriesStayExact DEF StartGet
  <2>5. TypeOK'
        BY <1>1, <1>c, <2>1, <2>2, <2>3 DEF StartGet, Begin, Goto, TypeOK, Calls, Labels, CallerOK
  <2> QED
        BY <2>2, <2>3, <2>4, <2>5 DEF Exact, CallerOK
<1>2. ASSUME NEW q \in Procs, GetUncached(q) PROVE Exact'
  <2>1. PICK answer \in InnerAnswers(call[q].from, call[q].req) : Answer(q, answer)
        BY <1>2 DEF GetUncached
  <2>a. /\ answer.is \in {"read", "failed", "missing"}
        /\ answer.is = "read" => /\ call[q].from \in written
                                 /\ answer \in Readings(call[q].from, call[q].req)
    <3>1. store \subseteq written /\ call[q].from \in Paths /\ call[q].req \in Requests
          BY <1>c, <1>q DEF TypeOK
    <3> QED
          BY <3>1, InnerReadsAreReadings
  <2>2. CallerOK(q)'
        BY <1>2, <1>c, <1>q, <2>1, <2>a
        DEF GetUncached, Answer, Goto, TypeOK, CallerOK, CallOK, Undecided, ReadInHandIsExact
  <2>3. Others(q)
        BY <1>2, <1>c, <2>1, OthersKeepTheirCalls DEF GetUncached, Answer, Goto, TypeOK
  <2>4. CachedReadsAreExact'
        BY <1>2, <1>c, FewerEntriesStayExact DEF GetUncached
  <2>5. TypeOK'
        BY <1>2, <1>c, <2>1, <2>2, <2>3 DEF GetUncached, Answer, Goto, TypeOK, Labels, CallerOK
  <2> QED
        BY <2>2, <2>3, <2>4, <2>5 DEF Exact, CallerOK
<1>3. ASSUME NEW q \in Procs, LookupKey(q) PROVE Exact'
  <2> DEFINE read == cache[CacheKey(call[q].from, call[q].req)]
  <2>a. read # NoRead => /\ call[q].from \in written /\ read.is = "read"
                         /\ read \in Readings(call[q].from, call[q].req)
        BY <1>c, <1>q, ReadingsAreReads DEF CachedReadsAreExact, CacheKey
  <2>1. \/ read # NoRead /\ Answer(q, read)
        \/ Goto(q, IF call[q].req = All THEN "inner" ELSE "full") /\ UNCHANGED got
        BY <1>3 DEF LookupKey
  <2>2. CallerOK(q)'
        BY <1>3, <1>c, <1>q, <2>1, <2>a
        DEF LookupKey, Answer, Goto, TypeOK, CallerOK, CallOK, Undecided, ReadInHandIsExact
  <2>3. Others(q)
        BY <1>3, <1>c, <2>1, OthersKeepTheirCalls DEF LookupKey, Answer, Goto, TypeOK
  <2>4. CachedReadsAreExact'
        BY <1>3, <1>c, FewerEntriesStayExact DEF LookupKey
  <2>5. TypeOK'
        BY <1>3, <1>c, <2>1, <2>2, <2>3 DEF LookupKey, Answer, Goto, TypeOK, Labels, CallerOK
  <2> QED
        BY <2>2, <2>3, <2>4, <2>5 DEF Exact, CallerOK
<1>4. ASSUME NEW q \in Procs, LookupFull(q) PROVE Exact'
  <2> DEFINE full == cache[CacheKey(call[q].from, All)]
             cut  == IF full = NoRead THEN {} ELSE Sliced(full, call[q].req)
  <2>a. ASSUME NEW read \in cut
        PROVE  /\ call[q].from \in written /\ read.is = "read"
               /\ read \in Readings(call[q].from, call[q].req)
    <3>1. full # NoRead
          OBVIOUS
    <3>2. call[q].from \in written /\ full = FullRead(call[q].from)
          BY <1>c, <1>q, <3>1, ReadingsOfAll DEF CachedReadsAreExact, CacheKey
    <3> QED
          BY <1>q, <3>1, <3>2, SlicesAreReadings, ReadingsAreReads
  <2>1. \/ \E read \in cut : Goto(q, "insert") /\ got' = [got EXCEPT ![q] = read]
        \/ Goto(q, "inner") /\ UNCHANGED got
        BY <1>4 DEF LookupFull
  <2> HIDE DEF cut
  <2>2. CallerOK(q)'
        BY <1>4, <1>c, <1>q, <2>1, <2>a
        DEF LookupFull, Goto, TypeOK, CallerOK, CallOK, Undecided, ReadInHandIsExact
  <2>3. Others(q)
        BY <1>4, <1>c, <2>1, OthersKeepTheirCalls DEF LookupFull, Goto, TypeOK
  <2>4. CachedReadsAreExact'
        BY <1>4, <1>c, FewerEntriesStayExact DEF LookupFull
  <2>5. TypeOK'
        BY <1>4, <1>c, <2>1, <2>2, <2>3 DEF LookupFull, Goto, TypeOK, Labels, CallerOK
  <2> QED
        BY <2>2, <2>3, <2>4, <2>5 DEF Exact, CallerOK
<1>5. ASSUME NEW q \in Procs, InnerGet(q) PROVE Exact'
  <2>1. PICK answer \in InnerAnswers(call[q].from, call[q].req) :
            /\ got' = [got EXCEPT ![q] = answer]
            /\ Goto(q, IF answer.is = "read" THEN "insert" ELSE "done")
        BY <1>5 DEF InnerGet
  <2>a. /\ answer.is \in {"read", "failed", "missing"}
        /\ answer.is = "read" => /\ call[q].from \in written
                                 /\ answer \in Readings(call[q].from, call[q].req)
    <3>1. store \subseteq written /\ call[q].from \in Paths /\ call[q].req \in Requests
          BY <1>c, <1>q DEF TypeOK
    <3> QED
          BY <3>1, InnerReadsAreReadings
  <2>2. CallerOK(q)'
        BY <1>5, <1>c, <1>q, <2>1, <2>a
        DEF InnerGet, Goto, TypeOK, CallerOK, CallOK, Undecided, ReadInHandIsExact
  <2>3. Others(q)
        BY <1>5, <1>c, <2>1, OthersKeepTheirCalls DEF InnerGet, Goto, TypeOK
  <2>4. CachedReadsAreExact'
        BY <1>5, <1>c, FewerEntriesStayExact DEF InnerGet
  <2>5. TypeOK'
        BY <1>5, <1>c, <2>1, <2>2, <2>3 DEF InnerGet, Goto, TypeOK, Labels, CallerOK
  <2> QED
        BY <2>2, <2>3, <2>4, <2>5 DEF Exact, CallerOK
<1>6. ASSUME NEW q \in Procs, CacheInsert(q) PROVE Exact'
  <2>1. PICK victims \in SUBSET (Cached \ {InsertKey(q)}) :
            /\ cache' = [k \in Keys |->
                           IF k = InsertKey(q)
                           THEN IF call[q].op = "put" THEN FullRead(call[q].to) ELSE got[q]
                           ELSE IF k \in victims THEN NoRead ELSE cache[k]]
            /\ recovered' = recovered \ victims
        BY <1>6 DEF CacheInsert
  <2>2. CallerOK(q)'
        BY <1>6, <1>c, <1>q
        DEF CacheInsert, Goto, TypeOK, CallerOK, CallOK, Undecided, ReadInHandIsExact
  <2>3. Others(q)
        BY <1>6, <1>c, OthersKeepTheirCalls DEF CacheInsert, Goto, TypeOK
  <2>4. CachedReadsAreExact'
    <3>1. InsertKey(q) = <<call[q].to, call[q].req>>
          BY DEF InsertKey, CacheKey
    <3>2. CASE call[q].op = "put"
      <4>1. call[q].to \in written /\ FullRead(call[q].to) \in Readings(call[q].to, call[q].req)
            BY <1>6, <1>q, <3>2, ReadingsOfAll DEF CacheInsert, CallOK
      <4> QED
            BY <1>6, <1>c, <1>q, <2>1, <3>1, <3>2, <4>1 DEF CacheInsert, CachedReadsAreExact, Keys
    <3>3. CASE call[q].op # "put"
      <4>1. call[q].to \in written /\ got[q] \in Readings(call[q].to, call[q].req)
            BY <1>6, <1>q, <3>3 DEF CacheInsert, CallOK, ReadInHandIsExact
      <4> QED
            BY <1>6, <1>c, <1>q, <2>1, <3>1, <3>3, <4>1 DEF CacheInsert, CachedReadsAreExact, Keys
    <3> QED
          BY <3>2, <3>3
  <2>5. TypeOK'
        BY <1>6, <1>c, <2>1, <2>2, <2>3 DEF CacheInsert, Goto, TypeOK, Labels, CallerOK
  <2> QED
        BY <2>2, <2>3, <2>4, <2>5 DEF Exact, CallerOK
<1>7. ASSUME NEW q \in Procs, IndexInsert(q) PROVE Exact'
  <2>2. CallerOK(q)'
        BY <1>7, <1>c, <1>q
        DEF IndexInsert, Goto, TypeOK, CallerOK, CallOK, Undecided, ReadInHandIsExact
  <2>3. Others(q)
        BY <1>7, <1>c, OthersKeepTheirCalls DEF IndexInsert, Goto, TypeOK
  <2>4. CachedReadsAreExact'
        BY <1>7, <1>c, FewerEntriesStayExact DEF IndexInsert
  <2>5. TypeOK'
        BY <1>7, <1>c, <1>q, <2>2, <2>3
        DEF IndexInsert, InsertPath, Goto, TypeOK, Labels, CallerOK
  <2> QED
        BY <2>2, <2>3, <2>4, <2>5 DEF Exact, CallerOK
<1>8. ASSUME NEW q \in Procs, TakeKeys(q) PROVE Exact'
  <2>1. todo[q] # <<>> /\ Head(todo[q]) \in Paths /\ Tail(todo[q]) \in Seq(Paths)
        BY <1>8, <1>q DEF TakeKeys, CallOK
  <2>2. CallerOK(q)'
        BY <1>8, <1>c, <1>q, <2>1
        DEF TakeKeys, Goto, TypeOK, CallerOK, CallOK, Undecided, ReadInHandIsExact
  <2>3. Others(q)
        BY <1>8, <1>c, OthersKeepTheirCalls DEF TakeKeys, Goto, TypeOK
  <2>4. CachedReadsAreExact'
        BY <1>8, <1>c, FewerEntriesStayExact DEF TakeKeys
  <2>6. {CacheKey(Head(todo[q]), r) : r \in index[Head(todo[q])]} \subseteq Keys
        BY <1>c, <2>1 DEF TypeOK, Keys, CacheKey
  <2>5. TypeOK'
        BY <1>8, <1>c, <2>1, <2>2, <2>3, <2>6 DEF TakeKeys, Goto, TypeOK, Labels, CallerOK
  <2> QED
        BY <2>2, <2>3, <2>4, <2>5 DEF Exact, CallerOK
<1>9. ASSUME NEW q \in Procs, DropKey(q) PROVE Exact'
  <2>1. PICK k \in drop[q] : /\ cache' = [cache EXCEPT ![k] = NoRead]
                             /\ drop' = [drop EXCEPT ![q] = @ \ {k}]
        BY <1>9 DEF DropKey
  <2>2. CallerOK(q)'
        BY <1>9, <1>c, <1>q, <2>1
        DEF DropKey, TypeOK, CallerOK, CallOK, Undecided, ReadInHandIsExact
  <2>3. Others(q)
        BY <1>9, <1>c, <2>1, OthersKeepTheirCalls DEF DropKey, TypeOK
  <2>4. CachedReadsAreExact'
        BY <1>9, <1>c, <2>1, FewerEntriesStayExact DEF DropKey, TypeOK
  <2>5. TypeOK'
        BY <1>9, <1>c, <1>q, <2>1, <2>2, <2>3 DEF DropKey, TypeOK, CallerOK
  <2> QED
        BY <2>2, <2>3, <2>4, <2>5 DEF Exact, CallerOK
<1>10. ASSUME NEW q \in Procs, KeysDropped(q) PROVE Exact'
  <2>1. PICK label \in {"take", "innerdelete", "insert", "done"} :
            /\ Goto(q, label)
            /\ label = "take" <=> todo[q] # <<>>
            /\ label = "innerdelete" => call[q].op = "delete"
            /\ label = "insert" => call[q].op = "put"
            /\ label = "done" => call[q].op # "delete"
    <3>1. CASE todo[q] # <<>>
          BY <1>10, <3>1 DEF KeysDropped, Goto
    <3>2. CASE todo[q] = <<>> /\ call[q].op = "delete"
          BY <1>10, <3>2 DEF KeysDropped, Goto
    <3>3. CASE todo[q] = <<>> /\ call[q].op = "put"
          BY <1>10, <3>3 DEF KeysDropped, Goto
    <3>4. CASE todo[q] = <<>> /\ call[q].op \notin {"delete", "put"}
          BY <1>10, <3>4 DEF KeysDropped, Goto
    <3> QED
          BY <3>1, <3>2, <3>3, <3>4
  <2>2. CallerOK(q)'
        BY <1>10, <1>c, <1>q, <2>1
        DEF KeysDropped, Goto, TypeOK, CallerOK, CallOK, Undecided, ReadInHandIsExact
  <2>3. Others(q)
        BY <1>10, <1>c, <2>1, OthersKeepTheirCalls DEF KeysDropped, Goto, TypeOK
  <2>4. CachedReadsAreExact'
        BY <1>10, <1>c, FewerEntriesStayExact DEF KeysDropped
  <2>5. TypeOK'
        BY <1>10, <1>c, <2>1, <2>2, <2>3 DEF KeysDropped, Goto, TypeOK, Labels, CallerOK
  <2> QED
        BY <2>2, <2>3, <2>4, <2>5 DEF Exact, CallerOK
<1>11. ASSUME NEW q \in Procs, NEW op \in WriteOps, NEW p \in Paths, NEW t \in Paths,
              StartWrite(q, op, p, t)
       PROVE  Exact'
  <2>1. /\ Begin(q, "innerwrite", [op |-> op, from |-> p, to |-> t, req |-> All])
        /\ op \in {"put", "upload"} => p = t
        BY <1>11 DEF StartWrite
  <2>a. /\ pc'[q] = "innerwrite" /\ got'[q] = Word("pending")
        /\ call'[q] = [op |-> op, from |-> p, to |-> t, req |-> All]
        /\ todo'[q] = <<>> /\ drop'[q] = {}
        BY <1>11, <1>c, <1>q, <2>1 DEF StartWrite, Begin, Goto, TypeOK, CallOK
  <2>2. CallerOK(q)'
        BY <2>1, <2>a DEF CallerOK, CallOK, Undecided, ReadInHandIsExact, Word, WriteOps
  <2>3. Others(q)
        BY <1>11, <1>c, <2>1, OthersKeepTheirCalls DEF StartWrite, Begin, Goto, TypeOK
  <2>4. CachedReadsAreExact'
        BY <1>11, <1>c, FewerEntriesStayExact DEF StartWrite
  <2>5. TypeOK'
        BY <1>11, <1>c, <2>1, <2>2, <2>3
        DEF StartWrite, Begin, Goto, TypeOK, Calls, Labels, CallerOK, WriteOps
  <2> QED
        BY <2>2, <2>3, <2>4, <2>5 DEF Exact, CallerOK
<1>12. ASSUME NEW q \in Procs, InnerWrite(q) PROVE Exact'
  <2>1. /\ written' = written \cup {call[q].to} /\ store' \subseteq store \cup {call[q].to}
        /\ todo'[q] \in Seq(Paths) /\ todo'[q] # <<>>
        BY <1>12, <1>c, <1>q DEF InnerWrite, TypeOK
  <2>2. CallerOK(q)'
        BY <1>12, <1>c, <1>q, <2>1
        DEF InnerWrite, Goto, TypeOK, CallerOK, CallOK, Undecided, ReadInHandIsExact,
            Word, WriteOps
  <2>3. Others(q)
        BY <1>12, <1>c, OthersKeepTheirCalls DEF InnerWrite, Goto, TypeOK
  <2>4. CachedReadsAreExact'
        BY <1>12, <1>c, FewerEntriesStayExact DEF InnerWrite
  <2>5. TypeOK'
        BY <1>12, <1>c, <1>q, <2>1, <2>2, <2>3 DEF InnerWrite, Goto, TypeOK, Labels, CallerOK
  <2> QED
        BY <2>2, <2>3, <2>4, <2>5 DEF Exact, CallerOK
<1>13. ASSUME NEW q \in Procs, InnerWriteFails(q) PROVE Exact'
  <2>1. PICK stored \in {{}, {call[q].to}} : store' = store \cup stored
                                            /\ written' = written \cup stored
        BY <1>13 DEF InnerWriteFails
  <2>2. CallerOK(q)'
        BY <1>13, <1>c, <1>q
        DEF InnerWriteFails, Answer, Goto, TypeOK, CallerOK, CallOK, Undecided,
            ReadInHandIsExact, Word
  <2>3. Others(q)
        BY <1>13, <1>c, <2>1, OthersKeepTheirCalls DEF InnerWriteFails, Answer, Goto, TypeOK
  <2>4. CachedReadsAreExact'
        BY <1>13, <1>c, <2>1, FewerEntriesStayExact DEF InnerWriteFails
  <2>5. TypeOK'
        BY <1>13, <1>c, <1>q, <2>1, <2>2, <2>3
        DEF InnerWriteFails, Answer, Goto, TypeOK, Labels, CallerOK
  <2> QED
        BY <2>2, <2>3, <2>4, <2>5 DEF Exact, CallerOK
<1>14. ASSUME NEW q \in Procs, NEW p \in Paths, StartDelete(q, p) PROVE Exact'
  <2>1. Begin(q, "take", [op |-> "delete", from |-> p, to |-> p, req |-> All])
        BY <1>14 DEF StartDelete
  <2>a. /\ pc'[q] = "take" /\ got'[q] = Word("pending")
        /\ call'[q] = [op |-> "delete", from |-> p, to |-> p, req |-> All]
        /\ todo'[q] = <<p>> /\ drop'[q] = {}
        BY <1>14, <1>c, <1>q, <2>1 DEF StartDelete, Begin, Goto, TypeOK, CallOK
  <2>2. CallerOK(q)'
        BY <2>a DEF CallerOK, CallOK, Undecided, ReadInHandIsExact, Word
  <2>3. Others(q)
        BY <1>14, <1>c, <2>1, OthersKeepTheirCalls DEF StartDelete, Begin, Goto, TypeOK
  <2>4. CachedReadsAreExact'
        BY <1>14, <1>c, FewerEntriesStayExact DEF StartDelete
  <2>5. TypeOK'
        BY <1>14, <1>c, <2>1, <2>2, <2>3
        DEF StartDelete, Begin, Goto, TypeOK, Calls, Labels, CallerOK
  <2> QED
        BY <2>2, <2>3, <2>4, <2>5 DEF Exact, CallerOK
<1>15. ASSUME NEW q \in Procs, InnerDelete(q) PROVE Exact'
  <2>1. PICK w \in {"ok", "failed"} : Answer(q, Word(w)) /\ store' \subseteq store
        BY <1>15 DEF InnerDelete
  <2>2. CallerOK(q)'
        BY <1>15, <1>c, <1>q, <2>1
        DEF InnerDelete, Answer, Goto, TypeOK, CallerOK, CallOK, Undecided, ReadInHandIsExact, Word
  <2>3. Others(q)
        BY <1>15, <1>c, <2>1, OthersKeepTheirCalls DEF InnerDelete, Answer, Goto, TypeOK
  <2>4. CachedReadsAreExact'
        BY <1>15, <1>c, FewerEntriesStayExact DEF InnerDelete
  <2>5. TypeOK'
        BY <1>15, <1>c, <2>1, <2>2, <2>3 DEF InnerDelete, Answer, Goto, TypeOK, Labels, CallerOK
  <2> QED
        BY <2>2, <2>3, <2>4, <2>5 DEF Exact, CallerOK
<1>16. ASSUME NEW q \in Procs, Return(q) PROVE Exact'
  <2>a. /\ pc'[q] = "idle" /\ got'[q] = Word("none") /\ call'[q] = NoCall
        /\ todo'[q] = <<>> /\ drop'[q] = {}
        BY <1>16, <1>c, <1>q DEF Return, Goto, TypeOK, CallOK, NoRead
  <2>2. CallerOK(q)'
        BY <2>a, NoCallType DEF CallerOK, CallOK, Undecided, ReadInHandIsExact, Word
  <2>3. Others(q)
        BY <1>16, <1>c, OthersKeepTheirCalls DEF Return, Goto, TypeOK
  <2>4. CachedReadsAreExact'
        BY <1>16, <1>c, FewerEntriesStayExact DEF Return
  <2>5. TypeOK'
        BY <1>16, <1>c, <2>2, <2>3, NoCallType DEF Return, Goto, TypeOK, Labels, CallerOK
  <2> QED
        BY <2>2, <2>3, <2>4, <2>5 DEF Exact, CallerOK
<1>17. ASSUME Restart PROVE Exact'
  <2>1. PICK kept \in SUBSET (IF Hybrid THEN Cached ELSE {}) :
            /\ cache' = [k \in Keys |-> IF k \in kept THEN cache[k] ELSE NoRead]
            /\ recovered' = kept
        BY <1>17 DEF Restart
  <2>2. \A q \in Procs : CallerOK(q)'
        BY <1>17, NoCallType
        DEF Restart, CallerOK, CallOK, Undecided, ReadInHandIsExact, NoRead, Word, WriteOps
  <2>4. CachedReadsAreExact'
        BY <1>17, <1>c, <2>1, FewerEntriesStayExact DEF Restart
  <2>5. TypeOK'
        BY <1>17, <1>c, <2>1, <2>2, NoCallType DEF Restart, TypeOK, Labels, CallerOK, Cached
  <2> QED
        BY <2>2, <2>4, <2>5 DEF Exact, CallerOK
<1>18. CASE UNCHANGED vars
      BY <1>18, <1>c DEF vars, procVars, Exact, TypeOK, CachedReadsAreExact, CallerOK, CallOK,
                         Undecided, ReadInHandIsExact
<1> QED
      BY <1>1, <1>2, <1>3, <1>4, <1>5, <1>6, <1>7, <1>8, <1>9, <1>10, <1>11, <1>12, <1>13,
         <1>14, <1>15, <1>16, <1>17, <1>18 DEF Next, Step

\* Types and exact reads are invariants of the cached store: no key ever holds the
\* bytes of another range or another object (get_opts, put_opts, insert, slice).
THEOREM CacheIsExact == Spec => [](TypeOK /\ CachedReadsAreExact)
<1>1. Init => Exact
      BY ExactInit
<1>2. Exact /\ [Next]_vars => Exact'
      BY ExactStep
<1>3. Exact => TypeOK /\ CachedReadsAreExact
      BY DEF Exact
<1> QED
      BY <1>1, <1>2, <1>3, PTL DEF Spec

\* The calls, the cached bytes and the key index keep their types.
THEOREM TypeSafety == Spec => []TypeOK
BY CacheIsExact, PTL

----------------------------------------------------------------------------
\* Invalidation.

\* A step that leaves the cache, the index and the drop lists alone, and no insert
\* half done, keeps every entry within reach.
LEMMA ReachKept ==
  ASSUME InvalidationReachesEveryEntry,
         UNCHANGED <<cache, index, recovered, drop>>,
         \A q \in Procs : pc[q] = "index" => pc'[q] = "index" /\ call'[q] = call[q]
  PROVE  InvalidationReachesEveryEntry'
<1>1. ASSUME NEW p \in Paths, NEW r \in Requests, WithinReach(p, r)
      PROVE  WithinReach(p, r)'
      BY <1>1 DEF WithinReach, InsertKey, CacheKey
<1> QED
      BY <1>1 DEF InvalidationReachesEveryEntry

LEMMA ReachStep ==
  TypeOK /\ InvalidationReachesEveryEntry /\ [Next]_vars => InvalidationReachesEveryEntry'
<1> SUFFICES ASSUME TypeOK, InvalidationReachesEveryEntry, [Next]_vars
             PROVE  InvalidationReachesEveryEntry'
    OBVIOUS
<1> USE DEF Goto, Answer, Begin
<1>1. ASSUME NEW q \in Procs,
             \/ \E p \in Paths, r \in Requests : StartGet(q, p, r)
             \/ GetUncached(q) \/ LookupKey(q) \/ LookupFull(q) \/ InnerGet(q)
             \/ KeysDropped(q)
             \/ \E op \in WriteOps, p, t \in Paths : StartWrite(q, op, p, t)
             \/ InnerWrite(q) \/ InnerWriteFails(q)
             \/ \E p \in Paths : StartDelete(q, p)
             \/ InnerDelete(q) \/ Return(q)
      PROVE  InvalidationReachesEveryEntry'
  <2>1. /\ UNCHANGED <<cache, index, recovered, drop>>
        /\ pc[q] # "index"
        /\ \A o \in Procs \ {q} : pc'[o] = pc[o] /\ call'[o] = call[o]
        BY <1>1 DEF TypeOK, StartGet, GetUncached, LookupKey, LookupFull, InnerGet, KeysDropped,
                    StartWrite, InnerWrite, InnerWriteFails, StartDelete, InnerDelete, Return
  <2> QED
        BY <2>1, ReachKept
<1>2. ASSUME NEW q \in Procs, CacheInsert(q) PROVE InvalidationReachesEveryEntry'
  <2>1. PICK victims \in SUBSET (Cached \ {InsertKey(q)}) :
            /\ \A k \in Keys : k # InsertKey(q) => cache'[k] = IF k \in victims THEN NoRead ELSE cache[k]
            /\ recovered' = recovered \ victims
        BY <1>2 DEF CacheInsert
  <2>2. /\ pc[q] = "insert" /\ pc'[q] = "index" /\ UNCHANGED <<index, call, drop>>
        /\ \A o \in Procs \ {q} : pc'[o] = pc[o]
        BY <1>2 DEF CacheInsert, TypeOK
  <2>3. ASSUME NEW p \in Paths, NEW r \in Requests, cache'[<<p, r>>] # NoRead
        PROVE  WithinReach(p, r)'
    <3>1. CASE <<p, r>> = InsertKey(q)
          BY <2>2, <3>1 DEF WithinReach, InsertKey, CacheKey
    <3>2. CASE <<p, r>> # InsertKey(q)
      <4>1. <<p, r>> \in Keys /\ <<p, r>> \notin victims /\ cache[<<p, r>>] # NoRead
            BY <2>1, <2>3, <3>2 DEF Keys
      <4> QED
            BY <2>1, <2>2, <4>1 DEF InvalidationReachesEveryEntry, WithinReach, InsertKey, CacheKey
    <3> QED
          BY <3>1, <3>2
  <2> QED
        BY <2>3 DEF InvalidationReachesEveryEntry
<1>3. ASSUME NEW q \in Procs, IndexInsert(q) PROVE InvalidationReachesEveryEntry'
  <2>1. /\ index' = [index EXCEPT ![call[q].to] = @ \cup {call[q].req}]
        /\ recovered' = recovered \ {<<call[q].to, call[q].req>>}
        /\ UNCHANGED <<cache, call, drop>>
        /\ \A o \in Procs \ {q} : pc'[o] = pc[o]
        BY <1>3 DEF IndexInsert, InsertPath, InsertKey, CacheKey, TypeOK
  <2>2. call[q].to \in Paths /\ call[q].req \in Requests
        BY DEF TypeOK, Calls
  <2>3. ASSUME NEW p \in Paths, NEW r \in Requests, WithinReach(p, r)
        PROVE  WithinReach(p, r)'
    <3>1. CASE p = call[q].to /\ r = call[q].req
          BY <2>1, <2>2, <3>1 DEF WithinReach, TypeOK
    <3>2. CASE ~(p = call[q].to /\ r = call[q].req)
          BY <2>1, <2>2, <2>3, <3>2 DEF WithinReach, InsertKey, CacheKey, TypeOK
    <3> QED
          BY <3>1, <3>2
  <2> QED
        BY <2>1, <2>3 DEF InvalidationReachesEveryEntry
<1>4. ASSUME NEW q \in Procs, TakeKeys(q) PROVE InvalidationReachesEveryEntry'
  <2> DEFINE taken == Head(todo[q])
  <2>1. /\ taken \in Paths /\ drop[q] = {}
        /\ drop' = [drop EXCEPT ![q] = {<<taken, r>> : r \in index[taken]}]
        /\ index' = [index EXCEPT ![taken] = {}]
        /\ UNCHANGED <<cache, call, recovered>>
        /\ \A o \in Procs : pc[o] = "index" => pc'[o] = "index"
        BY <1>4 DEF TakeKeys, CacheKey, TypeOK, CallOK
  <2> HIDE DEF taken
  <2>2. ASSUME NEW p \in Paths, NEW r \in Requests, cache[<<p, r>>] # NoRead
        PROVE  WithinReach(p, r)'
    <3>1. CASE r \in index[p]
          BY <2>1, <3>1 DEF WithinReach, TypeOK
    <3>2. CASE r \notin index[p]
          BY <2>1, <2>2, <3>2
          DEF InvalidationReachesEveryEntry, WithinReach, InsertKey, CacheKey, TypeOK
    <3> QED
          BY <3>1, <3>2
  <2> QED
        BY <2>1, <2>2 DEF InvalidationReachesEveryEntry
<1>5. ASSUME NEW q \in Procs, DropKey(q) PROVE InvalidationReachesEveryEntry'
  <2>1. PICK k \in drop[q] : /\ cache' = [cache EXCEPT ![k] = NoRead]
                             /\ drop' = [drop EXCEPT ![q] = @ \ {k}]
        BY <1>5 DEF DropKey
  <2>2. UNCHANGED <<index, recovered, pc, call>>
        BY <1>5 DEF DropKey
  <2>3. k \in Keys
        BY <2>1 DEF TypeOK
  <2> QED
        BY <2>1, <2>2, <2>3
        DEF InvalidationReachesEveryEntry, WithinReach, InsertKey, CacheKey, TypeOK, Keys
<1>6. CASE Restart
  <2>1. PICK kept \in SUBSET (IF Hybrid THEN Cached ELSE {}) :
            /\ cache' = [k \in Keys |-> IF k \in kept THEN cache[k] ELSE NoRead]
            /\ recovered' = kept
        BY <1>6 DEF Restart
  <2> QED
        BY <2>1 DEF InvalidationReachesEveryEntry, WithinReach, Keys
<1>7. CASE UNCHANGED vars
      BY <1>7, ReachKept DEF vars, procVars
<1> QED
      BY <1>1, <1>2, <1>3, <1>4, <1>5, <1>6, <1>7 DEF Next, Step

\* Every cached key is in keys_by_path, about to be, about to be dropped, or came back
\* from disk: the two-step insert and the two-step invalidate_path never lose one.
THEOREM InvalidationIsComplete == Spec => []InvalidationReachesEveryEntry
<1>1. Init => InvalidationReachesEveryEntry
      BY DEF Init, InvalidationReachesEveryEntry, Keys
<1>2. TypeOK /\ InvalidationReachesEveryEntry /\ [Next]_vars => InvalidationReachesEveryEntry'
      BY ReachStep
<1>3. Spec => []TypeOK
      BY CacheIsExact, PTL
<1> QED
      BY <1>1, <1>2, <1>3, PTL DEF Spec

----------------------------------------------------------------------------
\* Refinement: objects, calls and replies are those of the store without a cache.

LEMMA SameReadings ==
  /\ \A w : Store!Word(w) = Word(w)
  /\ Store!All = All /\ Store!NoCall = NoCall /\ Store!Calls = Calls
  /\ \A p, r : Store!Readings(p, r) = Readings(p, r)
<1>1. \A size, r : Store!AsRange(size, r) = AsRange(size, r)
      BY DEF Store!AsRange, AsRange
<1>2. \A size, r : Store!RequestedRange(size, r) = RequestedRange(size, r)
      BY DEF Store!RequestedRange, RequestedRange
<1>3. \A p, r : Store!Readings(p, r) = Readings(p, r)
      BY <1>1, <1>2, Zenon DEF Store!Readings, Readings, Store!ReadOf, ReadOf
<1>4. Store!All = All /\ \A w : Store!Word(w) = Word(w)
      BY DEF Store!All, All, Store!Word, Word
<1> QED
      BY <1>3, <1>4 DEF Store!NoCall, NoCall, Store!Calls, Calls

\* A read in hand and a miss are answers of the store.
LEMMA AnswerIsARead ==
  ASSUME NEW q \in Procs, Exact, Undecided(q), call[q].op = "get", NEW answer,
         \/ call[q].from \in written /\ answer \in Readings(call[q].from, call[q].req)
         \/ answer = Word("missing") /\ call[q].from \notin store
         \/ answer = Word("failed"),
         got' = [got EXCEPT ![q] = answer], UNCHANGED <<store, written, call>>
  PROVE  Store!Read(q)
<1>1. got[q] = Word("pending")
      BY DEF Exact, TypeOK, CallOK
<1>2. answer \in Readings(call[q].from, call[q].req) \cup {Word("missing"), Word("failed")}
      OBVIOUS
<1>3. /\ answer.is = "read" => call[q].from \in written
      /\ answer.is = "missing" => call[q].from \notin store
      BY ReadingsAreReads DEF Word
<1> QED
      BY <1>1, <1>2, <1>3, SameReadings DEF Store!Read

LEMMA StepRefines == Exact /\ [Next]_vars => [Store!Next]_Store!vars
<1> SUFFICES ASSUME Exact, [Next]_vars PROVE [Store!Next]_Store!vars
    OBVIOUS
<1> USE SameReadings
<1>q. ASSUME NEW q \in Procs
      PROVE  /\ call[q].from \in Paths /\ call[q].to \in Paths /\ call[q].req \in Requests
             /\ CallOK(q) /\ ReadInHandIsExact(q)
             /\ store \subseteq written
             /\ pc[q] \in Labels
      BY DEF Exact, TypeOK, Calls
<1>b. ASSUME NEW q \in Procs, NEW label, NEW c \in Calls, c.op # "none", Begin(q, label, c),
             UNCHANGED <<store, written>>
      PROVE  Store!Next
  <2>1. got[q] = Word("none")
        BY <1>b, <1>q DEF Begin, CallOK
  <2>2. Store!Begin(q)
        BY <1>b, <2>1 DEF Begin, Store!Begin
  <2> QED
        BY <2>2 DEF Store!Next
<1>1. ASSUME NEW q \in Procs, NEW p \in Paths, NEW r \in Requests, StartGet(q, p, r)
      PROVE  Store!Next
  <2>1. [op |-> "get", from |-> p, to |-> p, req |-> r] \in Calls
        BY DEF Calls
  <2> QED
        BY <1>1, <1>b, <2>1 DEF StartGet
<1>2. ASSUME NEW q \in Procs, NEW op \in WriteOps, NEW p \in Paths, NEW t \in Paths,
             StartWrite(q, op, p, t)
      PROVE  Store!Next
  <2>1. [op |-> op, from |-> p, to |-> t, req |-> All] \in Calls /\ op # "none"
        BY AllAssumption DEF Calls, WriteOps
  <2> QED
        BY <1>2, <1>b, <2>1 DEF StartWrite
<1>3. ASSUME NEW q \in Procs, NEW p \in Paths, StartDelete(q, p) PROVE Store!Next
  <2>1. [op |-> "delete", from |-> p, to |-> p, req |-> All] \in Calls
        BY AllAssumption DEF Calls
  <2> QED
        BY <1>3, <1>b, <2>1 DEF StartDelete
<1>4. ASSUME NEW q \in Procs, GetUncached(q) \/ InnerGet(q) PROVE Store!Next
  <2>1. PICK answer \in InnerAnswers(call[q].from, call[q].req) : got' = [got EXCEPT ![q] = answer]
        BY <1>4 DEF GetUncached, InnerGet, Answer
  <2>2. /\ Undecided(q) /\ call[q].op = "get" /\ UNCHANGED <<store, written, call>>
        BY <1>4, <1>q DEF GetUncached, InnerGet, Undecided, CallOK
  <2>3. \/ call[q].from \in written /\ answer \in Readings(call[q].from, call[q].req)
        \/ answer = Word("missing") /\ call[q].from \notin store
        \/ answer = Word("failed")
        BY <1>q, InnerReadsAreReadings
  <2> QED
        BY <2>1, <2>2, <2>3, AnswerIsARead DEF Store!Next
<1>5. ASSUME NEW q \in Procs, LookupKey(q) PROVE Store!Next \/ UNCHANGED Store!vars
  <2> DEFINE read == cache[CacheKey(call[q].from, call[q].req)]
  <2>1. CASE read # NoRead /\ Answer(q, read)
    <3>1. call[q].from \in written /\ read \in Readings(call[q].from, call[q].req)
          BY <1>q, <2>1 DEF Exact, CachedReadsAreExact, CacheKey
    <3>2. /\ Undecided(q) /\ call[q].op = "get" /\ UNCHANGED <<store, written, call>>
          BY <1>5, <1>q DEF LookupKey, Undecided, CallOK
    <3> QED
          BY <2>1, <3>1, <3>2, AnswerIsARead DEF Answer, Store!Next
  <2>2. CASE UNCHANGED got
        BY <1>5, <2>2 DEF LookupKey, Store!vars
  <2> QED
        BY <1>5, <2>1, <2>2 DEF LookupKey
<1>6. ASSUME NEW q \in Procs, LookupFull(q) PROVE Store!Next \/ UNCHANGED Store!vars
  <2> DEFINE full == cache[CacheKey(call[q].from, All)]
             cut  == IF full = NoRead THEN {} ELSE Sliced(full, call[q].req)
  <2>1. ASSUME NEW read \in cut, got' = [got EXCEPT ![q] = read] PROVE Store!Next
    <3>1. call[q].from \in written /\ full = FullRead(call[q].from) /\ full # NoRead
          BY <1>q, <2>1, ReadingsOfAll, AllAssumption DEF Exact, CachedReadsAreExact, CacheKey
    <3>2. read \in Readings(call[q].from, call[q].req)
          BY <1>q, <3>1, SlicesAreReadings
    <3>3. /\ Undecided(q) /\ call[q].op = "get" /\ UNCHANGED <<store, written, call>>
          BY <1>6, <1>q DEF LookupFull, Undecided, CallOK
    <3> QED
          BY <2>1, <3>1, <3>2, <3>3, AnswerIsARead DEF Store!Next
  <2>2. CASE UNCHANGED got
        BY <1>6, <2>2 DEF LookupFull, Store!vars
  <2> QED
        BY <1>6, <2>1, <2>2 DEF LookupFull
<1>7. ASSUME NEW q \in Procs, CacheInsert(q) \/ IndexInsert(q) \/ TakeKeys(q) \/ DropKey(q)
                               \/ KeysDropped(q)
      PROVE  UNCHANGED Store!vars
      BY <1>7 DEF CacheInsert, IndexInsert, TakeKeys, DropKey, KeysDropped, Store!vars
<1>8. ASSUME NEW q \in Procs, InnerWrite(q) PROVE Store!Next
  <2>1. got[q] = Word("pending") /\ call[q].op \in WriteOps /\ call[q].op # "get"
        BY <1>8, <1>q DEF InnerWrite, CallOK, Undecided, WriteOps
  <2>2. /\ store' = (store \ Store!Removes(call[q])) \cup Store!Adds(call[q])
        /\ written' = written \cup Store!Adds(call[q])
        BY <1>8, <2>1 DEF InnerWrite, Store!Removes, Store!Adds, WriteOps
  <2>3. got' \in {[got EXCEPT ![q] = Word(w)] : w \in {"ok", "failed"}}
        BY <1>8 DEF InnerWrite
  <2>4. Store!Write(q)
        BY <1>8, <2>1, <2>2, <2>3 DEF InnerWrite, Store!Write
  <2> QED
        BY <2>4 DEF Store!Next
<1>9. ASSUME NEW q \in Procs, InnerWriteFails(q) PROVE Store!Next
  <2>1. got[q] = Word("pending") /\ call[q].op \in WriteOps /\ call[q].op # "get"
        BY <1>9, <1>q DEF InnerWriteFails, CallOK, Undecided, WriteOps
  <2>2. got' = [got EXCEPT ![q] = Word("failed")] /\ UNCHANGED call
        BY <1>9 DEF InnerWriteFails, Answer
  <2>3. CASE UNCHANGED <<store, written>>
        BY <2>1, <2>2, <2>3 DEF Store!Write, Store!Next
  <2>4. CASE /\ call[q].op \in {"put", "upload"}
             /\ store' = store \cup {call[q].to} /\ written' = written \cup {call[q].to}
    <3>1. Store!Removes(call[q]) = {} /\ Store!Adds(call[q]) = {call[q].to}
          BY <2>4 DEF Store!Removes, Store!Adds
    <3> QED
          BY <2>1, <2>2, <2>4, <3>1 DEF Store!Write, Store!Next
  <2> QED
        BY <1>9, <2>3, <2>4 DEF InnerWriteFails
<1>10. ASSUME NEW q \in Procs, InnerDelete(q) PROVE Store!Next
  <2>1. got[q] = Word("pending") /\ call[q].op = "delete"
        BY <1>10, <1>q DEF InnerDelete, CallOK, Undecided
  <2>2. Store!Removes(call[q]) = {call[q].from} /\ Store!Adds(call[q]) = {}
        BY <2>1 DEF Store!Removes, Store!Adds
  <2>3. Store!Write(q)
        BY <1>10, <2>1, <2>2 DEF InnerDelete, Answer, Store!Write
  <2> QED
        BY <2>3 DEF Store!Next
<1>11. ASSUME NEW q \in Procs, Return(q) PROVE Store!Next
  <2>3. got[q].is \notin {"none", "pending"}
        BY <1>11, <1>q DEF Return, CallOK, Undecided
  <2>4. Word("none").is = "none" /\ Word("pending").is = "pending"
        BY DEF Word
  <2>1. got[q] \notin {Word("none"), Word("pending")}
        BY <2>3, <2>4
  <2>2. Store!Return(q)
        BY <1>11, <2>1 DEF Return, NoRead, Store!Return
  <2> QED
        BY <2>2 DEF Store!Next
<1>12. CASE Restart
      BY <1>12 DEF Restart, NoRead, Store!Restart, Store!Next
<1>13. CASE UNCHANGED vars
      BY <1>13 DEF vars, procVars, Store!vars
<1> QED
      BY <1>1, <1>2, <1>3, <1>4, <1>5, <1>6, <1>7, <1>8, <1>9, <1>10, <1>11, <1>12, <1>13
      DEF Next, Step

\* The cached store implements the store without a cache (BehavesLikeTheStore): every
\* call of get_opts, put_opts, delete_stream, copy_opts, rename_opts and of a multipart
\* upload takes effect once, and a read returns its object's own bytes.
THEOREM CacheImplementsStore == Spec => BehavesLikeTheStore
<1>1. Init => Store!Init
      BY SameReadings DEF Init, NoRead, Store!Init
<1>2. Exact /\ [Next]_vars => [Store!Next]_Store!vars
      BY StepRefines
<1>3. Exact /\ [Next]_vars => Exact'
      BY ExactStep
<1> QED
      BY <1>1, <1>2, <1>3, ExactInit, PTL DEF Spec, Store!Spec, BehavesLikeTheStore
=============================================================================
