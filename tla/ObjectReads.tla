---------------------------- MODULE ObjectReads ----------------------------
(***************************************************************************)
(* What a read of one object answers: the requests an object store takes,  *)
(* the byte range each of them means, and the replies.  Shared by the      *)
(* abstract store (ObjectStore) and the caching one (ObjectCache).         *)
(* Every path names one content: the ingest layer gives each object a path *)
(* of its own and never writes other bytes to it.                          *)
(***************************************************************************)
EXTENDS Integers, Sequences

CONSTANTS
    Paths,      \* object paths
    Content,    \* the bytes a path names, a sequence per path
    Requests    \* the forms of read: records [kind, a, b]

ASSUME PathsAssumption == Paths # {}

ASSUME ContentAssumption == Content \in [Paths -> Seq(Nat)]

ASSUME RequestsAssumption ==
    Requests \subseteq [kind : {"all", "bounded", "offset", "suffix"}, a : Nat, b : Nat]

All == [kind |-> "all", a |-> 0, b |-> 0]

ASSUME AllAssumption == All \in Requests

\* A reply that carries no bytes.
Word(w) == [is |-> w, bytes |-> <<>>, size |-> 0, start |-> 0, end |-> 0]

\* CachedObjectRead and GetResult: the bytes of a range, with the object's size.
ReadOf(c, range) ==
    [is |-> "read", bytes |-> SubSeq(c, range[1] + 1, range[2]),
     size |-> Len(c), start |-> range[1], end |-> range[2]]

\* GetRange::as_range of the object_store crate: the range a store serves, none
\* when the request is empty, inverted or starts past the end.
AsRange(size, r) ==
    CASE r.kind = "all"     -> {<<0, size>>}
      [] r.kind = "bounded" -> {g \in {<<r.a, IF r.b < size THEN r.b ELSE size>>} :
                                    r.a < r.b /\ r.a < size}
      [] r.kind = "offset"  -> {g \in {<<r.a, size>>} : r.a < size}
      [] r.kind = "suffix"  -> {<<IF r.a < size THEN size - r.a ELSE 0, size>>}

\* requested_range: the range cut out of a cached object, none when it is not
\* inside the object; unlike AsRange it takes an empty range.
RequestedRange(size, r) ==
    CASE r.kind = "all"     -> {<<0, size>>}
      [] r.kind = "bounded" -> {g \in {<<r.a, r.b>>} : r.a <= r.b /\ r.b <= size}
      [] r.kind = "offset"  -> {g \in {<<r.a, size>>} : r.a <= size}
      [] r.kind = "suffix"  -> {<<IF r.a < size THEN size - r.a ELSE 0, size>>}

\* The replies with bytes a read of path p may give.  A store gives its own range.  The
\* cache differs from it in one case, allowed here: once it holds the whole object it
\* answers a range that is empty with no bytes, where the store answers with an error.
Readings(p, r) ==
    {ReadOf(Content[p], g) : g \in AsRange(Len(Content[p]), r)
        \cup {h \in RequestedRange(Len(Content[p]), r) : h[1] = h[2]}}

FullRead(p) == ReadOf(Content[p], <<0, Len(Content[p])>>)
=============================================================================
