--------------------------- MODULE MCObjectCache ---------------------------
EXTENDS ObjectCache, TLC

CONSTANTS p1, p2, c1, c2

\* Two paths with the same bytes, so that one can be a copy of the other.
MCContent == [p \in Paths |-> <<7, 8>>]

\* The whole object, its last byte, a range that ends past its end (the store cuts it,
\* the cache does not serve it from the whole object), and an offset at its end (the
\* store refuses it, the cache cuts an empty slice).
MCRequests == {[kind |-> "all", a |-> 0, b |-> 0],
               [kind |-> "suffix", a |-> 1, b |-> 0],
               [kind |-> "bounded", a |-> 1, b |-> 3],
               [kind |-> "offset", a |-> 2, b |-> 0]}

Symmetry == Permutations(Procs)
=============================================================================
