SPECIFICATION Spec
CONSTANTS
    p1 = p1
    p2 = p2
    c1 = c1
    c2 = c2
    Paths = {p1, p2}
    Procs = {c1, c2}
    Content <- MCContent
    Requests <- MCRequests
    Capacity = 2
    Hybrid = TRUE
    MaxEvents = 4
INVARIANTS TypeOK CachedReadsAreExact InvalidationReachesEveryEntry
PROPERTY BehavesLikeTheStore
SYMMETRY Symmetry
CHECK_DEADLOCK FALSE
