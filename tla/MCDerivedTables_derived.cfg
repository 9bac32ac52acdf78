CONSTANTS
  w1 = w1  w2 = w2  g1 = g1  g2 = g2
  Spans <- MCSpans
  TraceOf <- MCTraceOf
  Threads = {1, 2}
  Groups = {g1, g2}
  None = None
  Workers = {w1, w2}
  Deployments = {{w1}, {w1, w2}}
  Jobs <- MCJobs
  MaxWrites = 3
SPECIFICATION Spec
INVARIANTS TypeOK TreeMatchesTheHeads ThreadsMatchTheHeads RollupsMatchTheHeads HeadRootsAgreeWithTheTree
