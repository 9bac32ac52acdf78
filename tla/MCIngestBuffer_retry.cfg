CONSTANTS
  c1 = c1  c2 = c2  c3 = c3  k1 = k1  k2 = k2  k3 = k3
  Partitions = {1, 2}
  Calls = {c1, c2, c3}
  Shutdown = Shutdown
  Keys = {k1, k2, k3}
  Payload <- RetryPayload
  MaxSpansPerSegment = 2
  ZeroDelay = FALSE
  Disconnects = {}
SPECIFICATION FairSpec
PROPERTY EveryCallReturns
