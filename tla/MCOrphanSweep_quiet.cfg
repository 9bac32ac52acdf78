CONSTANTS
  Runs = {1, 2}
  Vals = {v1}
  v1 = v1  w1 = w1  c1 = c1
  Times = {1}
  BucketWidth = 4
  Batches <- TwoRunBatches
  Writers = {w1}
  Compactors = {c1}
  MaxSpansPerSegment = 2
  MaxSeq = 3
  NoHead = NoHead
SPECIFICATION QuietSpec
INVARIANT SweepSparesReferencedObjects
PROPERTY SweepLeavesNoOrphans
