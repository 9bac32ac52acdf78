CONSTANTS
  Runs <- MCRuns
  Vals <- MCVals
  v1 = v1  v2 = v2  w1 = w1  w2 = w2  c1 = c1  c2 = c2
  Times = {1, 2}
  BucketWidth = 4
  Batches <- TwoRunBatches
  Writers = {w1}
  Compactors = {c1}
  MaxSpansPerSegment = 2
  MaxSeq = 4
  NoHead = NoHead
SYMMETRY Tasks
SPECIFICATION Spec
INVARIANTS TypeOK ReferencedObjectsExist VisibleRunsAreListed CompactorsCoverTheirSegments ReplayGivesTheLiveHead LookupAgreesWithListing ReclaimedSegmentsLeaveNothing
