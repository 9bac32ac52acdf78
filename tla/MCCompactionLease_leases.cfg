CONSTANTS
  s1 = s1  s2 = s2  s3 = s3
  Services = {s1, s2}
  Projects = {1, 2}
  Steady = {s1}
  LeaseDuration = 2
  MaxLag = 1
  MaxRestarts = 1
  NoLease = NoLease
SPECIFICATION FairSpec
INVARIANTS TypeOK LiveLeaseIsExclusive
PROPERTY BacklogIsTakenUp
