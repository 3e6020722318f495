\* Without a deadlock check: AllSelected also says that the warps do not stop.
SPECIFICATION FairSpec
CONSTANTS
  K = 2
  NumWarps = 3
  Lanes = 2
  Segments = 4
  SegmentCapacity = 2
  SpillPerSegment = 1
  Radix = 4
  Digits = 2
  Inputs <- MCInputs
INVARIANTS
  SyncSitesAgree RowsExact
PROPERTY AllSelected
CHECK_DEADLOCK FALSE
