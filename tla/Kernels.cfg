\* The parts end, so nothing is left to do: KernelsEnd says that they do.
SPECIFICATION MCSpec
CHECK_DEADLOCK FALSE
CONSTANTS
  Warps = {0, 7}
  Tiles <- MCTiles
  Rows = {0}
  Scores = {1, 2}
  Batches <- MCBatches
  SegmentCapacity = 3
  SpillPerSegment = 2
  NumMathWarps = 2
  WarpWidth = 4
  WarpCapacity = 28
  RowPairs <- MCRowPairs
  NumWarps = 2
  Lanes = 1
  Radix = 2
  Digits = 2
  Target = 2
  Samplings <- MCSamplings
INVARIANTS
  NothingLost
  ProducerExact
  ThresholdExact
PROPERTY
  KernelsEnd
