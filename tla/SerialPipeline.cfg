SPECIFICATION Spec
CONSTANTS
  MathWarps = {m1, m2}
  TopKWarps = {k1, k2}
  NumQStages = 3
  NumKVStages = 3
  CandidateSlots = 1
  Overlap = FALSE
  Schedule = 1
  NumBlocks = 6
  MaxTiles = 3
  Tiles <- MCTileCount
PROPERTY ImplementsQueue
