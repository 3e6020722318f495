\* Without a deadlock check: a CTA that stops early is the violation of Completes.
SPECIFICATION FairSpec
CHECK_DEADLOCK FALSE
CONSTANTS
  MathWarps = {m1, m2}
  TopKWarps = {k1, k2}
  NumQStages = 2
  NumKVStages = 3
  CandidateSlots = 2
  Overlap = TRUE
  Schedule = 2
  NumBlocks = 6
  MaxTiles = 3
  Tiles <- MCTileCount
INVARIANTS
  HandoffParityExact StageParityExact OperandsStable SlotExclusive SelectionInput
PROPERTIES ImplementsQueue Completes
