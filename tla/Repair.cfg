SPECIFICATION Spec
CONSTANTS
  NumRows = 2
  K = 2
  Columns = 10
  ChunkSize = 4
  Segments = 2
  SegmentCapacity = 2
  MaxCalls = 2
  Inputs <- MCRows
INVARIANT
  AccumulatorExact
PROPERTIES
  UnflaggedMasked ImplementsExactTopK
