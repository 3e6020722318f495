\* The script and an operator at once.  The system stops when every process ended.
SPECIFICATION FairSpec
CHECK_DEADLOCK FALSE
CONSTANTS
  p1 = p1
  p2 = p2
  p3 = p3
  p4 = p4
  d1 = d1
  d2 = d2
  NumSlots = 2
  NumCases = 1
  Procs <- MixedProcs
  Drivers <- OneDriver
  Settings <- OneSetting
  ByHand <- OneHand
  None = None
INVARIANTS MeasuringAlone SealedEvidence
PROPERTY ScriptEnds
