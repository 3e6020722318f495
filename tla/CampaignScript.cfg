\* The script alone, started twice, under any settings.  The system stops when every process ended.
SPECIFICATION Spec
CHECK_DEADLOCK FALSE
CONSTANTS
  p1 = p1
  p2 = p2
  p3 = p3
  p4 = p4
  d1 = d1
  d2 = d2
  NumSlots = 2
  NumCases = 2
  Procs <- ScriptProcs
  Drivers <- TwoDrivers
  Settings <- MCSettings
  ByHand <- Nobody
  None = None
SYMMETRY Symmetric
INVARIANTS CompleteIsMeasured InFrozenOrder
