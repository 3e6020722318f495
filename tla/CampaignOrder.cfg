\* Expected to fail: SealedInOrder.
SPECIFICATION Spec
CHECK_DEADLOCK FALSE
CONSTANTS
  p1 = p1
  p2 = p2
  p3 = p3
  p4 = p4
  d1 = d1
  d2 = d2
  NumSlots = 2
  NumCases = 1
  Procs <- TwoHands
  Drivers <- TwoDrivers
  Settings <- OneSetting
  ByHand <- TwoHands
  None = None
SYMMETRY Symmetric
INVARIANT SealedInOrder
