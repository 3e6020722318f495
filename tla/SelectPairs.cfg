\* Without a deadlock check: AllSelected also says that the warps do not stop.
SPECIFICATION FairSpec
CONSTANTS
  K = 2
  NumWarps = 3
  Lanes = 1
  Radix = 2
  Digits = 2
  Inputs <- MCInputs
INVARIANTS
  GreaterHandedOff PairsExact
PROPERTY
  AllSelected
CHECK_DEADLOCK FALSE
