\* The calls all end, and then only the machine is left to move.
SPECIFICATION WriteSpec
SYMMETRY Symmetric
CONSTANTS
  w1 = w1
  w2 = w2
  w3 = w3
  v1 = v1
  v2 = v2
  Writers <- MCWriters
  Values <- MCValues
  Invalid = Invalid
  Absent = Absent
  Torn = Torn
  NoTemp = NoTemp
INVARIANTS NeverTorn AcknowledgedIsDurable NoLitter
PROPERTY ImplementsFile
