SPECIFICATION Spec
CONSTANTS
  w1 = w1
  w2 = w2
  w3 = w3
  Writers = {w1, w2, w3}
  MaxCalls = 1
  Absent = Absent
  Empty = Empty
SYMMETRY WritersAreAlike
INVARIANTS
  TypeOK
  ExclusiveUntilLapse
  AcknowledgedOnce
  OnlyAFailureWedges
PROPERTIES
  ImplementsLog
CHECK_DEADLOCK FALSE
