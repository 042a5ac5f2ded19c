SPECIFICATION Spec
CONSTANTS
  t1 = t1
  t2 = t2
  w1 = w1
  w2 = w2
  w3 = w3
  None = None
  Tasks = {t1, t2}
  Workers = {w1, w2, w3}
  MaxAttempts = 2
  MaxTakes = 3
SYMMETRY AllAlike
INVARIANTS
  TypeOK
PROPERTIES
  OnlyOwnerEnds
  ImplementsContract
CHECK_DEADLOCK FALSE
