SPECIFICATION Spec
CONSTANTS
  d1 = d1
  d2 = d2
  w1 = w1
  w2 = w2
  n1 = n1
  n2 = n2
  None = None
  Deployments = {d1}
  Workers = {w1, w2}
  Nodes = {n1, n2}
SYMMETRY AllAlike
INVARIANTS
  TypeOK
  ReplacementIsRecorded
PROPERTIES
  ImplementsContract
CHECK_DEADLOCK FALSE
