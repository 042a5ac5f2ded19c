SPECIFICATION Spec
CONSTANTS
  p1 = p1
  p2 = p2
  k1 = k1
  k2 = k2
  c1 = c1
  c2 = c2
  Procs = {p1, p2}
  Keys = {k1, k2}
  Calls = {c1, c2}
  MaxAttempts = 2
  MaxLedger = 3
  Free = Free
  Dead = Dead
SYMMETRY AllAlike
INVARIANT
  ConcurrentRunsPersist
CHECK_DEADLOCK FALSE
