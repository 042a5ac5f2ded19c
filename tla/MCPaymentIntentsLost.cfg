SPECIFICATION Spec
CONSTANTS
  w1 = w1
  w2 = w2
  w3 = w3
  o1 = o1
  paidA = paidA
  paidB = paidB
  declined = declined
  None = None
  Workers = {w1, w2}
  Orders = {o1}
  Outcomes = {paidA, paidB, declined}
  Successes = {paidA, paidB}
  UseClaims = TRUE
  HasUpdateIfStatus = TRUE
SYMMETRY WorkersAreAlike
INVARIANT
  AcknowledgedIsPaid
CHECK_DEADLOCK FALSE
