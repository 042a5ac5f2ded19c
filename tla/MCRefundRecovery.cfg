SPECIFICATION Spec
CONSTANTS
  p1 = p1
  p2 = p2
  w1 = w1
  w2 = w2
  None = None
  Dead = Dead
  Payments = {p1, p2}
  Amounts = {2}
  PaymentAmount <- MCPaymentAmount
  Workers = {w1, w2}
SYMMETRY AllAlike
INVARIANTS
  TypeOK
  FinalizedOnceUntilLapse
  ResolutionIsTrue
  OnlyFailureAbandons
CHECK_DEADLOCK FALSE
