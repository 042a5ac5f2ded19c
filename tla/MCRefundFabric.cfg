SPECIFICATION Spec
CONSTANTS
  p1 = p1
  c1 = c1
  c2 = c2
  c3 = c3
  i1 = i1
  i2 = i2
  None = None
  Payments = {p1}
  Amounts = {1, 2}
  PaymentAmount <- MCPaymentAmount
  Callers = {c1, c2, c3}
  Home <- MCHome
  HasUpdateIfStatus = TRUE
SYMMETRY NeighboursAreAlike
INVARIANTS
  TypeOK
  SingleFlight
  AtMostOneRequest
  OutcomeIsTrue
  RecordsAreConfirmed
  LedgerWithinPayment
  OneRefundedEvent
PROPERTIES
  QuarantineHolds
  ImplementsContract
CHECK_DEADLOCK FALSE
