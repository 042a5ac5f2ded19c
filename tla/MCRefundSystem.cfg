SPECIFICATION FairSystemSpec
CONSTANTS
  p1 = p1
  c1 = c1
  c2 = c2
  i1 = i1
  w1 = w1
  None = None
  Dead = Dead
  Payments = {p1}
  Amounts = {2}
  PaymentAmount <- MCPaymentAmount
  Callers = {c1, c2}
  Home <- MCHome
  HasUpdateIfStatus = FALSE
  Workers = {w1}
PROPERTIES
  SystemQuarantineHolds
  ImplementsRecovery
  CallsReturn
CHECK_DEADLOCK FALSE
