\* A payment presented once, twice at once, and again later.
CONSTANTS
  p1 = p1
  p2 = p2
  r1 = r1
  r2 = r2
  Payments <- MCPayments
  Whole <- MCWhole
  NoPayment = NoPayment
  Requests <- MCRequests
SPECIFICATION Spec
SYMMETRY AnyRequest
INVARIANTS UnpaidMovesNothing MoneyImpliesContent OnePaymentOneRead SettledIsNotRefused
CHECK_DEADLOCK FALSE
