SPECIFICATION FairSpec
CONSTANTS
  r1 = r1  r2 = r2
  p1 = p1
  NoPayment = NoPayment
  Reads = {r1, r2}
  Payments = {p1}
  Callers <- MCCallers
  Policies <- MCPolicies
INVARIANTS PaidIsNotRefused MachinePays PersonReads RefusedIsNotSold
PROPERTIES EveryReadAnswered
CHECK_DEADLOCK FALSE
