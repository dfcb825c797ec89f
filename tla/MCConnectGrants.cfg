\* A marker outlives two requests in a row; one sweep at a time.
CONSTANTS
  c1 = c1
  c2 = c2
  r1 = r1
  r2 = r2
  p1 = p1
  None = None
  Codes <- MCCodes
  Requests <- MCRequests
  Consoles <- MCConsoles
  TTL = 3
  SweepEvery = 3
  Patience = 1
  MaxTime = 4
SPECIFICATION Spec
SYMMETRY RequestsAndCodes
INVARIANTS OneCredentialPerCode ReplayedIsRevoked RevokedStaysRevoked
CHECK_DEADLOCK FALSE
