\* Two drains, two legs, claims that lapse during a pass.
CONSTANTS
  l1 = l1
  l2 = l2
  d1 = d1
  d2 = d2
  NoLeg = NoLeg
  Legs <- MCLegs
  Drains <- MCDrains
  Scopes <- MCScopes
  ValidBefore <- MCValidBefore
  Lease = 1
  MaxTime = 5
SPECIFICATION Spec
SYMMETRY DrainSymmetry
INVARIANTS BooksMatchMoney CountedOnce LiveClaimsExclude
PROPERTY ImplementsLedger
CHECK_DEADLOCK FALSE
