SPECIFICATION FairSpec
CONSTANTS
  c1 = c1  c2 = c2
  a = a  b = b
  gate = gate  site = site
  None = None
  Calls = {c1, c2}
  Pages = {a, b}
  Hosts = {gate, site}
  HostOf <- MCHostOf
  SlugOf <- MCSlugOf
  Gate = gate
  Tolls <- MCTolls
  Periods = {b}
  Bound = {b}
  Forbidden = {}
  Denied = {}
  Finds = {{}, {gate, site}}
  FleetDefault = TRUE
  Ceiling = 3
  Tolerance <- MCTolerance
  Cap = 2
  Approval = 9
  MaxPaid = 2
  Budgets = {3}
  MaxListed = 2
  MaxCalls = 2
INVARIANTS SpentWithinCeiling PaysAtMostTheQuote CapIsShared HeldIsReadFirst
PROPERTIES LicencesSurvive EveryCallReturns
CHECK_DEADLOCK FALSE
