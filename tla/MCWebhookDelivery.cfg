\* Two deliveries, two overlapping sweeps, two attempts, a crash.
CONSTANTS
  ep1 = ep1
  e1 = e1
  e2 = e2
  s1 = s1
  s2 = s2
  Endpoints <- MCEndpoints
  Events <- MCEvents
  Matches <- MCMatches
  Sweeps <- MCSweeps
  Concurrency = 1
  Backoff <- MCBackoff
  RetryAfters <- MCRetryAfters
  Lease = 1
  Threshold = 2
  MaxCrashes = 1
  MaxRevives = 1
SPECIFICATION FairSpec
INVARIANTS OneSender BudgetKept
PROPERTIES AttemptsCountUp EveryDeliveryRests
CHECK_DEADLOCK FALSE
