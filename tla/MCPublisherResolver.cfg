SPECIFICATION Spec
CONSTANTS
  r1 = r1  r2 = r2
  h1 = h1  h2 = h2
  Requests = {r1, r2}
  Hosts = {h1, h2}
  Ttl = 2
  FailureTtl = 1
  FetchTime = 1
  MaxEntries = 1
  MaxTime = 5
  MaxRecords = 2
INVARIANT OutdatedOnlyByFailure
PROPERTY AnswersNeverGoBack
SYMMETRY MCSymmetry
CHECK_DEADLOCK FALSE
