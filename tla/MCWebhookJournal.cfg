\* Calls that overlap, and restarts anywhere.
CONSTANTS
  i1 = i1
  i2 = i2
  s1 = s1
  s2 = s2
  Gate = gate
  NoFile = NoFile
  NoRead = NoRead
  Ids <- MCIds
  Sweeps <- MCSweeps
  CompactAt = 2
  KeepDelivered = 1
  MaxRecords = 3
SYMMETRY Symmetry
SPECIFICATION Spec
INVARIANTS  OneSweepAtATime
CHECK_DEADLOCK FALSE
