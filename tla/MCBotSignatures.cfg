SPECIFICATION FairBotSpec
CONSTANTS
  r1 = r1  r2 = r2  r3 = r3
  d1 = d1  d2 = d2
  k1 = k1  k2 = k2
  Requests = {r1, r2, r3}
  SignedBy <- MCSignedBy
  Directories = {d1, d2}
  Keys = {k1, k2}
  FirstKeys <- MCFirstKeys
  PosTtl = 1
  NegTtl = 0
  FetchTime = 1
  Cap = 1
  MaxTime = 3
  MaxRotations = 1
PROPERTIES RemovedKeyForgotten KnownKeyIsKnown OutageIsForgotten EveryRequestTold
CHECK_DEADLOCK FALSE
