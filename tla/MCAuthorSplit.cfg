\* Prices around the number of payees, where the remainders are.
CONSTANTS
  NoWallet = 0
  Credits <- MCCredits
  PayeeLists <- ResolvedPayees
  Prices <- MCPrices
  Whole = 720
SPECIFICATION SplitSpec
INVARIANTS LegsMakePrice EveryoneNearShare LedgerMatchesLegs
CHECK_DEADLOCK FALSE
