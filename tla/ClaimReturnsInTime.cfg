SPECIFICATION FairSpec
CONSTANTS
  MaxCalls = 2
  IdModulus = 3
  Seed = 1
  Middlemen = {m1}
  RacyLookup = FALSE
PROPERTY EveryCallReturns
CHECK_DEADLOCK FALSE
