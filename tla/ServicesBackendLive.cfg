SPECIFICATION FairSpec
CONSTANTS
  MaxCalls = 2
  IdModulus = 1
  Seed = 0
  Middlemen = {m1}
  RacyLookup = TRUE
PROPERTIES
  EveryCallReturnsOrCrash
CHECK_DEADLOCK FALSE
