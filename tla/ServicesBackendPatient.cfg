SPECIFICATION PatientSpec
CONSTANTS
  MaxCalls = 2
  IdModulus = 3
  Seed = 1
  Middlemen = {m1}
  RacyLookup = FALSE
PROPERTIES
  ReceivedReplyEndsWait
  FinaliseReleasesCallers
CHECK_DEADLOCK FALSE
