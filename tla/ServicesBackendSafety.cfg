SPECIFICATION Spec
CONSTANTS
  MaxCalls = 2
  IdModulus = 3
  Seed = 1
  Middlemen = {m1, m2}
  RacyLookup = TRUE
SYMMETRY MiddlemenSymmetry
INVARIANTS
  TypeOK
  ReplyMatchesCommand
  PendingCallHasTicket
  FinalisedLeavesNoWaiter
PROPERTIES
  ImplementsChannel
CHECK_DEADLOCK FALSE
