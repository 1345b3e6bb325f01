SPECIFICATION FairSpec
CONSTANTS
  a = a
  b = b
  Users = {u1, u2}
  Elements = {a, b}
  Touches <- MCTouches
  Changes <- MCChanges
  MaxCalls = 2
  None = None
INVARIANTS
  TypeOK
  OnlyFunctionsDeadlock
  StateAgrees
PROPERTIES
  CallsReturn
CHECK_DEADLOCK FALSE
