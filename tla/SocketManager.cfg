SPECIFICATION FairSpec
CONSTANTS
  Replies = {r1, r2}
  Parts <- MCParts
  Users = {u1, u2}
  Endpoints = {e1}
  MaxInbox = 1
  MaxCalls = 2
  None = None
INVARIANTS
  TypeOK
  SocketUsedAlone
  FlagsTruthful
PROPERTIES
  ImplementsOutbox
  QueuedIsFlagged
  UpdateGetsLock
  CloseReturns
CHECK_DEADLOCK FALSE
