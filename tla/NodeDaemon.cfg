SPECIFICATION FairSpec
CONSTANTS
  Ids = {p1, p2, p3}
  Lines = 2
  MaxStarts = 1
  Daemon = Daemon
  InitPid = InitPid
INVARIANTS
  TypeOK
  ChildrenListed
  SparedFollowsDead
PROPERTIES
  ChildrenAreStopped
CHECK_DEADLOCK FALSE
