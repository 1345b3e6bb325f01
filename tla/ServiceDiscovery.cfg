SPECIFICATION FairSpec
CONSTANTS
  OwnName = own
  Names = {own}
  Ports = {p1}
  Skews = {0, 6}
  kicksec = 2
  Hour = 4
  Followed = {1}
  MaxCalls = 2
  MaxDelay = 1
INVARIANTS
  TypeOK
  PortsAtOwnService
  ListedIsFresh
PROPERTIES
  DroppedOnlyWhenSilent
  AnnouncedIsListed
CHECK_DEADLOCK FALSE
