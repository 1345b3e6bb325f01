SPECIFICATION FairSpec
CONSTANTS
  l1 = l1
  l2 = l2
  s1 = s1
  Users = {u1, u2}
  Messages = {l1, l2}
  Subjects = {s1}
  Alarms = {a1}
  Bytes <- MCBytes
  MSS_SIZE = 1
  MaxCalls = 3
  None = None
INVARIANTS
  TypeOK
  OnlyFullSendersDeadlock
  UndisturbedFlush
  AcceptedLogsAccountedFor
PROPERTIES
  AlarmSentOnce
  LogsLeaveBuffer
CHECK_DEADLOCK FALSE
