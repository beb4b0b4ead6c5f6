CONSTANTS
  Requests = {r1, r2, r3}
  Sessions = {s1, s2, s3}
  Rooms = {m1, m2}
  Services = {v1, v2, v3}
  Absent = Absent
  MaxSessions = 2
  Idle = 1
  MaxConnects = 2
  MaxFrame = 1
  MaxFrames = 4
  MaxEmits = 2
  Attachments = 2
  Nothing = Nothing
SPECIFICATION MCFairSpec
CHECK_DEADLOCK FALSE
INVARIANTS
  ConnectionsAreOwned
  SocketIsOwned
  LossIsReported
PROPERTIES
  IdleSessionsEnd
  EverythingEnds
