CONSTANTS
  Requests = {r1, r2, r3}
  Alarm = Alarm
  None = None
  MaxServers = 2
  Idle = 2
  MaxCrashes = 1
  InputGate = TRUE
SPECIFICATION FairSpec
CHECK_DEADLOCK FALSE
INVARIANTS
  UpstreamIsOwned
  ExpiredSessionNotServed
PROPERTIES
  ConnectedIsTrue
  ImplementsGateway
  AuthorizationEnds
