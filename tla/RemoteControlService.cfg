CONSTANTS
  Requests = {r1, r2, r3}
  MaxServers = 2
  RoomSource = TRUE
  None = None
SPECIFICATION FairSpec
INVARIANTS
  NoOrphanSocket
  ShowsNewestSession
PROPERTIES
  RequestsKeepOrder
  ImplementsGateway
  EveryRequestAnswered
