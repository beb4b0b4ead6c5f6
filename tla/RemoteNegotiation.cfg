CONSTANTS
  p1 = p1
  p2 = p2
  MaxSessions = 2
  Reads = {p1, p2}
  None = None
  Tagged = TRUE
  MaxEvents = 3
  Settings <- Surroundings
SPECIFICATION FairSpec
CHECK_DEADLOCK FALSE
INVARIANTS
  EventsReachTheirSession
  UiShowsSession
PROPERTIES
  NoOfferAfterClose
  NegotiationEnds
