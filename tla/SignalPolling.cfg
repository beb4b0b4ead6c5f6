CONSTANTS
  Reads = {p1, p2}
  None = None
  RestartsIds = FALSE
  Budgets <- Explored
SPECIFICATION FairSpec
CHECK_DEADLOCK FALSE
INVARIANT NothingWithheld
PROPERTIES
  NothingAfterStop
  StatusConverges
