CONSTANTS
  Texts = {"short", "long", "huge", "cut"}
  Size <- SizeOf
  EndsFull = {"long"}
  TooLong = {"huge"}
  Cut = "cut"
  Keys = {k1, k2}
  None = None
  MaxActs = 4
  MaxWrites = 2
SPECIFICATION FairSpec
CHECK_DEADLOCK FALSE
INVARIANT PageShowsTheTruth
PROPERTY RemoteTextIsHeard
