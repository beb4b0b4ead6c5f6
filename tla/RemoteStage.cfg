SPECIFICATION StageFairSpec
CONSTANTS
  s1 = s1
  s2 = s2
  d1 = d1
  None = None
  Tracks <- MCTracks
  MaxChanges = 1
  Browsers <- MCBrowsers
  Scopes <- MCScopes
  Sounds <- MCSounds
  MaxElements = 2
  Displays <- MCDisplays
  Engines <- MCEngines
  MaxShapes = 2
INVARIANTS
  WatchIsHonest
  SoundIsHonest
  CursorFollowsSession
PROPERTY
  FreezeIsNoticed
CHECK_DEADLOCK FALSE
