SPECIFICATION MCSpec
CONSTANTS
  None = None
  PrivateServer = "private"
  Rooms <- MCRooms
  Farewells = {"leave", "released"}
  Lifetime = 1
  MaxEvents = 5
  Budgets <- MCBudgets
  Users = {"a"}
  Nobody = Nobody
  Exports <- MCExports
  MaxVisits = 2
  MaxTasks = 5
CHECK_DEADLOCK FALSE
INVARIANT AnswersAreHeard
INVARIANT DiagnosticsTrue
INVARIANT JoinedRoomStarts
INVARIANT AccountIsCoherent
