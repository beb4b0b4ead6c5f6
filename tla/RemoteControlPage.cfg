CONSTANTS
  Owned = {d1, d2}
  Partner = Partner
  Slots = {1, 2}
  None = None
  MaxMounts = 2
  Budgets <- MCBudgets
SPECIFICATION FairSpec
CHECK_DEADLOCK FALSE
INVARIANTS
  NoRoomLeftBehind
  PageOwnsWhatRuns
PROPERTIES
  JoinsAreOrdered
  RetriesGoOn
