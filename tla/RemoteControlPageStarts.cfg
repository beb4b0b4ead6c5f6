CONSTANTS
  Owned = {d1}
  Partner = Partner
  Slots = {1, 2}
  None = None
  MaxMounts = 1
  Budgets <- MCFaulty
SPECIFICATION Spec
CHECK_DEADLOCK FALSE
INVARIANT OneConnectAtATime
