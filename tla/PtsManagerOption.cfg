SPECIFICATION Spec
CONSTANTS
  CompactMin = 1
  IsBot = TRUE
  CanIgnore = TRUE
  InvalidPts = 9
  MaxChanges = 2
  MaxPts = 2
  MaxInits = 0
INVARIANT PendingCleared
CHECK_DEADLOCK FALSE
