SPECIFICATION FairSpec
CONSTANTS
  CompactMin = 1
  IsBot = TRUE
  CanIgnore = TRUE
  InvalidPts = 9
  MaxChanges = 3
  MaxPts = 2
  MaxInits = 1
INVARIANTS NeverPassesUnfinished CatchesUp
PROPERTIES EventuallySaved
CHECK_DEADLOCK FALSE
