SPECIFICATION MCSpec
CONSTANTS
  Counts <- MCCounts
  StartPts = 1
  SingleSession = FALSE
  Bots = {TRUE, FALSE}
  MaxPrefix = 2
  MaxFaults = 1
  MaxRestarts = 1
  Ids = {1, 2, 3, 4, 5, 6, 7, 8, 9}
  MaxSize = 2
INVARIANTS StateMatchesPts PendingAgrees ArraySorted AcceptedOnce RefusesOnlyOld
PROPERTIES GapsAreFilled
CHECK_DEADLOCK FALSE
