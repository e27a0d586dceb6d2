CONSTANTS
  CompactMin = 2
  Threads = {1, 2}
  Keys = {"a", "b"}
  Values = {1, 2}
  Prefixed = {"a", "b"}
  MaxEvents = 5
  MaxCrashes = 1
SPECIFICATION Spec
INVARIANTS RecoversHistory MapMatchesLog
CHECK_DEADLOCK FALSE
