CONSTANTS
  ChainIds = {1, 2}
  MaxActive = 2
  ChainSets <- MCChainSets
  Callbacks = {FALSE, TRUE}
  Kinds <- MCKinds
  Constructors = {1}
  Timeouts = {1, 2}
  total_timeout_limit = 1
  MaxTasks = 3
  MaxFaults = 1
SPECIFICATION FairSpec
CHECK_DEADLOCK FALSE
INVARIANTS NothingForgotten ChecksHold
PROPERTIES ChainOrder EveryQueryEnds
