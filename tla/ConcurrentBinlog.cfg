CONSTANTS
  t1 = t1
  t2 = t2
  Threads <- MCThreads
  FirstId = 1
  FLUSH_TIMEOUT = 1
  SYNC_TIMEOUT = 2
  LAZY_TIMEOUT = 3
  MaxId = 2
  MaxPromises = 2
  MaxCalls = 1
  Offset = 2
  MaxSeqNo = 13
  CompactMin = 5
SPECIFICATION MCSpec
CHECK_DEADLOCK FALSE
INVARIANTS LogInOrder PromiseImpliesStable NeverOverrun WaitersHaveTimers ForcedSyncsMoveOn FlagsAreWaiting
PROPERTIES ClosedIsStable EveryPromiseSettled EveryEventFlushed ImplementsOrderedDelivery
