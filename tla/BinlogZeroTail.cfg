CONSTANTS
  CompactMin = 2
  NoKey = NoKey
  k1 = k1
  k2 = k2
  Keys <- MCKeys
  Clients <- ZeroTailClient
  ChangeKeys = {k1}
  LazyFlushSize = 1
  DirOpsDurable = TRUE
  MaxKeyChanges = 1
SPECIFICATION Spec
INVARIANT RecoversAcknowledged
CHECK_DEADLOCK FALSE
