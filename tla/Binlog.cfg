CONSTANTS
  CompactMin = 2
  NoKey = NoKey
  k1 = k1
  k2 = k2
  Keys <- MCKeys
  Clients <- MCClients
  ChangeKeys <- MCKeys
  LazyFlushSize = 1
  DirOpsDurable = TRUE
  MaxKeyChanges = 1
SPECIFICATION Spec
SYMMETRY MCKeySymmetry
INVARIANTS RecoversAcknowledged FileMatchesMemory NeverFatal
CHECK_DEADLOCK FALSE
