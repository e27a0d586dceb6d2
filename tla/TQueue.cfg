CONSTANTS
  CompactMin = 2
  MAX_ID = 5
  MAX_QUEUE_EVENTS = 3
  MAX_TOTAL_EVENT_LENGTH = 4
  FirstIds = {2}
  Lengths = {1, 2}
  Expirations = {1, 2}
  MaxNow = 3
  MaxLog = 5
  MaxRestarts = 1
  MaxId = 9
  NewValue = 1
  Values = {2}
SPECIFICATION MCSpec
CHECK_DEADLOCK FALSE
INVARIANTS RecoversHistory FieldsAgree CountersAgree RegenerationPreserves
PROPERTIES ExpiredCollected ImplementsEventMap
