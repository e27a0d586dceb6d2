SPECIFICATION FairSpec
CONSTANTS
  a = a
  b = b
  none = none
  NoQuery = none
  Queries = {a, b}
  MaxInflight = 2
  Worlds <- MCWorlds
INVARIANTS OnePlace FieldsAgree AtMostOnce PredecessorsThere UnknownAsked
PROPERTIES EveryQueryReturned
CHECK_DEADLOCK FALSE
