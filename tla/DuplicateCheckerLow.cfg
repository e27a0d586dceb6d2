SPECIFICATION CheckerSpec
CONSTANTS
  Ids = {1, 2, 3}
  MaxSize = 2
INVARIANT LowerThanAllIgnored
