CONSTANTS
  Length = 4
  Request = 2
  Panics = {}
SPECIFICATION FairSpec
PROPERTIES
  AlwaysReturns
CHECK_DEADLOCK FALSE
