CONSTANTS
  Length = 5
  Request = 2
  Panics = {"reader", "hasher"}
SPECIFICATION FairSpec
INVARIANTS
  TypeOK
  OrderedPrefixes
  OkIsExact
  FailureHasItsCause

  
CHECK_DEADLOCK FALSE
