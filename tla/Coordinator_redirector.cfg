CONSTANTS
  r = r
  a = a
  b = b
  f1 = f1
  f2 = f2
  f3 = f3
  w1 = w1
  w2 = w2
  None = None
  Root = r
  Dirs = {r, a, b}
  Files = {f1, f2, f3}
  Parent <- Siblings
  Unnamed <- RedirectorUnnamed
  Largest <- RedirectorLargest
  Sparse = {}
  LargeThreshold = 2
  CheckpointThreshold = 3
  SegmentThreshold = 4
  Transport = "redirector"
  Workers = {w1, w2}
  PerWorkerQueue = 1
  BatchFiles = 1
  BreakerThreshold = 2
SPECIFICATION Spec
INVARIANTS
  TypeOK
  AccountedOnce
  ExitIsEarned
  StampIsLast
  WorkersNeedNoJournal
  CountsAreExact
