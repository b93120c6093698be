CONSTANTS
  r = r
  a = a
  b = b
  f1 = f1
  f2 = f2
  f3 = f3
  w1 = w1
  w2 = w2
  None = None
  Root = r
  Dirs = {r, a}
  Files = {f1, f2, f3}
  Parent <- Nested
  Unnamed <- SmallUnnamed
  Largest <- HiddenLargest
  Sparse = {}
  LargeThreshold = 2
  CheckpointThreshold = 3
  SegmentThreshold = 4
  Transport = "same_spindle"
  Workers = {w1}
  PerWorkerQueue = 2
  BatchFiles = 3
  BreakerThreshold = 2
SPECIFICATION Spec
INVARIANTS
  PhasesApart
PROPERTY
  Terminates
