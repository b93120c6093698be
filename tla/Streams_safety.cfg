CONSTANTS
  None = None
  Files <- MCFiles
  Chunk = 2
  Burst = 1
  LargeThreshold = 3
  CkptThreshold = 2
  SegThreshold = 2
  SegMin = 2
  SegMax = 3
  Interval = 2
  TierSize = 9
  Word = 5
  MaxChanges = 1
  MaxFaults = 2
  MaxRuns = 2
SPECIFICATION FairSpec
INVARIANTS
  PublishedIsEnumerated
  KeptIsClaimed
  BoundedLoss
  NeverInternal
PROPERTIES
  Returns
