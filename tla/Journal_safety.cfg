CONSTANTS
  p1 = p1
  p2 = p2
  t1 = t1
  t2 = t2
  t3 = t3
  s1 = s1
  s2 = s2
  None = None
  Paths = {p1, p2}
  Temps = {t1, t2, t3}
  Sigs = {s1, s2}
  MaxMark = 2
  MaxAppends = 6
  MaxRuns = 3
SPECIFICATION Spec
SYMMETRY Symmetry
INVARIANTS
  TypeOK
  ReplayIsFaithful
  MemoryIsFaithful
  ProofsOutliveCrashes
CHECK_DEADLOCK FALSE
