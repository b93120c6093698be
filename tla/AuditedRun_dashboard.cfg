CONSTANTS
  None = None
  MaxNotes = 1
  MaxFaults = 1
  MaxRuns = 1
  Displays = {"dashboard"}
SPECIFICATION FairSpec
PROPERTIES
  AlwaysEnds
CHECK_DEADLOCK FALSE
