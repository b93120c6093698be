CONSTANTS
  None = None
  MaxNotes = 2
  MaxFaults = 3
  MaxRuns = 2
  Displays = {"plain", "dashboard"}
SPECIFICATION FairSpec
INVARIANTS
  TypeOK
  
  EndIsTerminal
  
  ExitIsTrue
  
PROPERTIES
  Ends
CHECK_DEADLOCK FALSE
