CONSTANTS
  None = None
  Policies <- MCPolicies
  Times = {4, 5, 7}
  Modes = {"full", "copied"}
  MaxEvents = 2
SPECIFICATION Spec
INVARIANTS
  VerdictIsRight
  PassIsWhole
