SPECIFICATION Spec
CONSTANTS
  Days = 4
  Slots = 2
  Untils = {3, 4}
  MaxEdits = 3
  Careful = FALSE
  MaxFaults = 1
PROPERTIES
  ScopeIsKept
CHECK_DEADLOCK FALSE
