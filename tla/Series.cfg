SPECIFICATION Spec
CONSTANTS
  Days = 4
  Slots = 2
  Untils = {3, 4}
  MaxEdits = 3
  Careful = TRUE
  MaxFaults = 1
INVARIANTS
  TypeOK
  
  
PROPERTIES
  ScopeIsKept
  SplitIsWhole
CHECK_DEADLOCK FALSE
