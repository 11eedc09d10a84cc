SPECIFICATION Spec
CONSTANTS
  Times <- SomeTimes
  MaxEvents = 5
  DayLengths = {1380, 1440, 1500}
  ColWidth = 176
INVARIANTS
  GroupsApart
  Balanced
  SideBySide
  
CHECK_DEADLOCK FALSE
