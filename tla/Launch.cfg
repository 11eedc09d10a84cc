SPECIFICATION Spec
CONSTANTS
  nobody = nobody
  Procs <- ThreeProcs
  Nobody <- nobody
  Last = 2
  Length <- TwoMigrations
  Faults = {"sql", "pipe", "crash"}
  MaxFaults = 1
INVARIANTS
  SchemaIsCurrent
  OneTray
PROPERTIES
  SomebodyStarts
  ForwardedIsOpened
CHECK_DEADLOCK FALSE
