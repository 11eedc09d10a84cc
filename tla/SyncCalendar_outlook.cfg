SPECIFICATION Spec
CONSTANTS
  w1 = w1
  w2 = w2
  none = none
  None <- none
  Kinds = {"outlook"}
  Workers <- TwoWorkers
  EngineOf <- SameEngine
  Buttons <- AllButtons
  MaxEdits = 2
  MaxRemote = 1
  Faults = {}
  MaxFaults = 0
INVARIANTS
  
  OwnCreateRecognised
  ConflictsAreTheUsers
PROPERTIES
  PushesInOrder
CONSTRAINT Budget
SYMMETRY Workers2
