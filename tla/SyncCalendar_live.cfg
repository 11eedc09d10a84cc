SPECIFICATION FairSpec
CONSTANTS
  w1 = w1
  w2 = w2
  none = none
  None <- none
  Kinds = {"outlook"}
  Workers <- OneWorker
  EngineOf <- SameEngine
  Buttons <- NoButtons
  MaxEdits = 1
  MaxRemote = 1
  Faults = {"push", "fetch"}
  MaxFaults = 1
PROPERTIES
  
  
  UpsertsDrain
  
