SPECIFICATION FairSpec
CONSTANTS
  w1 = w1
  w2 = w2
  none = none
  None <- none
  Kinds = {"caldav"}
  Workers <- OneWorker
  EngineOf <- SameEngine
  Buttons <- NoButtons
  MaxEdits = 0
  MaxRemote = 1
  Faults = {}
  MaxFaults = 0
PROPERTIES
  RemoteChangesArrive
