SPECIFICATION Spec
CONSTANTS
  w1 = w1
  w2 = w2
  none = none
  None <- none
  Kinds = {"caldav", "outlook"}
  Workers <- OneWorker
  EngineOf <- SameEngine
  Buttons <- NoButtons
  MaxEdits = 1
  MaxRemote = 1
  Faults = {"enqueue", "push", "reply", "body", "fetch", "expire", "sql", "crash"}
  MaxFaults = 1
INVARIANTS
  QueuedOrKnown
  UniqueUrl
PROPERTIES
  DeletesReachServer
