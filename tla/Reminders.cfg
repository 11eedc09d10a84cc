SPECIFICATION Spec
CONSTANTS
  p1 = p1
  e1 = e1
  Loop = Loop
  Null = Null
  Gone = Gone
  Persisters <- OnePersister
  Events <- OneEvent
  Interval = 2
  Window = 4
  MaxFailures = 1
  MaxWrites = 2
  MaxSaves = 2
  MaxTime = 6
INVARIANTS
  OncePerSession
  ShownInTime
