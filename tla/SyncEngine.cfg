SPECIFICATION FairSpec
CONSTANTS
  c1 = c1
  c2 = c2
  u1 = u1
  loop = loop
  none = none
  Calendars <- MCCalendars
  Clients <- OneClient
  Loop <- loop
  None <- none
INVARIANTS
  TypeOK
  CalendarExclusion
  StatusTellsTheTruth
  StopWaitsForLoop
PROPERTIES
  ImplementsMutex
  KeepsSyncing
  StopReturns
  SyncNowReturns
