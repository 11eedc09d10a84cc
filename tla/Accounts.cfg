SPECIFICATION Spec
CONSTANTS
  ui = ui
  ticker = ticker
  click = click
  home = home
  nobody = nobody
  Ids <- TwoIds
  Actors <- AllActors
  Nobody <- nobody
  Home <- home
  Loop <- ui
  Faults = {"sql", "keyring", "reply", "crash"}
  MaxFaults = 1
  MaxTokens = 2
  MaxLogins = 1
  MaxMoves = 5
INVARIANTS
  TypeOK
  Indexed
  StayConnected
  OneHolder
  RowHasSecret
  
SYMMETRY Alike
CONSTRAINT Budget
CHECK_DEADLOCK FALSE
