CONSTANTS
  p1 = p1
  p2 = p2
  none = none
  Players <- MCPlayers
  NoOne = none
  Kinds <- MCKinds
  Food = "food"
  Asks <- MCAsks
  Capacity = 2
  MaxMarches = 2
  Reserve <- MCNoReserve
  LookupWait = 1
  Stock <- MCStock
  MaxCommands = 3
  ChatArrives = TRUE
  BadNumbers = TRUE
SPECIFICATION SpecBoth
CHECK_DEADLOCK FALSE
INVARIANTS
  TypeOK
  Accounted
  WaitAnswered
  MarchesCounted
PROPERTIES
  NotDisplaced
  LookupEndsLive
  BusyEndsLive
