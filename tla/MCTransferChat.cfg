CONSTANTS
  p1 = p1
  p2 = p2
  none = none
  Players <- MCPlayers
  NoOne = none
  Kinds <- MCKinds
  Food = "food"
  Asks <- MCAsks
  Capacity = 2
  MaxMarches = 2
  Reserve <- MCNoReserve
  LookupWait = 1
  Stock <- MCStock
  MaxCommands = 1
  ChatArrives = TRUE
  BadNumbers = FALSE
SPECIFICATION FairSpec
CHECK_DEADLOCK FALSE
PROPERTY BusyEndsWithChat
