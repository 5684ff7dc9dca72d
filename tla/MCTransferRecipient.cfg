CONSTANTS
  p1 = p1
  p2 = p2
  none = none
  Players <- MCPlayers
  NoOne = none
  Kinds <- MCKinds
  Food = "food"
  Asks <- MCAsks
  Capacity = 2
  MaxMarches = 2
  Reserve <- MCNoReserve
  LookupWait = 1
  Stock <- MCStock
  MaxCommands = 2
  ChatArrives = FALSE
  BadNumbers = FALSE
SPECIFICATION Spec
CHECK_DEADLOCK FALSE
PROPERTY RightCastle
