CONSTANTS
  Short = Short
  SHIELD_14D = SHIELD_14D
  Shields = {Short, SHIELD_14D}
  Settings <- MCAllSettings
  Duration <- MCDuration
  Bag <- MCBag
  MaxBag = 1
  Until <- MCMaybe
  MaxNow = 3
  MaxWire = 4
  RefusesAtWill = TRUE
SPECIFICATION SpecBoth
INVARIANTS
  TypeOK
  OneShieldOrder
  FirstListed
PROPERTIES
  ImplementsExchange
  NoWaste
  PendingEndsLive
  KnownAttackShieldedLive
