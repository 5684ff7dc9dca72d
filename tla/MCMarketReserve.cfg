CONSTANTS
  Food = Food
  Wood = Wood
  Kinds = {Food, Wood}
  Slots <- MCSlots
  Offers <- MCOffers
  AutoTrade = TRUE
  Spend = {Food}
  Reserve <- MCReserve
  WORD = 8
  Stock <- MCStock
  MaxStock = 0
  MaxRefresh = 0
  ChatArrives = FALSE
  RefusesAtWill = FALSE
SPECIFICATION FairSpec
PROPERTY ReserveKept
