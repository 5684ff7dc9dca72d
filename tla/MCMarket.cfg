CONSTANTS
  Food = Food
  Wood = Wood
  Kinds = {Food, Wood}
  Slots <- MCThreeSlots
  Offers <- MCOffers
  AutoTrade = TRUE
  Spend = {Food}
  Reserve <- MCNoReserve
  WORD = 8
  Stock <- MCFoodOnly
  MaxStock = 0
  MaxRefresh = 1
  ChatArrives = TRUE
  RefusesAtWill = TRUE
SPECIFICATION SpecBoth
INVARIANTS
  TypeOK
  OneOrder
  SoldOnce
  KnowsStock
PROPERTIES
  ImplementsExchange
  TradesDoneLive
