CONSTANTS
  g1 = g1
  g2 = g2
  g3 = g3
  Gifts = {g1, g2, g3}
  NoGift = none
  GiftsAtLogin = {g1, g2, g3}
  GIFT_SLOTS = 3
  MaxLists = 1
  EmptyLast = FALSE
SPECIFICATION GiftSpec
CHECK_DEADLOCK FALSE
PROPERTY OnlyUnopened
