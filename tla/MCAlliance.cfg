CONSTANTS
  g1 = g1
  g2 = g2
  Gifts = {g1, g2}
  NoGift = none
  GiftsAtLogin = {g1}
  GIFT_SLOTS = 2
  MaxLists = 2
  EmptyLast = FALSE
  m1 = m1
  m2 = m2
  m3 = m3
  Members = {m1, m2, m3}
  NoMember = none
  MAX_ALLIANCE_MEMBER = 2
  U8 = 3
  MaxMemberLists = 2
  MaxChanges = 1
  UpdatesInList = FALSE
  UpdateLast = {TRUE}
  h1 = h1
  h2 = h2
  Records = {h1, h2}
  NoRecord = none
  HELP_SLOTS = 2
  MaxTold = 4
  r1 = r1
  r2 = r2
  Rallies = {r1, r2}
  NoRally = none
  RALLY_SLOTS = 1
  MaxOnWay = 2
SPECIFICATION SpecAlliance
CHECK_DEADLOCK FALSE
INVARIANTS
  GiftTypeOK
  TableMirrorsBox
  MemberTypeOK
  RollCall
  OneHelpPerTelling
  HallTypeOK
  AsLastShown
PROPERTIES
  ReadyOpensLive
