CONSTANTS
  m1 = m1
  m2 = m2
  m3 = m3
  Members = {m1, m2, m3}
  NoMember = none
  MAX_ALLIANCE_MEMBER = 3
  U8 = 5
  MaxMemberLists = 1
  MaxChanges = 1
  UpdatesInList = TRUE
  UpdateLast = {TRUE}
SPECIFICATION MemberSpec
CHECK_DEADLOCK FALSE
PROPERTY BegunByFirst
