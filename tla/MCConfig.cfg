CONSTANTS
  Lines <- MCLines
  MaxLines = 3
  SLOTS = 2
  U32 = 4
SPECIFICATION Spec
INVARIANTS
  TypeOK
  
  NothingWrongLoaded
  DefaultAccepted
CHECK_DEADLOCK FALSE
