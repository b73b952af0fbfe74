SPECIFICATION TreeSpec
CONSTANTS
  MaxNodes = 6
  MaxOf <- MaxOfValue
INVARIANTS
  TreeTypeOK
  EachHeldOnce
  ReadsLive
  FreedOnce
CHECK_DEADLOCK FALSE
