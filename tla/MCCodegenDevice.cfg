SPECIFICATION Spec
CONSTANTS
  x = x
  y = y
  NUM_REGISTERS = 6
  Vars <- VarsValue
  Pins = {2}
  Ints = {}
  Ops = {}
  Times = {}
  Address = 700
  WAIT_SECOND = 100
  WordWidth = 12
  TokenWidth = 8
  MovzWidth = 10
  StackPointer = 900
  MaxPending = 3
  MaxLine = 12
SYMMETRY Symmetry
INVARIANT StoreAddressed
CHECK_DEADLOCK FALSE
