SPECIFICATION Spec
CONSTANTS
  x = x
  y = y
  NUM_REGISTERS = 5
  Vars <- VarsValue
  Pins = {2}
  Ints = {1, 1500}
  Ops = {"-", "&"}
  Times = {1, 2}
  Address = 700
  WAIT_SECOND = 100
  WordWidth = 12
  TokenWidth = 8
  MovzWidth = 10
  StackPointer = 900
  MaxPending = 3
  MaxLine = 9
SYMMETRY Symmetry
INVARIANTS
  TypeOK
  OneRegisterEach
  VariablesKept
  SoundOperandsHold
  OvertakenOnlyAfterMove
  LeaksOnlyAddresses
  SeparateWaits
CHECK_DEADLOCK FALSE
