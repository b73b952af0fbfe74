SPECIFICATION Spec
CONSTANTS
  NUM_REGISTERS = 7
  Vars = {"p", "x"}
  Parameters <- ParametersValue
  Ints = {1}
  Larges = {}
  Results = {7}
  CalleeSizes = {2}
  Entry <- EntryValue
  Garbage = {2}
  MAX_ARGS = 2
  SavedBase = 3
  RP = 6
  MAX_STACK_SIZE = 6
  TokenWidth = 8
  MaxLine = 40
INVARIANT ResultReturned
CHECK_DEADLOCK FALSE
