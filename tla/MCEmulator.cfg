SPECIFICATION Spec
CONSTANTS
  Mode32 = 4
  ByteSize = 2
  ArithmeticShift = 1
  ZrSp = 2
  MemorySize = 8
  MaxSteps = 4
  Instructions <- InstructionsValue
  Images <- ImagesValue
INVARIANTS
  TypeOK
PROPERTIES
  OnlyNamedChange
  StoredIsLoaded
  ZeroFlagOfResult
  BranchFollowsComparison
CHECK_DEADLOCK FALSE
