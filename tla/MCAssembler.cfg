CONSTANTS
  Labels = {A, B}
  A = A
  B = B
  Immediates = {6}
  Codes = {7}
  NumInstrs = 3
  IntSize = 512
  Simm19Size = 8
  Simm26Size = 32
  MaxLines = 4
  Files <- MCFiles
SPECIFICATION FairSpec
INVARIANTS
  TypeOK
  RefsResolvedOrPending
PROPERTIES
  ImplementsTwoPass
  CompletionTouchesPendingOffsets
  Terminates
CHECK_DEADLOCK FALSE
