SPECIFICATION Spec
CONSTANTS
  Functions <- FunctionsValue
  LOOP = "LOOP"
  MaxFunctions = 2
  EvalLines = {1}
  MaxSource = 9
  MaxDepth = 3
INVARIANTS
  TypeOK
  CodeFollowsSource
  NamesResolve
PROPERTY LabelsSettled
CHECK_DEADLOCK FALSE
