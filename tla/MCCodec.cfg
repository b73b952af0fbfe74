SPECIFICATION Spec
CONSTANTS
  Lines <- LinesValue
  Offsets <- OffsetsValue
INVARIANTS
  TypeOK
  RoundTrip
  StaleInvisible
  CompletionAgrees
CHECK_DEADLOCK FALSE
