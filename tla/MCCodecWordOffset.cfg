SPECIFICATION Spec
CONSTANTS
  Lines <- LinesValue
  Offsets <- OffsetsValue
INVARIANTS
  UnsignedOffsetKept
CHECK_DEADLOCK FALSE
