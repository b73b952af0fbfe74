SPECIFICATION Spec
CONSTANTS
  MAX_INDENT = 3
  Indents <- IndentsValue
  MaxLines = 8
INVARIANTS
  TypeOK
  PopNeverFails
  AcceptedAtMargin
PROPERTIES
  EnclosingKept
  GradualLinesFollowLayout
CHECK_DEADLOCK FALSE
