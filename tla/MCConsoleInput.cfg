SPECIFICATION Spec
CONSTANTS
  Lines <- AllLines
  MaxLines = 4
INVARIANTS
  LinesServed
  Aligned
  CrashExplained
CHECK_DEADLOCK FALSE
