SPECIFICATION Spec
CONSTANTS
  Words <- ElevenLetters
  MaxTimes <- Times
INVARIANTS
  RotationsSafe
PROPERTY ImplementsDictionary
CHECK_DEADLOCK FALSE
