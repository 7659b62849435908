SPECIFICATION Spec
CONSTANTS
  Words <- ElevenLetters
  MaxTimes <- Times
INVARIANT WordInserted
CHECK_DEADLOCK FALSE
