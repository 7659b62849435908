SPECIFICATION Spec
CONSTANTS
  FirstSize = 5
  MaxFiles = 2
  MaxChars = 16
INVARIANTS
  TypeOK
  WritesInside
  EveryDocumentCounted
CHECK_DEADLOCK FALSE
