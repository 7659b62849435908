SPECIFICATION Spec
CONSTANTS
  N = 2
  Files <- SmallFiles
  MaxSessions = 2
  MaxTurns = 2
  MaxFailures = 2
INVARIANTS
  EveryPathOnce
  
  EarlyEndExplained
PROPERTIES
  PromptReached
  NoOrphans
CHECK_DEADLOCK FALSE
