SPECIFICATION FairSpec
CONSTANTS
  N = 2
  NumPaths = 2
  Kinds <- AllKinds
  Deadlines <- AnyDeadline
  MaxCommands = 2
  MaxCrashes = 2
PROPERTIES
  RoundEnds
  DeadWorkerRevived
CHECK_DEADLOCK FALSE
