SPECIFICATION FairSpec
CONSTANTS
  N = 3
  NumPaths = 5
  Kinds <- AllKinds
  Deadlines <- NoDeadline
  MaxCommands = 3
  MaxCrashes = 0
PROPERTIES
  CommandServed
  ExitTerminates
