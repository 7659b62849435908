SPECIFICATION Spec
CONSTANTS
  N = 3
  NumPaths = 4
  Kinds <- WcOnly
  Deadlines <- NoDeadline
  MaxCommands = 1
  MaxCrashes = 0
INVARIANT NoSelfCrash
CHECK_DEADLOCK FALSE
