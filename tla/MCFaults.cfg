SPECIFICATION Spec
CONSTANTS
  N = 2
  NumPaths = 2
  Kinds <- AllKinds
  Deadlines <- AnyDeadline
  MaxCommands = 3
  MaxCrashes = 2
INVARIANTS
  TypeOK
  CommandsInOrder
  LoadComesFirst
  NoStaleAnswer
  MissingAnswerExplained
  AlarmOnlyInSearch
  DeadlineOnlyInSearch
  ReadyMeansReadable
  RoundInv
PROPERTY
  ImplementsService
CHECK_DEADLOCK FALSE
