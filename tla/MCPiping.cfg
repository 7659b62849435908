SPECIFICATION FairSpec
CONSTANTS
  MAX_MSG_SIZE = 2
  Capacity = 3
  Sizes = {1, 2, 5}
  GarbageSizes = {0, 3}
  Mortal <- Everyone
  MaxMessages = 3
  MaxReceives = 3
  MaxInterrupts = 1
INVARIANTS
  TypeOK
  OkMeansAccepted
  FramesAligned
  ReceivedAsSent
PROPERTY
  EverythingReceived
CHECK_DEADLOCK FALSE
