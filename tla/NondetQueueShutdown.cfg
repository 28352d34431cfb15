CONSTANTS
  MaxCalls = 2
  Capacity = 1
  NoCall = 9
SPECIFICATION FairSpec
PROPERTIES
  GracefulShutdown
CHECK_DEADLOCK FALSE
