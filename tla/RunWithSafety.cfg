CONSTANTS
  MaxCalls = 2
  Capacity = 1
  NoCall = 9
SPECIFICATION RunSpec
INVARIANTS
  ResultSound
  HostTold
CHECK_DEADLOCK FALSE
