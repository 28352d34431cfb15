CONSTANTS
  MaxCalls = 2
  Capacity = 1
  NoCall = 9
SPECIFICATION RunSpec
INVARIANTS
  ReturnIsValidated
CHECK_DEADLOCK FALSE
