CONSTANTS
  PageSize = 2
  NSlots = 3
  MaxIndex = 6
  PageLimit = 3
  Locked = {2}
  HeaderSize = 1
  CodeSize = 2
  MaxWrites = 2
  MaxDepth = 2
SPECIFICATION Spec
INVARIANTS
  ReadsReturnView
  DeltaReproducesView
  PaidExactlyOnce
PROPERTIES
  FlatSpec
CHECK_DEADLOCK FALSE
