CONSTANTS
  Senders = {a, b}
  Permissions = {{"w", "s", "c", "n"}, {"c", "n"}}
  Balance = 1
  MaxTx = 3
  MaxVms = 4
  MaxCalls = 2
SPECIFICATION Spec
SYMMETRY SenderSymmetry
INVARIANTS
  NondetLeavesNoTrace
  WritesStayInside
  EachVmWithinBalance
PROPERTIES
  MetadataGuarded
CHECK_DEADLOCK FALSE
