CONSTANTS
  Senders = {a, b}
  Permissions = {{"w", "s", "c", "n"}, {"c", "n"}}
  Balance = 1
  MaxTx = 3
  MaxVms = 4
  MaxCalls = 2
SPECIFICATION Spec
SYMMETRY SenderSymmetry

CHECK_DEADLOCK FALSE
INVARIANT SpendsWithinBalance
