CONSTANTS
  Execs = {1, 2}
  Sync = {2}
  Permits = 3
  Targets = {1, 2, 4}
  MaxSets = 2
SPECIFICATION Spec
INVARIANT HeldWithinLimit
PROPERTY WaitingEnds
CHECK_DEADLOCK FALSE
