CONSTANTS
  v1 = v1
  v2 = v2
  VMs <- MCVMs
  Sizes <- MCSizes
  Limit = 6
  FdCost = 1
  StdinLen = 3
  LastStd = 0
  MaxFd = 2
  MaxStdinCloses = 1
SPECIFICATION Spec
SYMMETRY VMSymmetry
INVARIANTS
  LimiterSound
  DescriptorsSound
CHECK_DEADLOCK FALSE
