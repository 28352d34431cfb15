CONSTANTS
  MaxCalls = 3
  Capacity = 1
  NoCall = 9
SPECIFICATION FairSpec
INVARIANTS
  IndInv
  CountdownCountsTokens
  NoTaskLeftBehind
  AcceptedOnlyIfAllAgree
  ReportedNearMinimum
PROPERTIES
  VerdictMonotone
  VerdictSpec
  NobodyWaitsForever
CHECK_DEADLOCK FALSE
