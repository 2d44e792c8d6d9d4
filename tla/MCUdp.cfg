SPECIFICATION FairSpec
CONSTANTS
  Apps <- ThreeApps
  MaxInbox = 2
  MaxFaults = 4
  MaxQueue = 3
INVARIANTS Attached RightPlace
PROPERTY Stabilises
CHECK_DEADLOCK FALSE
