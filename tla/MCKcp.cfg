SPECIFICATION FairSpec
CONSTANTS
  Apps <- ThreeApps
  MaxConv = 2
  MaxOut = 2
  MaxInbox = 2
  MaxFaults = 4
  MaxQueue = 4
INVARIANTS OneReader ConvOfPeer ToldFirst Paired
PROPERTY Recovers
CHECK_DEADLOCK FALSE
