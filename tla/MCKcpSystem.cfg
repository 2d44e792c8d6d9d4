SPECIFICATION FairSpec
CONSTANTS
  Client = {c1, c2}
  Receives = 2
  MaxConv = 2
  MaxPort = 2
  MaxSession = 3
  MaxFaults = 2
INVARIANTS NoCrossTalk Partners
PROPERTY Talks
CHECK_DEADLOCK FALSE
