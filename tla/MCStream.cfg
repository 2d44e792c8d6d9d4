SPECIFICATION FairSpec
CONSTANTS
  DefaultSize = 4
  MaxSize = 17
  SizeT = 64
  Junk = Junk
  LengthSize = 2
  Base = 5
  Setups <- AllSetups
  MaxSessions = 2
INVARIANTS Conserved OwnPackets FaultsOnlyOnForeign WholeDatagrams
PROPERTY Delivered
CHECK_DEADLOCK FALSE
