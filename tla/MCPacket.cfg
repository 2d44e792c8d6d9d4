SPECIFICATION PacketSpec
CONSTANTS
  Value = {v1, v2}
  Mark = Mark
  Width = 16
  MaxDepth = 3
  MaxItems = 2
  MaxDone = 2
INVARIANTS Exact PeerReads
CHECK_DEADLOCK FALSE
