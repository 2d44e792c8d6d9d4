SPECIFICATION Spec
CONSTANTS
  Kcp = TRUE
  Remotes = {r1, r2, r3}
  None = None
  MaxConv = 3
  MaxInbox = 2
  MaxFaults = 2
INVARIANTS OneSession ConvUnique Accepting
