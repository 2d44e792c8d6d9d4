SPECIFICATION Spec
CONSTANTS
  TickCalls <- AnyTick
  ConnCalls <- AnyConn
  RecvCalls <- AnyRecv
  Reconnects <- AnyReconnects
  MaxOut = 2
  MaxFaults = 4
  MaxQueue = 5
INVARIANTS
  BlocksOnlyConnecting Paired OneReader NoLostWakeup
  NeverStuckConnecting NoStaleKill
