SPECIFICATION FairSpec
CONSTANTS
  TickCalls <- ClientTick
  ConnCalls <- ClientConn
  RecvCalls <- ClientRecv
  Reconnects <- ClientReconnects
  MaxOut = 2
  MaxFaults = 3
  MaxQueue = 4
PROPERTY Recovers
