SPECIFICATION FairSpec
CONSTANT MaxCalls = 3
INVARIANTS OneWait KeepsTicking CancelStops
PROPERTY Served
CHECK_DEADLOCK FALSE
