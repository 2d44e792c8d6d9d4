SPECIFICATION Spec
CONSTANTS
  ArraySize = 1
  ArrayLimit = 6
  BipSize = 2
  BipLimit = 5
  SizeT = 32
  Null = Null
  Junk = Junk
  Sizes <- AnySizes
  Values = 3
INVARIANTS SafeBelowLimit ReadsBack
PROPERTY QueueButMisreads
CHECK_DEADLOCK FALSE
