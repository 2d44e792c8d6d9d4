SPECIFICATION Spec
CONSTANTS
  DefaultSize = 8
  MaxSize = 33
  SizeT = 128
  Junk = Junk
  Mark = Mark
  Word = 2
  Programs <- WordsOrOther
  Values = 3
INVARIANTS WordsSafe WriteSafe
PROPERTY RefinesByteQueue
CHECK_DEADLOCK FALSE
