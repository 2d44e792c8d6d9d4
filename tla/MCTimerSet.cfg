SPECIFICATION SetSpec
CONSTANTS
  Element = {t1, t2, t3}
  End = End
  Freed = Freed
  MaxRehashes = 1
INVARIANTS ErasesSelfSafely EachOnce
CHECK_DEADLOCK FALSE
