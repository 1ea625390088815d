SPECIFICATION TestSpec
CONSTANTS
  p1 = p1
  p2 = p2
  Procs = {p1, p2}
  MemSize = 3
  MaxLen = 3
  Offsets = {0}
INVARIANTS AssertionHolds
CHECK_DEADLOCK FALSE
