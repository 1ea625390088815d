SPECIFICATION Spec
CONSTANTS
  p1 = p1
  p2 = p2
  Procs = {p1, p2}
  MemSize = 2
  MaxLen = 3
  Offsets <- MCOffsets
SYMMETRY Symmetry
INVARIANTS TypeOK InBounds
PROPERTIES PositionFollowsResult OnlyWritesAndOpensChangeMem
