SPECIFICATION FairSpec
CONSTANTS
  Types = {0, 1, 2}
  Loops = 3
  TestCnt = 2
INVARIANTS MutualExclusion ExactResult RacyResultBounds RoundsDoNotOverlap
PROPERTIES LoadingTerminates
CHECK_DEADLOCK FALSE
