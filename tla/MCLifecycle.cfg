SPECIFICATION Spec
CONSTANTS
  Drivers <- AllDrivers
  KnownEarly <- Early
  KnownLate <- Late
  KnownLeaks <- Leaks
  KnownStrays <- Strays
  KnownGaps <- Gaps
  KnownOrphans <- Orphans
INVARIANTS LoadedFollowsRules ReadyWhenCalled NothingLeaks NoStrayRelease BoundMeansComplete DependentsFirst
CHECK_DEADLOCK FALSE
