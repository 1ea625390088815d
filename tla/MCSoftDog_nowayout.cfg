SPECIFICATION FairSpec
CONSTANTS
  SoftdogNum = 1
  Nowayout = TRUE
  Timeouts <- AnyOfThree
  SoftMargin = 0
PROPERTIES NowayoutHolds AbandonedDogFires
CHECK_DEADLOCK FALSE
