SPECIFICATION Spec
CONSTANTS
  SoftdogNum = 2
  Nowayout = FALSE
  Timeouts <- OneChanges
  SoftMargin = 2
INVARIANTS TypeOK RefsExact ExitFindsNothingArmed
PROPERTIES WarnsBeforeFire
CHECK_DEADLOCK FALSE
