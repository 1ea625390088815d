SPECIFICATION AllSpec
CONSTANTS
  Readers = {"a", "b"}
  Writers = {"b"}
  MaxAlts = 2
  Levels = 4
  Periods = {0}
  Values = {5}
  XmitSize = 4
  FifoSize = 2
  FlipRoom = 3
  LastChar = 6
  IrqWriters = {"a", "b", "c"}
  MaxDepth = 3
  Temperatures <- MCTemperatures
  Cfgs = {1, 3, 4}
  Setters = {"a", "b"}
  Regmap = TRUE
  Size = 2
  Pixels = {0, 1}
  Painters = {"a", "b"}
INVARIANTS AllTypeOK CompleteFindsPriv NoLostGiveback PushedSampleConsistent IrqInStep ReadingWithinResolution PanelShowsMemory
PROPERTIES TransfersExact NoSilentRise ImplementsLoopback ExitReturns
CHECK_DEADLOCK FALSE
