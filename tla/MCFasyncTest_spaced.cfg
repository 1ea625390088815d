SPECIFICATION TestSpec
CONSTANTS
  f1 = f1
  f2 = f2
  Files = {f1, f2}
  NonBlocking = {}
  Pollers = {f2}
  Subscribers = {f1}
  BadBuffers = {}
  Spaced = TRUE
PROPERTIES HandlerReturns HandlerReportsPress
