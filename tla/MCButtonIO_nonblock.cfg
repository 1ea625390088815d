SPECIFICATION FairSpec
CONSTANTS
  f1 = f1
  f2 = f2
  Files = {f1, f2}
  NonBlocking = {f1}
  Pollers = {f1, f2}
  Subscribers = {}
  BadBuffers = {f2}
INVARIANTS NoLostWakeup PromiseKept
PROPERTIES NoPressDropped BlockedThreadServed
