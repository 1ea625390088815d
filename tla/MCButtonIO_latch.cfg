SPECIFICATION FairSpec
CONSTANTS
  f1 = f1
  Files = {f1}
  NonBlocking = {}
  Pollers = {f1}
  Subscribers = {}
  BadBuffers = {}
PROPERTIES ImplementsLatch
