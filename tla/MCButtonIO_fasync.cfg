SPECIFICATION Spec
CONSTANTS
  f1 = f1
  f2 = f2
  Files = {f1, f2}
  NonBlocking = {}
  Pollers = {}
  Subscribers = {f1, f2}
  BadBuffers = {}
SYMMETRY Symmetry
PROPERTIES NoPressDropped
