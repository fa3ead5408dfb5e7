CONSTANTS
  NumConfigs = 2
  Watched = {1, 2}
  Debounced = {}
  Ticking = {}
  ChanCap = 1
  Bounds <- MCFaultBounds
SPECIFICATION Spec
INVARIANTS
  OnlyFailedLeftOut
CHECK_DEADLOCK FALSE
