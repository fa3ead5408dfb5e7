CONSTANTS
  NumConfigs = 1
  Watched = {1}
  Debounced = {}
  Ticking = {}
  ChanCap = 1
  Bounds <- MCHangupBounds
SPECIFICATION FairSpec
PROPERTIES
  EveryTermStops
CHECK_DEADLOCK FALSE
