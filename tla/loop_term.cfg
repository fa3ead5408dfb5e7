CONSTANTS
  NumConfigs = 1
  Watched = {1}
  Debounced = {1}
  Ticking = {1}
  ChanCap = 1
  Bounds <- MCTermBounds
SPECIFICATION FairSpec
PROPERTIES
  DebouncersCoalesce
  TermStops
CHECK_DEADLOCK FALSE
