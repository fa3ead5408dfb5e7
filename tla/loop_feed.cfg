CONSTANTS
  NumConfigs = 2
  Watched = {1, 2}
  Debounced = {2}
  Ticking = {}
  ChanCap = 1
  Bounds <- MCFeedBounds
SPECIFICATION FairSpec
INVARIANTS
  TypeOK
  NoMissedChange
PROPERTIES
  ImplementsFeed
CHECK_DEADLOCK FALSE
