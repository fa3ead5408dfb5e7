CONSTANTS
  main = main
  events = events
  signals = signals
  w1 = w1
  w2 = w2
  t1 = t1
  x = x
  y = y
  gone = gone
  Main = main
  Events = events
  Signals = signals
  Gone = gone
  Addrs = {x, y}
  NumConfigs = 2
  NumContainers = 2
  Watchers = {w1, w2}
  Tickers = {}
  ConfigOf <- MCConfigOfWatchers
  Notifies <- MCNotifies2
  ToStdout = {}
  KeepBlankLines = {}
  ChanCap = 1
  Faults = {}
  Bounds <- MCQuietBounds
SPECIFICATION PassesSpec
INVARIANTS
  TypeOK
  OnePassPerDest
  NoLostNotification
  OverlapNotifies
PROPERTIES
  DestFollowsDocker
  IntervalFollowsDocker
CHECK_DEADLOCK FALSE
