CONSTANTS
  main = main
  events = events
  signals = signals
  w1 = w1
  w2 = w2
  t1 = t1
  x = x
  y = y
  gone = gone
  Main = main
  Events = events
  Signals = signals
  Gone = gone
  Addrs = {x, y}
  NumConfigs = 1
  NumContainers = 2
  Watchers = {w1}
  Tickers = {}
  ConfigOf <- MCConfigOfWatcher
  Notifies <- MCNotifies1
  ToStdout = {}
  KeepBlankLines = {}
  ChanCap = 1
  Faults = {}
  Bounds <- MCResyncBounds
SPECIFICATION FairSpec
PROPERTIES
  DestFollowsDocker
CHECK_DEADLOCK FALSE
