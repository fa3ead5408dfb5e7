CONSTANTS
  g1 = g1
  g2 = g2
  g3 = g3
  Goroutines = {g1, g2}
  HidesSelf = {}
  Self = self
  NoID = noid
  Bounds <- MCQuietBounds
SPECIFICATION StoreSpec
INVARIANTS
  TemplatesSeeId
CHECK_DEADLOCK FALSE
