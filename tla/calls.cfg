CONSTANTS
  g1 = g1
  g2 = g2
  g3 = g3
  Goroutines = {g1, g2, g3}
  HidesSelf = {g3}
  Self = self
  NoID = noid
  Bounds <- MCFaultyBounds
  a = a
  b = b
  ab = ab
  aa = aa
  Nil = nil
  Other = other
  Default = b
  Strings <- MCStrings
  Split <- MCSplit
  Lists <- MCLists
  Comparisons <- MCComparisons
  Keys <- MCKeys
  Missing = ""
  Numbers <- MCNumbers
  Value <- MCValue
  Rank <- MCRank
  KeyLists <- MCKeyLists
  Ports <- MCPorts
  Bindings = {"first", "second"}
  Unbound = "none"
  Characters <- MCCharacters
  QuoteValues <- MCQuoteValues
  Values <- MCValues
  Kind <- MCKind
  Under <- MCUnder
  Names = {"a", "b", "c"}
  Paths <- MCPaths
  NoValue = "nil"
  OwnID = "own"
  IDs = {"own", "other", "layer"}
  EmptyID = ""
  TooLong = toolong
  FileLists <- MCFileLists
  PortNumbers = {"80", "443"}
  Labels = {"x", "y"}
  AllPorts = allports
  Malformed = malformed
  ArgLists <- MCArgLists
  Waits <- MCWaits
  ChanCap = 1
  NumEvents = 6
SPECIFICATION CallsSpec
INVARIANTS
  StoreTypeOK
  IdComesBack
  CurrentAvailable
  DebounceTypeOK
  ArmedIffPending
  NotOverdue
  TypeOK
  GroupsExact
  SelectionExact
  FailsOnNoString
  SortsStably
  NeighboursInOrder
  AddressOrderFixed
  AddressesExact
  ReadAsOneWord
  QuotedOnce
  FailsAsDocumented
  FindsWhatIsThere
  LabelsFound
  HostnameWins
  NeverALayer
  ListsAsDocumented
PROPERTIES
  Paced
  EveryEventArrives
  ImplementsCoalesce
CHECK_DEADLOCK FALSE
