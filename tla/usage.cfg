CONSTANTS
  PortNumbers = {"80", "443"}
  Labels = {"x", "y"}
  AllPorts = allports
  Malformed = malformed
  ArgLists <- MCStatusLists
SPECIFICATION FilterSpec
INVARIANTS
  FollowsUsage
CHECK_DEADLOCK FALSE
