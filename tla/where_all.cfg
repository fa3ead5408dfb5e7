CONSTANTS
  a = a
  b = b
  ab = ab
  aa = aa
  Nil = nil
  Other = other
  Default = b
  Strings <- MCStrings
  Split <- MCSplit
  Lists <- MCLists
  Comparisons <- MCComparisons
SPECIFICATION Spec
INVARIANTS
  AllValuesSelect
CHECK_DEADLOCK FALSE
