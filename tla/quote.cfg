CONSTANTS
  Characters <- MCCharacters
  QuoteValues <- MCQuoteValues
SPECIFICATION QuoteSpec
INVARIANTS
  MixedFails
CHECK_DEADLOCK FALSE
