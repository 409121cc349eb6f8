SPECIFICATION Spec
CONSTANTS
  Tokens <- MCTokens
  MaxOrders = 3
  MaxOpen = 2
  MaxTotal = 2
  MaxToggles = 1
  MaxCuts = 1
  MaxCrashes = 1
  MaxErrors = 1
CHECK_DEADLOCK FALSE
INVARIANTS
  OnRecord
  BuysApart
PROPERTIES
  SendsAllowed
