SPECIFICATION FairSpec
CONSTANTS
  Tokens <- MCTokens
  MaxOrders = 1
  MaxOpen = 2
  MaxTotal = 2
  MaxToggles = 0
  MaxCuts = 0
  MaxCrashes = 1
  MaxErrors = 0
CHECK_DEADLOCK FALSE
PROPERTIES
  HoldLifted
