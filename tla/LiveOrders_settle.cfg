SPECIFICATION FairSpec
CONSTANTS
  Tokens <- MCTokens
  MaxOrders = 2
  MaxOpen = 2
  MaxTotal = 2
  MaxToggles = 1
  MaxCuts = 0
  MaxCrashes = 1
  MaxErrors = 1
CHECK_DEADLOCK FALSE
PROPERTIES
  OrdersSettle
