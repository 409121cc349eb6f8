SPECIFICATION Spec
CONSTANTS
  Tokens <- MCTokens
  MaxOrders = 2
  MaxOpen = 2
  MaxTotal = 2
  MaxToggles = 0
  MaxCuts = 0
  MaxCrashes = 0
  MaxErrors = 1
CHECK_DEADLOCK FALSE
INVARIANTS
  OneAtATime
