SPECIFICATION FairSpec
CONSTANTS
  Projects = {a, b}
  Buffer = 1
  MaxChanges = 2
  MaxTrades = 2
  MaxLost = 1
  MaxRejects = 1
  MaxFails = 1
CHECK_DEADLOCK FALSE
INVARIANTS
  NoSilentGap
  MembershipAgrees
PROPERTIES
  Retained
  Converges
