SPECIFICATION Spec
CONSTANTS
  Projects = {a, b}
  Buffer = 1
  MaxChanges = 2
  MaxTrades = 3
  MaxLost = 1
  MaxRejects = 1
  MaxFails = 1
SYMMETRY Symmetry
CHECK_DEADLOCK FALSE
INVARIANTS
  NoStaleSession
