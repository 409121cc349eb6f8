SPECIFICATION FairSpec
CONSTANTS
  None = None
  Exec = {w1}
  Pools = {p1, p2}
  Ticks = 1
  MaxEnv = 2
CHECK_DEADLOCK FALSE
INVARIANTS
  OneExecution
PROPERTIES
  RunSettles
