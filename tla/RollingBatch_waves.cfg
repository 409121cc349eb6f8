SPECIFICATION FairSpec
CONSTANTS
  Tasks <- MCTasks
  ChainOf <- MCChainOf
  Pilots <- MCPilots
  Ranks <- MCRanks
  Keep = 1
  BatchSize = 2
  Unfit = Unfit
  Proc = {p1, p2}
  None = None
  MaxEnv = 3
CHECK_DEADLOCK FALSE
INVARIANTS
  LeadersKept
  WavesInOrder
PROPERTIES
  CommitsOnFreshReads
  BatchEnds
