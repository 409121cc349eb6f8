SPECIFICATION FairSpec
CONSTANTS
  Ctxs = {c1}
  Required = 2
  Start = 4
  MaxClock = 8
  MaxQueue = 1
  MaxBreaks = 1
  MaxCrashes = 1
  MaxFails = 1
  MaxFaults = 1
CHECK_DEADLOCK FALSE
INVARIANTS
  DecidedInOrder
  ReadyIsCurrent
  MemoryIsStored
PROPERTIES
  EventuallyReady
