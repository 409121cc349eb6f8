SPECIFICATION Spec
CONSTANTS
  Ctxs = {c1}
  Required = 2
  Start = 4
  MaxClock = 6
  MaxQueue = 1
  MaxBreaks = 1
  MaxCrashes = 0
  MaxFails = 0
  MaxFaults = 1
CHECK_DEADLOCK FALSE
INVARIANTS
  HistoryIsStored
