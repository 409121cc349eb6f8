SPECIFICATION Spec
CONSTANTS
  None = None
  Exec = {w1, w2}
  Pools = {p1}
  Ticks = 1
  MaxEnv = 2
SYMMETRY Symmetry
CHECK_DEADLOCK FALSE
INVARIANTS
  ExactlyOnce
  OneExecution
  ReportIsFinal
PROPERTIES
  StopHonoured
  ImplementsContract
