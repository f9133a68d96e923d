SPECIFICATION Spec
CONSTANTS
  Pids = {p1, p2}
  MaxRestarts = 2
  MaxRuns = 3
  MaxRestores = 1
  None = None
INVARIANTS NoStrayBackend NoFalseHealth
PROPERTY ServiceSettles
CHECK_DEADLOCK FALSE
