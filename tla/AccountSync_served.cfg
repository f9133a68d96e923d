SPECIFICATION MCSpec
CONSTANTS
  Accounts = {a, b}
  Conns = {c1, c2, c3}
  Rows = {r1, r2}
  Names = {primary}
  Flows = {f1, f2}
  None = None
  Budget = 4
  Stages <- MCStages
CHECK_DEADLOCK FALSE
INVARIANTS WorkersFollowReady ExposedIsProven AccountsServed
SYMMETRY Symmetry
