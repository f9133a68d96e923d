SPECIFICATION Spec
CONSTANTS
  MaxAttempts = 2
  MaxCancels = 1
  MaxFaults = 2
  None = None
INVARIANTS OneTurn CancelHolds
PROPERTIES OutcomeIsFinal EveryTurnEnds
CHECK_DEADLOCK FALSE
