SPECIFICATION MCSpec
CONSTANTS
  MaxAttempts = 2
  MaxUses = 2
  Gens = {1, 2, 3}
  v1 = v1
  Versions = {v1, v2}
  MaxTroubles = 2
  None = None
INVARIANTS NoOrphans TruthfulEnds UnknownIsQuarantined SlotIsHeld
PROPERTIES TurnsLeftAlone
CHECK_DEADLOCK FALSE
