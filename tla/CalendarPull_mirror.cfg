SPECIFICATION FairSpec
CONSTANTS
  Events = {e1, e2}
  NoToken = NoToken
  PassLimit = 3
  MaxChanges = 3
  MaxGeneration = 2
INVARIANTS MirrorIsSound
PROPERTIES SweepSparesListed EveryChangeArrives
CHECK_DEADLOCK FALSE
