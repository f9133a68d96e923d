SPECIFICATION FairSpec
CONSTANTS
  Accounts = {a1, a2}
  Used = {a1}
  Limit = 1
INVARIANTS GateCounts NeverAsleep
PROPERTIES QuietAfterLeaving WakeupsServed
CHECK_DEADLOCK FALSE
