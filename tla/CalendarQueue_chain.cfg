SPECIFICATION FairSpec
CONSTANTS
  Ops = {o1, o2, o3}
  Events = {e1}
  Leases = {l1, l2, l3}
  None = None
  UserKinds = {"create", "update", "delete"}
  BatchLimit = 2
  ActiveChainLimit = 3
CHECK_DEADLOCK FALSE
INVARIANTS NoOvertaking OneOpenUpload
PROPERTIES ReconciledBeforeReplay ImplementsEditLog EveryEditSettles
