SPECIFICATION Spec
CONSTANTS
  Accounts = {a1, a2}
  LegacyAccount = a1
  Calls = {c1}
  Disconnects = {d1}
  MaxGrants = 2
  AccountLimit = 2
  MaxKept = 1
  InitialRecords = {{}, {"token", "account"}, {"client", "account"}, {"client"}}
  None = None
INVARIANTS DisconnectSticks
PROPERTIES NeverRegresses FlowsEnd
CHECK_DEADLOCK FALSE
