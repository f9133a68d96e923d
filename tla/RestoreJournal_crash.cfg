SPECIFICATION RestoreSpec
CONSTANTS
  MaxBegun = 2
  MaxResets = 1
  MaxTroubles = 4
  Missing = Missing
  Hollow = Hollow
  Fresh = Fresh
  Default = Default
INVARIANTS OwnersKept CredentialsFollowRoot
