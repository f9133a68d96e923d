SPECIFICATION FairEventSpec
CONSTANTS
  Groups = {time, title}
  MaxOps = 3
  MaxForeign = 1
INVARIANTS RecordedTruly InStep
PROPERTY NoSilentOverwrite EditsSettle
