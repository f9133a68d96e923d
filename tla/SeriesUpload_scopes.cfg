SPECIFICATION FairSeriesSpec
CONSTANTS
  Slots = {1, 2, 3}
  ForeignSlots = {2}
  MaxOps = 2
  MaxForeign = 1
  MaxTrouble = 1
INVARIANTS WithinScope RecordedTruly RowsInStep
PROPERTY EditsSettle
