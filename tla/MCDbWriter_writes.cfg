CONSTANTS
  t0 = t0
  t1 = t1
  t2 = t2
  Trades <- Three
  Key <- KeyReused
  Persisted <- OldRow
  QueueSize = 3
  BatchSize = 2
  MaxWrites = 3
SPECIFICATION FairSpec
INVARIANTS
  NothingElseIsLost
PROPERTIES
  RowsAdvance
CHECK_DEADLOCK FALSE
PROPERTY WritesSettle
