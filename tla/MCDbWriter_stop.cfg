CONSTANTS
  t0 = t0
  t1 = t1
  t2 = t2
  Trades <- Two
  Key <- OwnKeys
  Persisted = {}
  QueueSize = 3
  BatchSize = 1
  MaxWrites = 2
SPECIFICATION Spec
PROPERTIES
  FlushesTheRest
CHECK_DEADLOCK FALSE
