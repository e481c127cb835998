CONSTANTS
  Trades = {t1, t2}
  NoTrade = NoTrade
  NoId = NoId
  NoTick = NoTick
  NoTarget = NoTarget
  UpToDate = UpToDate
  Entries <- OneEntry
  Prices = {1, 2}
  MaxDay = 1
  TradingDays = {1}
  NotionalUsd = 2
  OrderQuantity = 0
  Tolerance = 0
  Paper = FALSE
  Faults = {"lost_reply"}
  MaxCrashes = 2
SPECIFICATION RecoverySpec
SYMMETRY Symmetry
INVARIANTS
  RecoveryTypeOK
  NeverRebuys
  NoOversell
  RecordedPositionsTracked
