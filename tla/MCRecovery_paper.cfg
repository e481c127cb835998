CONSTANTS
  Trades = {t1, t2, t3}
  NoTrade = NoTrade
  NoId = NoId
  NoTick = NoTick
  NoTarget = NoTarget
  UpToDate = UpToDate
  Entries <- OneEntry
  Prices = {1, 2}
  MaxDay = 2
  TradingDays = {1, 2}
  NotionalUsd = 2
  OrderQuantity = 0
  Tolerance = 0
  Paper = TRUE
  Faults = {}
  MaxCrashes = 2
SPECIFICATION RecoverySpec
SYMMETRY Symmetry
INVARIANTS
  PaperBookSurvives
  BookKeysUnique
