CONSTANTS
  Trades = {t1, t2, t3, t4}
  NoTrade = NoTrade
  NoId = NoId
  NoTick = NoTick
  NoTarget = NoTarget
  Entries <- OneSignal
  Prices = {0, 1, 2, 3}
  MaxDay = 2
  TradingDays = {1, 2}
  NotionalUsd = 2
  OrderQuantity = 0
  Tolerance = 0
  Paper = TRUE
  Faults = {}
SPECIFICATION Spec
SYMMETRY Symmetry
INVARIANT KeysUnique
