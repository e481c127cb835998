CONSTANTS
  Trades = {t1}
  NoTrade = NoTrade
  NoId = NoId
  NoTick = NoTick
  NoTarget = NoTarget
  Entries <- OneEntry
  Prices = {1, 2}
  MaxDay = 1
  TradingDays = {1}
  NotionalUsd = 2
  OrderQuantity = 0
  Tolerance = 0
  Paper = FALSE
  Faults = {}
SPECIFICATION Spec
INVARIANT ExitCanBeRetried
