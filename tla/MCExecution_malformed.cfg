CONSTANTS
  Trades = {t1, t2}
  NoTrade = NoTrade
  NoId = NoId
  NoTick = NoTick
  NoTarget = NoTarget
  Entries <- TwoEntries
  Prices = {1, 2}
  MaxDay = 1
  TradingDays = {1}
  NotionalUsd = 2
  OrderQuantity = 0
  Tolerance = 0
  Paper = FALSE
  Faults = {"malformed_reply"}
SPECIFICATION Spec
INVARIANT ClaimsAreServed
