CONSTANTS
  Trades = {t1, t2}
  NoTrade = NoTrade
  NoId = NoId
  NoTick = NoTick
  NoTarget = NoTarget
  Entries <- TwoEntries
  Prices = {0, 1, 2}
  MaxDay = 1
  TradingDays = {1}
  NotionalUsd = 2
  OrderQuantity = 0
  Tolerance = 0
  Paper = FALSE
  Faults = {}
SPECIFICATION Spec
SYMMETRY Symmetry
INVARIANTS
  ExclusiveExit
  ClaimsAreServed
  OrdersKnown
  HoldsFollowOrders
PROPERTIES
  LiveRowsAdvance
