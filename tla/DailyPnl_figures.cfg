CONSTANTS
  Symbols = {A, B}
  Prices = {1, 3}
  Quantities = {0, 1, 2}
  None = None
  Unit = 2
  MaxTrades = 2
  NoStats = NoStats
SPECIFICATION Spec
\* The function has returned.
CHECK_DEADLOCK FALSE
INVARIANTS
  AddsUp
  ResultIsProceedsLessCost
  MatchesReference
  RowCoherent
