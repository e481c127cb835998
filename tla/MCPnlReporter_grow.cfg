CONSTANTS
  t1 = t1
  t3 = t3
  Trades = {t3}
  ModeOf <- OneOfEach
  Schedule <- BothModes
  CloseTime <- Closes
  DayLength = 3
  MaxDay = 2
  MaxRestarts = 1
  Fails = FALSE
SPECIFICATION Spec
PROPERTIES
  ReportsGrow
