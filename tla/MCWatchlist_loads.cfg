CONSTANTS
  a = a
  b = b
  c = c
  d = d
  NoteLists <- Lists
  PageSize = 2
  MaxPages = 3
  MaxDay = 3
  Scheduled = TRUE
  Fails = TRUE
SPECIFICATION FairSpec
INVARIANTS
  TypeOK
  PagingIsExhaustive
PROPERTY ReloadsEachSession
