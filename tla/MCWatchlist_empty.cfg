CONSTANTS
  a = a
  b = b
  c = c
  d = d
  NoteLists <- FewLists
  PageSize = 2
  MaxPages = 3
  MaxDay = 1
  Scheduled = TRUE
  Fails = TRUE
SPECIFICATION Spec
INVARIANT NeverLeftEmpty
