CONSTANTS
  Migrators = {m1, m2}
  Executors = {e1}
  Nobody = Nobody
  MaxStarts = 1
SPECIFICATION Spec
\* All migrators have ended.
CHECK_DEADLOCK FALSE
INVARIANT OthersDoNotMatter
