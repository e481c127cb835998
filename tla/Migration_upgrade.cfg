CONSTANTS
  Migrators = {m1, m2}
  Executors = {e1}
  Nobody = Nobody
  MaxStarts = 1
SPECIFICATION FairSpec
\* All migrators have ended.
CHECK_DEADLOCK FALSE
INVARIANTS
  TypeOK
  NothingOrphaned
  CommittedWhole
  RevisionsOnce
  MigrationsSucceed
PROPERTY MigratorsEnd
