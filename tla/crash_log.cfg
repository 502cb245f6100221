SPECIFICATION FairSpec
CONSTANTS
  Nobody = Nobody
  Threads = {t1, t2}
  Main = t1
  MaxLaunches = 2
  Failures = TRUE
INVARIANTS
  WatchedIsWritable
  RowsInOrder
  NewestFirst
PROPERTIES
  CrashEnds
