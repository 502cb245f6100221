SPECIFICATION StoreSpec
CONSTANTS
  Conns = {a, b}
  Writers = {a, b}
  Spillers = {a}
  Checkpointers = {b}
  NPages = 2
  NREADER = 3
  IdleCheckpoints = FALSE
  MaxFrame = 2
  MaxTxn = 2
  MaxCrash = 1
  Nobody = Nobody
  NoState = NoState
INVARIANTS
  BackfillBound
  SnapshotRead
  NewestIsKept
  CrashKeepsCommits
  PowerLossIsClean
PROPERTIES
  CacheFresh
CHECK_DEADLOCK FALSE
