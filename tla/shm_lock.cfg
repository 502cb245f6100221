SPECIFICATION FairSpec
CONSTANTS
  ui = ui
  t1 = t1
  t2 = t2
  Threads = {ui, t1, t2}
  Files = {f1, f2, f3}
  Main = ui
  Jobs <- WriterReaderCheckpoint
  MaxCalls = 3
  MaxTimeouts = 1
INVARIANTS SiblingsDisjoint QueueHasHolder SleeperIsQueued
CHECK_DEADLOCK FALSE
PROPERTY NobodyNeedsTheTimeout
