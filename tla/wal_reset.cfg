SPECIFICATION Spec
CONSTANTS
  Conns = {a, b}
  Writers = {a, b}
  Spillers = {a}
  Checkpointers = {b}
  NPages = 2
  NREADER = 3
  IdleCheckpoints = TRUE
  MaxFrame = 2
  MaxTxn = 3
  MaxCrash = 0
  Nobody = Nobody
  NoState = NoState
INVARIANTS
  BackfillBound
CHECK_DEADLOCK FALSE
