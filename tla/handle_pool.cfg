SPECIFICATION FairPoolSpec
CONSTANTS
  u1 = u1
  u2 = u2
  u3 = u3
  Users = {u1, u2, u3}
  Cap = 1
  Handles = {1, 2, 3, 4}
  MaxConcurrency = 2
  Jobs <- ThreeRoles
  Failures = TRUE
INVARIANTS
  HeldAlone
  CountIsRight
  OnlyDroppedOpen
  NoLostWakeup
PROPERTIES
  LockSpec
  OperationsEnd
