SPECIFICATION PoolSpec
CONSTANTS
  u1 = u1
  u2 = u2
  u3 = u3
  Users = {u1, u2, u3}
  Cap = 1
  Handles = {1, 2, 3, 4}
  MaxConcurrency = 2
  Jobs <- ThreeRoles
  Failures = FALSE
INVARIANTS
  RolledBack
