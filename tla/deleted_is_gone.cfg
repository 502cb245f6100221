SPECIFICATION Spec
CONSTANTS
  Nobody = Nobody
  Threads = {t1, t2}
  Main = t1
  MaxLaunches = 2
  Failures = FALSE
INVARIANTS
  DeletedIsGone
