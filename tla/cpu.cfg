SPECIFICATION Spec
CONSTANTS
  Callers = {main, other}
  States = {busy}
  Width = 2
  MaxTicks = 2
  Workers <- MCWorkers
  IdleWorkers = {"idle"}
  Usage <- MCUsage
INVARIANTS TrapHasCause EveryTickOnce AllThreads
