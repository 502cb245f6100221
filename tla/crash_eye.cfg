SPECIFICATION FairSpec
CONSTANTS
  d1 = d1
  d2 = d2
  d3 = d3
  Delegates = {d1, d2, d3}
  Hash <- MCHash
  Threads = {t1, t2}
  Main = t1
  MaxLoad = 6
  Raised = {"exception", "SIGSEGV"}
INVARIANTS
  OpenWhileRegistered
  NoHandlerRing
  CloseTakesHandlerOut
  OpenTakesSignals
  KillAfterReports
  ReportOrder
PROPERTIES
  ExceptionKills
  FaultKills
  RegistrySpec
