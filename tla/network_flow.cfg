SPECIFICATION FairSpec
CONSTANTS
  Samplers = {t1, t2}
  NoSampler = NoSampler
  Width = 3
  MaxBytes = 4
INVARIANTS
  OneSampler
  OneLateReport
  TrapHasCause
  HonestReport
PROPERTIES
  CancelledEnds
