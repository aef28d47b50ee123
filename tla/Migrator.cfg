SPECIFICATION Spec
CONSTANTS
  Procs = {p1, p2, p3}
  Last = 3
  Faulty = TRUE
INVARIANTS
  TypeOK
  AppliedOnce
  InOrder
PROPERTIES
  FinishedMeansMigrated
