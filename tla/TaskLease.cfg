SPECIFICATION FairSpec
CONSTANTS
  Procs = {p1, p2}
  Tasks = {t1, t2}
  None = None
  MaxCrashes = 1
CHECK_DEADLOCK FALSE
INVARIANT TypeOK
INVARIANT UnsettledKept
INVARIANT SoleOwner
PROPERTY OperationsEnd
