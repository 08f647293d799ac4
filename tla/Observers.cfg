SPECIFICATION FairSpec
CONSTANTS
  a1 = a1  a2 = a2  t1 = t1  s1 = s1  s2 = s2
  Waiters = {a1}
  Blockers = {t1}
  Subscribers = {s1}
  Capacity = 2
  MaxEvents = 2
  MaxOthers = 1
CHECK_DEADLOCK FALSE
INVARIANT TypeOK
INVARIANT DeliveredOnce
PROPERTY WaitReturns
PROPERTY BlockReturns
