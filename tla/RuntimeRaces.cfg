SPECIFICATION Spec
CONSTANTS
  w1 = w1  w2 = w2  w3 = w3  w4 = w4  g1 = g1  b1 = b1  b2 = b2
  NoGroup = NoGroup
  None = None
  Groups = {g1}
  Workers <- PairWorkers
  Members <- PairMembers
  GroupOf <- PairGroups
  Batches = {b1}
  UrgentWorkers = {w2}
  Cancellers = {c1, c2}
  Stoppers = {s1}
  CommandCapacity = 1
  QueueCapacity = 2
  GlobalConcurrency = 2
  PerGroupConcurrency = 1
  MaxUrgentStreak = 1
  HandlesMayDrop = TRUE
  JournalFaults = TRUE
CHECK_DEADLOCK FALSE
INVARIANT SlotsTracked
INVARIANT LifecycleInv
PROPERTY ResultStable
PROPERTY ImplementsLifecycle
