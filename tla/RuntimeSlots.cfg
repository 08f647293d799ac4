SPECIFICATION Spec
CONSTANTS
  w1 = w1  w2 = w2  w3 = w3  w4 = w4  g1 = g1  b1 = b1  b2 = b2
  NoGroup = NoGroup
  None = None
  Groups = {g1}
  Workers <- MixedWorkers
  Members <- MixedMembers
  GroupOf <- MixedGroups
  Batches = {b1, b2}
  UrgentWorkers = {w2, w3, w4}
  Cancellers = {}
  Stoppers = {}
  CommandCapacity = 1
  QueueCapacity = 3
  GlobalConcurrency = 2
  PerGroupConcurrency = 1
  MaxUrgentStreak = 1
  HandlesMayDrop = FALSE
  JournalFaults = FALSE
CHECK_DEADLOCK FALSE
INVARIANT TypeOK
INVARIANT ConcurrencyBounded
INVARIANT NothingForgotten
INVARIANT LaunchedOnce
INVARIANT UrgentBounded
