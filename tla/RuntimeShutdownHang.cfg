SPECIFICATION FairExecutorSpec
CONSTANTS
  w1 = w1  w2 = w2  w3 = w3  w4 = w4  g1 = g1  b1 = b1  b2 = b2
  NoGroup = NoGroup
  None = None
  Groups = {g1}
  Workers <- SingleWorkers
  Members <- SingleMembers
  GroupOf <- SingleGroups
  Batches = {b1, b2}
  UrgentWorkers = {}
  Cancellers = {}
  Stoppers = {s1}
  CommandCapacity = 2
  QueueCapacity = 2
  GlobalConcurrency = 1
  PerGroupConcurrency = 1
  MaxUrgentStreak = 1
  HandlesMayDrop = FALSE
  JournalFaults = FALSE
CHECK_DEADLOCK FALSE
PROPERTY ShutdownReturns
