SPECIFICATION Spec
CONSTANTS
  w1 = w1  w2 = w2  w3 = w3  c1 = c1  c2 = c2
  None = None
  Workers = {w1, w2}
  Calls = {c1}
  Members <- PairMembers
  Policy <- PairPolicy
  Grouped = {c1}
  Isolated = {w2}
  TornWrites = TRUE
  MaxErrors = 1
  MaxCrashes = 2
  MaxEvents = 3
CHECK_DEADLOCK FALSE
INVARIANT TypeOK
INVARIANT AcceptedDurable
INVARIANT RecoveredSettled
INVARIANT SequenceIncreases
INVARIANT ResultDurable
PROPERTY ResultFinal
