SPECIFICATION Spec
CONSTANTS
  w1 = w1  w2 = w2  w3 = w3  c1 = c1  c2 = c2
  None = None
  Workers = {w3}
  Calls = {c2}
  Members <- OneMembers
  Policy <- OnePolicy
  Grouped = {}
  Isolated = {w3}
  TornWrites = TRUE
  MaxErrors = 0
  MaxCrashes = 2
  MaxEvents = 2
CHECK_DEADLOCK FALSE
INVARIANT PartialLineIgnored
