SPECIFICATION Spec
CONSTANTS
  f1 = f1
  f2 = f2
  Paths <- TwoFiles
  Tools <- WriteOnly
  Outcomes <- SixOutcomes
  MaxCalls = 2
  MaxUserSteps = 1
  MaxCrashes = 0
PROPERTY RollbackKeepsUser
CHECK_DEADLOCK FALSE
