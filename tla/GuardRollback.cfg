SPECIFICATION Spec
CONSTANTS
  f1 = f1
  f2 = f2
  Paths <- TwoFiles
  Tools <- BothTools
  Outcomes <- SixOutcomes
  MaxCalls = 2
  MaxUserSteps = 1
  MaxCrashes = 1
SYMMETRY FileSymmetry
INVARIANT TypeOK
INVARIANT ProtectedRestored
INVARIANT RollbackExact
PROPERTY ExternalByUser
CHECK_DEADLOCK FALSE
