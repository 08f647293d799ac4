SPECIFICATION FairSpec
CONSTANTS
  Hosts = {TRUE, FALSE}
  Contexts <- NoContext
  MaxInputs = 2
  MaxCalls = 2
  MaxCrashes = 1
  MaxRoundtrips = 2
  MaxFaults = 1
  MaxCompactions = 2
CHECK_DEADLOCK FALSE
INVARIANT TypeOK
INVARIANT RequestsPaired
INVARIANT LogAgrees
INVARIANT LogReopens
PROPERTY OnlyInputDropped
PROPERTY CancelEnds
