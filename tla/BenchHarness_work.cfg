SPECIFICATION FairSpec
CONSTANTS
  c1 = c1
  c2 = c2
  k1 = k1
  Clients = {c1}
  Configs <- MCConfigs
  NoConfig = NoConfig
  MaxRuns = 1
  MaxPrompts = 3
  Repeats = 2
  Warmups = 1
  MaxCrashes = 1
  FinalSaveMayFail = TRUE
INVARIANTS
  StepsAddUp
  OnlyCompleteRunsReplace
PROPERTIES
  CancelledRunEnds
CHECK_DEADLOCK FALSE
