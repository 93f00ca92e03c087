SPECIFICATION Spec
CONSTANTS
  c1 = c1
  c2 = c2
  k1 = k1
  Clients <- MCClients
  Configs <- MCConfigs
  NoConfig = NoConfig
  MaxRuns = 2
  MaxPrompts = 1
  Repeats = 1
  Warmups = 1
  MaxCrashes = 1
  FinalSaveMayFail = FALSE
SYMMETRY ClientSymmetry
VIEW StoredView
INVARIANTS
  OneAtATime
  RunningRowIsLive
  CancelIsNotFailure
  AnswerIsFinal
PROPERTIES
  LedgerSpec
CHECK_DEADLOCK FALSE
