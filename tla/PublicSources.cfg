CONSTANTS
  Sources = {"hf_evals", "arena", "epoch"}
  Parts = {p1, p2}
  File = file
  MaxAttempts = 4
  OnlyRuns = FALSE
  MaxRev = 2
  MaxVer = 2
  MaxFaults = 1
  MaxStops = 1
SPECIFICATION FairSpec
CHECK_DEADLOCK FALSE
INVARIANTS ValidatorNeverAhead GapIsDue
PROPERTY EventuallyCurrent
