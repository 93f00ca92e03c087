CONSTANTS
  Models = {m1, m2}
  Always = {m1}
  Repos = {r1}
  MaxStops = 1
  MaxFaults = 1
  MaxPuts = 2
SPECIFICATION FairSpec
PROPERTIES NeverShownAgain QualifyingIsNotified
