CONSTANTS
  Models = {m1, m2}
  Always = {m1}
  Repos = {r1}
  MaxStops = 1
  MaxFaults = 1
  MaxPuts = 1
SPECIFICATION Spec
INVARIANT OncePerModel
