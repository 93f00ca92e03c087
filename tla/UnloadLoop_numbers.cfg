\* The code's own numbers, in half seconds: 60 s, 10 s, 0.5 s, and a 15 s client timeout.
CONSTANTS
  UnloadWait = 120
  Grace = 20
  UnloadPoll = 1
  CallMax = 30
  LoadLag = 2
SPECIFICATION Spec
CHECK_DEADLOCK FALSE
INVARIANT EndCanBeStored
