SPECIFICATION Spec
CONSTANTS
  Sizes = 2
  Files = 2
  MaxRev = 3
  Content <- MCContent
  Lacking = {2}
  Ranges = 2
  MaxAttempts = 2
  MaxFaults = 2
INVARIANT RowIsOfOneRevision
PROPERTIES StopsOnlyUnreached ComesToShowTheNewest
CHECK_DEADLOCK FALSE
