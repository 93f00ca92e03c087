\* Two builds and two processes: every order of two starts. Two faults: a stop while migrating and a new card.
CONSTANTS
  Procs = {p, q}
  Editions = {1, 2}
  Cards = {"old", "new"}
  MaxRuns = 1
  MaxFaults = 2
  None = None
SPECIFICATION FairSpec
CHECK_DEADLOCK FALSE
INVARIANTS SchemaFits PathOfThisHardware
PROPERTIES AlwaysServesAgain DeadRunsAreClosed
