\* Two tasks overlap in every way there is; two changes outside are a removal and what upsets it.
CONSTANTS
  Tasks = {t1, t2}
  None = None
  MaxChanges = 2
  Names = {"latest"}
  Reads <- MCReads
  Quants <- MCQuants
  Curated <- MCCurated
  Editions <- MCEditions
  ApiCalls = {"api"}
  WatchCalls = {"watch"}
  Refreshed = {"small", "large"}
  MaxRev = 2
  MaxStops = 1
SPECIFICATION MCSpec
CHECK_DEADLOCK FALSE
PROPERTIES NeverGoesBack RefreshEnds InventoryMirrors RemovalIsSeen
