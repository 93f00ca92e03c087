\* Half seconds: UnloadWait 4 s, 2 s on top, a poll every second, calls of up to 3 s.
CONSTANTS
  UnloadWait = 8
  Grace = 4
  UnloadPoll = 2
  CallMax = 6
  LoadLag = 4
  Clients = {c1, c2}
  MaxPulls = 2
  Names = {"ollama", "other"}
  MaxInstalls = 2
  Readers = {r1, r2}
  Buffer = 1
  MaxPublished = 1
  MaxTicks = 1
  MaxTests = 2
  Steps = 1
  MaxAsked = 2
  MaxFailures = 2
SPECIFICATION MCSpec
CHECK_DEADLOCK FALSE
INVARIANTS ConfirmedIsUnloaded StatusHasItsPull StreamsKeepTheEnd
PROPERTIES Slots EventsGoForward EverythingEnds
