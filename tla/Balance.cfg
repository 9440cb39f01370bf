\* Two lists and one without targets, two reloads, both cadences; one failure.
SPECIFICATION FairSpec
CONSTANTS
  WatchLists <- MCLists
  Cadences = {0, 2}
  MaxConcurrency = 2
  Faults = {"head", "read", "lag", "empty", "emit", "epipe", "stop"}
  MaxHeight = 3
  MaxFaults = 1
  MaxReloads = 2
INVARIANTS TypeOK BaselineIsTold NothingLeftBehind
PROPERTIES TickTellsAll CatchesUp
CHECK_DEADLOCK FALSE
