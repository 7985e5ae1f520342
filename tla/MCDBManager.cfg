\* Two users and the server itself; failures, repeats, restarts.
CONSTANTS
  Users = {0, 1, 2}
  Kinds = {"plain", "cached"}
  Refresh = TRUE
  Faults = {"plain", "cached"}
  MaxRequests = 4
  MaxStops = 1
  MaxFailures = 2
SPECIFICATION FairSpec
INVARIANTS OneUnderWay UserOrder NothingWaits
PROPERTIES CachedKept CachedExecuted
CHECK_DEADLOCK FALSE
