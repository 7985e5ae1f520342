\* A score behind a request kind without a case.
CONSTANTS
  Users = {1}
  Kinds = {"cached", "unhandled"}
  Refresh = FALSE
  Faults = {}
  MaxRequests = 2
  MaxStops = 0
  MaxFailures = 0
SPECIFICATION FairSpec
PROPERTY CachedExecuted
CHECK_DEADLOCK FALSE
