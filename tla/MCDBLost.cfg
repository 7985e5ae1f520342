\* A score whose statement fails is reported as written.
CONSTANTS
  Users = {1}
  Kinds = {"cached"}
  Refresh = FALSE
  Faults = {"cached"}
  MaxRequests = 1
  MaxStops = 0
  MaxFailures = 1
SPECIFICATION Spec
PROPERTY CachedRepeated
CHECK_DEADLOCK FALSE
