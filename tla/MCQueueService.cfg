\* Posts of other threads while the service starts, runs and is stopped.
CONSTANTS
  MaxPosts = 6
  MaxStarts = 3
  Late = FALSE
SPECIFICATION FairSpec
INVARIANTS DataPresent InOrder DueHandled
PROPERTIES ConcludeReturns PacketsHandled
CHECK_DEADLOCK FALSE
