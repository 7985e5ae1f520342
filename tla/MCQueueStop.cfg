\* A post between the last count of ConcludeService and the end of the thread.
CONSTANTS
  MaxPosts = 2
  MaxStarts = 1
  Late = FALSE
SPECIFICATION FairSpec
PROPERTY ServicePacketsHandled
CHECK_DEADLOCK FALSE
