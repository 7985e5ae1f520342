\* A post to the stopped service, which the next one then has without a completion.
CONSTANTS
  MaxPosts = 1
  MaxStarts = 2
  Late = TRUE
SPECIFICATION FairSpec
PROPERTY ConcludeReturns
CHECK_DEADLOCK FALSE
