\* An exchange ratio other than 1.
CONSTANTS
  Gold0 = 5
  Amounts = {3, 4}
  Puts = {1, 6}
  DefPut = 3
  LowPut = 2
  Fee = 2
  Magic = 1
  Ratio = 2
  Rules = {TRUE, FALSE}
  Faults = {}
  NoCache = NoCache
  MaxFailures = 1
  MaxChanges = 2
  MaxQueue = 3
SPECIFICATION Spec
INVARIANT Whole
CHECK_DEADLOCK FALSE
