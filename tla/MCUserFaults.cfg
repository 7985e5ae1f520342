\* A statement that fails.
CONSTANTS
  Gold0 = 5
  Amounts = {3, 4}
  Puts = {1, 6}
  DefPut = 3
  LowPut = 2
  Fee = 2
  Magic = 1
  Ratio = 1
  Rules = {TRUE, FALSE}
  Faults = {"sql"}
  NoCache = NoCache
  MaxFailures = 1
  MaxChanges = 2
  MaxQueue = 3
SPECIFICATION Spec
INVARIANT CopyIsRecord
CHECK_DEADLOCK FALSE
