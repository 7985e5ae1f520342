\* Wins and losses around the bring-in limits, with and without immediate writes,
\* logons at any time and a request that fails.
CONSTANTS
  Gold0 = 5
  Amounts = {4}
  Puts = {1, 6}
  DefPut = 3
  LowPut = 2
  Fee = 2
  Magic = 1
  Ratio = 2
  Rules = {TRUE, FALSE}
  Faults = {"sql", "redis"}
  NoCache = NoCache
  MaxFailures = 1
  MaxChanges = 2
  MaxQueue = 3
SPECIFICATION Spec
INVARIANTS Backed LogonReads Settled CacheAgrees FeeReleased
CHECK_DEADLOCK FALSE
