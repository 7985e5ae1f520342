\* Two slots whose round wraps: slot 0 gets socket ID 0.
CONSTANTS
  MaxSocketItem = 2
  RoundMod = 2
  MaxRound = 1
  BreakReady = 1
  BreakConnect = 1
  MaxTick = 1
  MaxQueue = 1
  MaxSends = 1
  RSThreads = 1
  Env = {"send"}
SPECIFICATION Spec
INVARIANT UnicastStaysPrivate
CHECK_DEADLOCK FALSE
