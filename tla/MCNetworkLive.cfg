\* Two slots and two completion threads; sends, closes and a stop, and completions
\* and accepts that fail.
CONSTANTS
  MaxSocketItem = 2
  RoundMod = 16
  MaxRound = 1
  BreakReady = 1
  BreakConnect = 1
  MaxTick = 1
  MaxQueue = 1
  MaxSends = 1
  RSThreads = 2
  Env = {"send", "close", "conclude", "ioerror"}
SPECIFICATION FairSpec
PROPERTIES
  ClosedIsReleased
  ConcludeReturns
CHECK_DEADLOCK FALSE
