\* The last completion of a closed connection fails.
CONSTANTS
  MaxSocketItem = 1
  RoundMod = 16
  MaxRound = 1
  BreakReady = 1
  BreakConnect = 1
  MaxTick = 1
  MaxQueue = 1
  MaxSends = 1
  RSThreads = 2
  Env = {"close", "ioerror"}
SPECIFICATION FairSpec
PROPERTY CloseIsAnnounced
CHECK_DEADLOCK FALSE
