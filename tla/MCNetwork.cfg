\* One slot under everything the environment can do: sends, closes, detect
\* loops, restarts, failed completions and accepts.
CONSTANTS
  MaxSocketItem = 1
  RoundMod = 16
  MaxRound = 2
  BreakReady = 0
  BreakConnect = 0
  MaxTick = 2
  MaxQueue = 1
  MaxSends = 1
  RSThreads = 1
  Env = {"send", "batch", "forbid", "shut", "close", "conclude", "detect", "ioerror"}
SPECIFICATION Spec
INVARIANTS
  PoolPartition
  ReleaseFindsActive
  CleanOnAttach
  KernelOwnership
  UnicastStaysPrivate
PROPERTY EventOrder
