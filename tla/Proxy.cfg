SPECIFICATION FairSpec
CONSTANTS
  Conn = {c1}
  Worker = {a, b}
  Weight = {2}
  Id = {1, 2}
  FreshIds = TRUE
  MaxQueued = 2
  MaxPending = 2
  Timeout = 1
  ChunkLines = 2
  MaxLines = 4
  MaxStopLines = 3
  MaxPushes = 1
  MaxDown = 1
  MaxTime = 1
  MaxSession = 2
  None = None
CHECK_DEADLOCK FALSE
INVARIANTS
  EveryShareOnce
  CreditIsEarned
  InOrder
  Paired
PROPERTIES
  QueuedIsRelayed
  ExitsWhenEmpty
