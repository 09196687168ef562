SPECIFICATION Spec
CONSTANTS
  Conn = {c1}
  Worker = {a, b}
  Weight = {2}
  Id = {1, 2}
  FreshIds = TRUE
  MaxQueued = 2
  MaxPending = 2
  Timeout = 1
  ChunkLines = 3
  MaxLines = 4
  MaxStopLines = 0
  MaxPushes = 0
  MaxDown = 2
  MaxTime = 0
  MaxSession = 2
  None = None
CHECK_DEADLOCK FALSE
INVARIANTS
  NothingLeftOpen
