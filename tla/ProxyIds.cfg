SPECIFICATION Spec
CONSTANTS
  Conn = {c1}
  Worker = {a}
  Weight = {2}
  Id = {1, 2}
  FreshIds = FALSE
  MaxQueued = 2
  MaxPending = 2
  Timeout = 1
  ChunkLines = 1
  MaxLines = 3
  MaxStopLines = 0
  MaxPushes = 0
  MaxDown = 1
  MaxTime = 1
  MaxSession = 1
  None = None
CHECK_DEADLOCK FALSE
INVARIANTS
  CreditIsEarned
