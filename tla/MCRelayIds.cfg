SPECIFICATION Spec
CONSTANTS
  Id <- OneId
  FreshIds = FALSE
  JobsHeld = 1
  WrittenHeld = 1
  MaxShares = 2
  MaxPushes = 2
  MaxSessions = 2
  MaxLosses = 0
  None = None
CHECK_DEADLOCK FALSE
INVARIANTS
  EverySubmitRecorded
