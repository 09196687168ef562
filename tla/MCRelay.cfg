SPECIFICATION Spec
CONSTANTS
  Id <- OneId
  FreshIds = TRUE
  JobsHeld = 1
  WrittenHeld = 1
  MaxShares = 2
  MaxPushes = 3
  MaxSessions = 2
  MaxLosses = 2
  None = None
CHECK_DEADLOCK FALSE
INVARIANTS
  EverySubmitRecorded
  LossSpoilsTwo
PROPERTIES
  JobBesideWhileHeld
