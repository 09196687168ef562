SPECIFICATION Spec
CONSTANTS
  Id <- OneId
  FreshIds = TRUE
  JobsHeld = 1
  WrittenHeld = 1
  MaxShares = 2
  MaxPushes = 2
  MaxSessions = 2
  MaxLosses = 1
  None = None
CHECK_DEADLOCK FALSE
INVARIANTS
  OnlyTornLineLost
  JobBeside
  AcceptedIsBooked
  WeighedAsBooked
PROPERTIES
  RestStays
