SPECIFICATION FairSpec
CONSTANTS
  FirstRetry = 2
  MaxRetry = 9
  MaxSessions = 4
  MaxRefusals = 3
  None = None
  Absent = Absent
  Empty = Empty
CHECK_DEADLOCK FALSE
INVARIANTS
  KeyIsKept
  MinerHasItsRelay
  WaitFitsRefusals
PROPERTIES
  MinesAgain
  SignalIsHeeded
