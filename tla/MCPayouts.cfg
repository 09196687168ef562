SPECIFICATION Spec
CONSTANTS
  Account = {1, 2}
  Proc = {p1}
  Bucket = 2
  Window <- Windows
  Total = {0, 4}
  Bps = {0, 5000}
  MinPayout = 2
  Weight = {1, 2}
  Late = 1
  Grace = 1
  MaxShares = 2
  MaxTime = 5
CHECK_DEADLOCK FALSE
INVARIANTS
  RoundConserves
  SplitFollowsWork
  RoundPaysItsWindow
PROPERTIES
  NobodyIsStranded
