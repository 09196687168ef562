SPECIFICATION TreasurySpec
CONSTANTS
  Account = {1, 2}
  Proc = {p1, p2}
  Bucket = 1
  Window <- Windows
  Total = {1}
  Bps = {0}
  MinPayout = 2
  Weight = {1}
  Late = 0
  Grace = 0
  MaxShares = 4
  MaxTime = 3
  MaxRounds = 3
  Op = {o1, o2}
  None = None
SYMMETRY Symmetry
CHECK_DEADLOCK FALSE
INVARIANTS
  ReceivedIsAccounted
