\* Each of these is violated; check one at a time.
SPECIFICATION TreasurySpec
CONSTANTS
  Account = {1, 2}
  Proc = {p1, p2}
  Bucket = 1
  Window <- Windows
  Total = {1}
  Bps = {0}
  MinPayout = 2
  Weight = {1}
  Late = 0
  Grace = 0
  MaxShares = 3
  MaxTime = 3
  MaxRounds = 3
  Op = {o1, o2}
  None = None
CHECK_DEADLOCK FALSE
INVARIANTS
  ReceivedAtMostEarned
  CarriedIsOwed
