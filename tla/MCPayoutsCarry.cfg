SPECIFICATION Spec
CONSTANTS
  Account = {1, 2}
  Proc = {p1, p2}
  Bucket = 2
  Window <- Consecutive
  Total = {1}
  Bps = {0}
  MinPayout = 2
  Weight = {1, 2}
  Late = 1
  Grace = 1
  MaxShares = 2
  MaxTime = 5
CHECK_DEADLOCK FALSE
PROPERTIES
  CarriedInIsOwed
