SPECIFICATION FeesSpec
CONSTANTS
  Payee = {1, 2}
  Wallet = {w1, w2}
  Supply = 2
  Text <- Ladders
  MaxBps = 100
  MaxMoves = 2
  Refused = Refused
  Null = Null
CHECK_DEADLOCK FALSE
INVARIANTS
  RateIsVerified
