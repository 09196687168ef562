SPECIFICATION Spec
CONSTANTS
  Account <- TwoAccounts
  Name <- OneName
  Key = {k1}
  Wallet = {w1}
  Conn = {c1}
  AllowLegacy = TRUE
  ChallengeTtl = 1
  MaxOutstanding = 1
  TokenTtl = 2
  MaxSessions = 2
  MaxAge = 1
  Drift = {0}
  MaxNonces = 3
  MaxCommands = 2
  MaxBoots = 2
  MaxTime = 2
  None = None
CHECK_DEADLOCK FALSE
INVARIANTS
  NonceSpentOnce
  GrantIsProven
  CreditedToOwnRow
PROPERTIES
  TokenLeavesForCause
