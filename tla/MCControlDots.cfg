SPECIFICATION Spec
CONSTANTS
  Account <- DottedAccounts
  Name <- DottedNames
  Key = {k1, k2}
  Wallet = {}
  Conn = {c1}
  AllowLegacy = FALSE
  ChallengeTtl = 1
  MaxOutstanding = 1
  TokenTtl = 2
  MaxSessions = 2
  MaxAge = 1
  Drift = {0}
  MaxNonces = 2
  MaxCommands = 1
  MaxBoots = 1
  MaxTime = 0
  None = None
SYMMETRY Symmetry
CHECK_DEADLOCK FALSE
INVARIANTS
  CreditedToOwnRow
