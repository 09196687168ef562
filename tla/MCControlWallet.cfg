SPECIFICATION Spec
CONSTANTS
  Account <- OneAccount
  Name <- OneName
  Key = {}
  Wallet = {w1, w2}
  Conn = {c1}
  AllowLegacy = FALSE
  ChallengeTtl = 1
  MaxOutstanding = 1
  TokenTtl = 2
  MaxSessions = 1
  MaxAge = 1
  Drift = {0}
  MaxNonces = 2
  MaxCommands = 1
  MaxBoots = 1
  MaxTime = 2
  None = None
SYMMETRY Symmetry
CHECK_DEADLOCK FALSE
PROPERTIES
  WalletNotOverwritten
