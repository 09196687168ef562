SPECIFICATION Spec
CONSTANTS
  Account <- OneAccount
  Name <- OneName
  Key = {k1}
  Wallet = {}
  Conn = {c1, c2}
  AllowLegacy = FALSE
  ChallengeTtl = 1
  MaxOutstanding = 1
  TokenTtl = 2
  MaxSessions = 1
  MaxAge = 1
  Drift = {0}
  MaxNonces = 1
  MaxCommands = 1
  MaxBoots = 1
  MaxTime = 2
  None = None
SYMMETRY Symmetry
CHECK_DEADLOCK FALSE
INVARIANTS
  OneSessionPerToken
  MiningKeepsToken
