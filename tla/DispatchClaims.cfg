\* Claims of the words about the code that it does not keep; check one at a time.
SPECIFICATION FairSpec
CONSTANTS
  Round = {r1}
  Payable = {r1}
  Proc = {p1, p2}
  Op = {o1, o2}
  Tx = {t1}
  Sig = {s1}
  Outcomes = {"paid", "failed", "built"}
  None = None
CHECK_DEADLOCK FALSE
INVARIANTS
  AnchorCarriesMemo
PROPERTIES
  BuiltIsAFailure
