SPECIFICATION Spec
CONSTANTS
  Round = {r1}
  Payable = {r1}
  Proc = {p1}
  Op = {o1}
  Tx = {t1}
  Sig = {s1}
  Outcomes = {"paid", "failed"}
  None = None
CHECK_DEADLOCK FALSE
INVARIANTS
  FailedIsNotInFlight
