SPECIFICATION FairSpec
CONSTANTS
  Round = {r1, r2}
  Payable = {r1}
  Proc = {p1, p2}
  Op = {o1, o2}
  Tx = {t1, t2}
  Sig = {s1}
  Outcomes = {"paid", "built", "failed"}
  None = None
CHECK_DEADLOCK FALSE
INVARIANTS
  PaidAtMostOnce
  BooksAreTrue
  AnchorIsTrue
PROPERTIES
  VerdictIsFinal
  KeepsPromise
  RecordedIsResolved
