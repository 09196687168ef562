\* Claims of comments that the code does not keep; each is violated, check one at a time.
SPECIFICATION LookupSpec
CONSTANTS
  Transaction <- Kinds
  MaxHeight = 2
  MaxAsked = 2
  Unavailable = Unavailable
  Null = Null
CHECK_DEADLOCK FALSE
INVARIANTS
  FailureIsNotAbsence
  ShieldedMeansComponents
