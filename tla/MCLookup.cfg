SPECIFICATION LookupSpec
CONSTANTS
  Transaction <- Kinds
  MaxHeight = 2
  MaxAsked = 2
  Unavailable = Unavailable
  Null = Null
CHECK_DEADLOCK FALSE
INVARIANTS
  NoAnswerIsNotAbsence
  FactsAreTrue
