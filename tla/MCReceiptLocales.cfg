SPECIFICATION ReceiptSpec
CONSTANTS
  a1 = a1
  a2 = a2
  a3 = a3
  a4 = a4
  a5 = a5
  a6 = a6
  a7 = a7
  Nothing = Nothing
  Accounts <- Two
  Collations <- TwoLocales
  MaxZat = 1
CHECK_DEADLOCK FALSE
INVARIANTS
  SameEntriesSameRoot
