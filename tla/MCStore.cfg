SPECIFICATION FairSpec
CONSTANTS
  p1 = p1
  p2 = p2
  Proc = {p1, p2}
  Known <- Releases
  Backup = {b1}
  Path = {t1}
  MaxWrites = 2
  MaxKills = 1
  Absent = Absent
  Partial = Partial
CHECK_DEADLOCK FALSE
INVARIANTS
  SchemaInOrder
  ReadyIsMigrated
  AcknowledgedSurvives
PROPERTIES
  BackupIsComplete
  ComesUp
