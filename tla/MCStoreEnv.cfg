SPECIFICATION Spec
CONSTANTS
  p1 = p1
  p2 = p2
  Proc = {p1, p2}
  Known <- Releases
  Backup = {b1}
  Path = {t1}
  MaxWrites = 1
  MaxKills = 0
  Absent = Absent
  Partial = Partial
CHECK_DEADLOCK FALSE
PROPERTIES
  EnvIsKept
