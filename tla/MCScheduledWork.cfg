SPECIFICATION FairSpec
CONSTANTS
  Replica = {p1, p2}
  Mods = 2
  MaxDisruptions = 1
  None = None
  Backup = {b1}
  Inspection = {i1}
  CronExpr = {"x", "y"}
  OldExpr = {"x"}
  MaxRows = 1
  MaxEdits = 2
INVARIANTS WorkOnlyWithLock
PROPERTIES InspectionBeginsWithLock CronConverges TakesOver
