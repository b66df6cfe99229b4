SPECIFICATION FairSpec
CONSTANTS
  None = None
  Replica = {p1}
  Rule = {r1}
  Request = {q1, q2}
  Watcher = {w1, w2, w3}
  MaxVersion = 2
CHECK_DEADLOCK FALSE
INVARIANTS
  MapIsExact
PROPERTIES
  CancelledStops
