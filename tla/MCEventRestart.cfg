SPECIFICATION Spec
CONSTANTS
  None = None
  Replica = {p1}
  Rule = {r1}
  Request = {q1}
  Watcher = {w1, w2, w3}
  MaxVersion = 3
CHECK_DEADLOCK FALSE
INVARIANTS
  EnabledRuleWatched
