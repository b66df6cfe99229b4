SPECIFICATION FairSpec
CONSTANTS
  None = None
  Task = {t1}
  Queue = {q1}
  Request = {r1, r2}
  Worker = {w1, w2}
  Limits = {1}
  MaxRetry = 1
CHECK_DEADLOCK FALSE
INVARIANTS
  JobIsWatched
  SucceededIsTrue
PROPERTIES
  TaskSettles
