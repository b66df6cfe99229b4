CONSTANTS
  Request = {q1, q2}
  MaxVersion = 1
  MaxSetups = 1
  MaxEntries = 2
  BackupCode = {k1, k2}
  Cluster = {c1}
  Namespace = {n1, n2}
  GrantLevel = {"read", "write"}
  Permissions <- MCPermissions
  Routes <- MCRoutes
  Questions <- MCQuestions
  MaxGrants = 1
  MaxEdits = 2
SPECIFICATION Spec
SYMMETRY Symmetry
INVARIANTS SessionsRevoked UsedOnce AnswerAsGranted
CHECK_DEADLOCK FALSE
