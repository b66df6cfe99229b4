CONSTANTS
  Namespace = {n1, n2}
  SystemNamespace = {}
  Request = {r1, r2}
  MaxItems = 2
SPECIFICATION Spec
SYMMETRY Perms
INVARIANTS NoWriteLost UndoIsPrevious
CHECK_DEADLOCK FALSE
