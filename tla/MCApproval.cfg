SPECIFICATION Spec
CONSTANTS
  alice = alice
  bob = bob
  None = None
  User <- MCUser
  Admin <- MCReviewer
  Reviewer <- MCReviewer
  ConvOwner <- MCConvOwner
  Conv = {}
  Action = {a1}
  Turn = {t1}
  Request = {r1, r2}
  Sweep = {}
  CreateParams = {}
  UpdateParams = {scale}
  OtherParams = {other}
  PolicyValues = {TRUE, FALSE}
  MaxVersion = 1
CHECK_DEADLOCK FALSE
SYMMETRY MCSymmetry
INVARIANTS
  TypeOK
  OneExecutor
  WrittenAtMostOnce
  ApprovalHonoured
  EvidenceKept
