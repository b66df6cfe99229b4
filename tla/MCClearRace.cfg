SPECIFICATION Spec
CONSTANTS
  alice = alice
  bob = bob
  None = None
  User <- MCUser
  Admin <- MCReviewer
  Reviewer <- MCReviewer
  ConvOwner <- MCConvOwner
  Conv = {c1}
  Action = {a1}
  Turn = {t1}
  Request = {r1}
  Sweep = {s1}
  CreateParams = {}
  UpdateParams = {scale}
  OtherParams = {}
  PolicyValues = {TRUE, FALSE}
  MaxVersion = 1
CHECK_DEADLOCK FALSE
INVARIANTS
  ClearWithdrawsEverything
