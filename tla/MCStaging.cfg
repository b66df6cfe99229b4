SPECIFICATION Spec
CONSTANTS
  alice = alice
  bob = bob
  None = None
  User = {alice}
  Admin = {}
  Reviewer = {}
  ConvOwner <- MCConvOwner
  Conv = {c1}
  Action = {a1, a2}
  Turn = {t1, t2}
  Request = {}
  Sweep = {s1}
  CreateParams = {new1, new2}
  UpdateParams = {}
  OtherParams = {}
  PolicyValues = {FALSE}
  MaxVersion = 1
CHECK_DEADLOCK FALSE
SYMMETRY MCSymmetry
INVARIANTS
  PendingIsCurrent
  OnePendingCreate
