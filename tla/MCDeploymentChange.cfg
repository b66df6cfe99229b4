SPECIFICATION FairSpec
CONSTANTS
  BaseSpec = base
  NewSpec = new
  EditSpec = {base, new, edit}
  MaxRev = 6
CHECK_DEADLOCK FALSE
INVARIANTS
  TypeOK
  AppliedAtMostOnce
  NoEditClobbered
  ExecutedMeansApplied
  RolledBackStays
PROPERTIES
  ExecutionEnds
