SPECIFICATION Spec
CONSTANTS
  o1 = o1
  o2 = o2
  o3 = o3
  Users = {u1, u2}
  Handlers = {h1, h2}
  Ops = {o1, o2, o3}
  Batches <- Overlapping
  PatchBatch <- Patch
  Guards = {"none"}
  Names = {n1}
  RowPerAutomation = TRUE
  MaxDrafts = 1
  MaxOps = 3
  MaxRev = 1
SYMMETRY Symmetry
INVARIANTS
  TypeOK
  PatchOnlyOnItsBase
  AppliedAtMostOnce
  LogMatchesDraft
PROPERTIES
  LateWritersTakeNothing
  ImplementsShared
CHECK_DEADLOCK FALSE
