SPECIFICATION Spec
CONSTANTS
  o1 = o1
  o2 = o2
  o3 = o3
  Users = {u1, u2}
  Handlers = {h1, h2}
  Ops = {o1, o3}
  Batches <- OneBatch
  PatchBatch <- Patch
  Guards = {"none", "revision"}
  Names = {n1}
  RowPerAutomation = TRUE
  MaxDrafts = 1
  MaxOps = 2
  MaxRev = 1
SYMMETRY Symmetry
PROPERTY RestoreChecksRevision
CHECK_DEADLOCK FALSE
