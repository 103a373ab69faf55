SPECIFICATION VersionsSpec
CONSTANTS
  bad = bad
  Users = {u1}
  Handlers = {h1, h2}
  Ops = {bad}
  Batches <- BadBatch
  PatchBatch <- NoPatch
  Guards = {"none"}
  Names = {}
  RowPerAutomation = FALSE
  MaxDrafts = 2
  MaxOps = 2
  MaxRev = 0
  Keys = {k1}
  BadOp = bad
  ImportOps <- Runtime
  MaxVersions = 2
SYMMETRY Symmetry
INVARIANTS
  VersionsTypeOK
  VersionNumbersInOrder
  ActivePassedGate
PROPERTIES
  KeyTakesEffectOnce
CHECK_DEADLOCK FALSE
