SPECIFICATION Spec
CONSTANTS
  Handlers = {h1, h2}
  Steps = {s1, s2}
  Callbacks = {c1, c2}
  Artifacts = {a1}
  StepEvents = {"running", "completed", "failed"}
  RunEvents = {"completed"}
  None = None
  CanFail = TRUE
  Commands = TRUE
CONSTRAINT ArtifactsApart
SYMMETRY Symmetry
INVARIANTS
  TypeOK
  AppliedOnce
  EndIsBacked
  SnapshotIsTrue
CHECK_DEADLOCK FALSE
