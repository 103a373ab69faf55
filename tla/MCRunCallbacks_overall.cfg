SPECIFICATION Spec
CONSTANTS
  Handlers = {h1, h2}
  Steps = {s1, s2}
  Callbacks = {c1, c2}
  Artifacts = {}
  StepEvents = {"completed"}
  RunEvents = {}
  None = None
  CanFail = FALSE
  Commands = FALSE
INVARIANTS
  StatusFollowsSteps
CHECK_DEADLOCK FALSE
