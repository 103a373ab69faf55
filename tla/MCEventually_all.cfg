SPECIFICATION EventuallySpec
CONSTANTS
  Events = {1, 2}
  Publishers = {p1, p2}
  NoEvent = NoEvent
  MaxAttempts = 2
  BatchLimit = 2
  CanCrash = TRUE
  CanFailWrites = TRUE
  Handlers = {h1, h2}
  None = None
  CanDie = TRUE
  Streams = {s1}
  Files = {}
  MaxBranches = 0
  Deliveries = {d1}
  Tasks = {t1}
  Attempts = {at1}
  Keys = {k1}
  RunSteps = {st1}
  Callbacks = {c1, c2}
  Artifacts = {a1, a2}
  StepEvents = {"completed"}
PROPERTIES
  EveryEventSettlesOrIsStranded
  DeliveriesSettle
  CallbacksApplied
  ArtifactsArrive
  AnswersSettle
CHECK_DEADLOCK FALSE
