SPECIFICATION ServicesSpec
CONSTANTS
  Events = {1, 2, 3}
  Publishers = {p1, p2}
  NoEvent = NoEvent
  MaxAttempts = 2
  BatchLimit = 2
  CanCrash = TRUE
  CanFailWrites = TRUE
  Handlers = {h1, h2}
  None = None
  CanDie = TRUE
  Streams = {s1}
  Files = {f1}
  MaxBranches = 1
  \* One permutation serves the versions and the blocks, which share values.
  Versions = {x1, x2}
  Contents = {c1}
  Sources = {w1, w2}
  Sound = {w1, w2}
  SyncVersions = {cv1}
  SyncKeys = {k1}
  RunKeys = {k1}
  MaxEdits = 1
  MaxReports = 1
  NodeIds = {start, finish, x1, x2}
  Start = start
  Finish = finish
  NoBlock = NoBlock
  MaxEdges = 3
  MaxPatches = 1
  Blueprints = {b1}
  MaxConversions = 2
  AiRequests = {1, 2}
  WorkflowDrafts = {d1}
  AiKeys = {k1}
  Fields = {f1}
  Budget = 1
  MaxAiVersions = 2
SYMMETRY Symmetry
INVARIANTS
  ServicesTypeOK
  ExclusiveClaim
  BroadcastsAreCounted
  OverIsWhole
  ReadyIsTrue
  StartedOncePerKey
  RunsAreSynced
  
  GraphsCompileInOrder
  MadeOfApproved
  AnswersNameTheirDraft
  DraftsAgree
  EntryChecksHold
PROPERTIES
  DeletedFileStaysDeleted
  VersionsAdvance
CHECK_DEADLOCK FALSE
