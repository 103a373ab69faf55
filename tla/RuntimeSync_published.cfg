SPECIFICATION SyncSpec
CONSTANTS
  Handlers = {h1}
  None = None
  CanDie = FALSE
  Sources = {w1, w2}
  Sound = {w1, w2}
  SyncVersions = {cv1}
  SyncKeys = {}
  RunKeys = {k1}
  MaxEdits = 1
  MaxReports = 2
INVARIANTS
  RunsPublishedVersion
CHECK_DEADLOCK FALSE
