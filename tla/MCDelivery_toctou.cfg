SPECIFICATION FairSpec
CONSTANTS
  Handlers = {h1, h2}
  Deliveries = {d1}
  Tasks = {t1}
  Attempts = {a1, a2}
  Keys = {k1}
  None = None
  CanFail = TRUE
PROPERTIES
  ApprovedWhenDispatched
CHECK_DEADLOCK FALSE
