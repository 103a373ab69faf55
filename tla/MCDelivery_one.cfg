SPECIFICATION Spec
CONSTANTS
  Handlers = {h1, h2}
  Deliveries = {d1}
  Tasks = {t1}
  Attempts = {a1, a2}
  Keys = {k1}
  None = None
  CanFail = TRUE
SYMMETRY Symmetry
INVARIANTS
  TypeOK
  ApprovedBeforeDispatch
  RowsAreTrue
PROPERTIES
  AttemptsSettleOnce
  ImplementsGate
CHECK_DEADLOCK FALSE
