SPECIFICATION Spec
CONSTANTS
  Handlers = {h1, h2}
  Deliveries = {d1, d2}
  Tasks = {t1, t2}
  Attempts = {}
  Keys = {k1, k2}
  None = None
  CanFail = FALSE
SYMMETRY Symmetry
INVARIANTS
  GatesStayApart
CHECK_DEADLOCK FALSE
