SPECIFICATION Spec
CONSTANTS
  w1 = w1
  w2 = w2
  p1 = p1
  p2 = p2
  Widgets = {w1, w2}
  Procs = {p1}
  ProcOf <- OneProcess
  Decisions <- RecordDecisions
  MaxEvents = 2
  MaxCrashes = 0
  MaxRoutes = 0
INVARIANTS
  ReleasedByItsOwnScreenshot
CHECK_DEADLOCK FALSE
