SPECIFICATION FairSpec
CONSTANTS
  w1 = w1
  w2 = w2
  p1 = p1
  p2 = p2
  Widgets = {w1, w2}
  Procs = {p1}
  ProcOf <- OneProcess
  Decisions <- AllDecisions
  MaxEvents = 2
  MaxCrashes = 1
  MaxRoutes = 1
INVARIANTS
  ReleasedByItsId
  InOrderWhileRoutesStable
PROPERTIES
  NoHangWhileRouted
CHECK_DEADLOCK FALSE
