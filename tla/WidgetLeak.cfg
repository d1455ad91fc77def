SPECIFICATION Spec
CONSTANTS
  kMaxSessionHistoryEntries = 2
  MaxLoads = 3
  Restored = {0, 1}
  BrowserSideModes = {TRUE, FALSE}
  MayDrop = FALSE
  MaxText = 2
  MaxEdits = 4
  Widgets = {"view", "popup", "frame"}
  MaxActs = 5
  MaxTouches = 1
  MaxGestures = 2
  MaxListeners = 1
  MaxAsks = 2
  MaxSnapshots = 2
INVARIANT NothingLeaks
CHECK_DEADLOCK FALSE
