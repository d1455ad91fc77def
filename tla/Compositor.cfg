SPECIFICATION Spec
CONSTANTS
  TreeLayers = {r, a, b}
  Root = r
  None = None
  MasksDraw = FALSE
  MaxChanges = 5
  Foreign = Foreign
  Rects = {r1, r2}
  SkiaTouches = {"blend", "stencil", "scissorOn", "program", "geometry", "func", "framebuffer", "viewport"}
  MaxBatch = 2
  MaxQuads = 2
  kMaxPendingSyncQueries = 2
  Regions = {1, 2}
  MaxFrames = 5
  Uids = {1}
  ToActive = {TRUE, FALSE}
  MaxEvents = 5
  Nested = {"child"}
  inner = "inner"
  outer = "outer"
  AnimationHosts = {TRUE}
  MaxMoves = 4
INVARIANTS
  LayersAgree
  DrawnAsAsked
  FramesKeepTheirResources
  HostIsReady
  ScrollsAreCounted
CHECK_DEADLOCK FALSE
