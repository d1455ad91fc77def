SPECIFICATION FairSpec
CONSTANTS
  MaxIds = 6
  Sizes = {1, 2}
  MaxOutputs = 2
  EmptyFrames = FALSE
  MaxEvents = 3
  Requests = {r1, r2}
  Jobs = {j1, j2, j3}
  None = None
INVARIANTS
  TreesAgree
  FramesGoHome
  CopiesHaveOnePlace
  MemoryIsSafe
PROPERTIES
  SwapOutIsAnswered
  FramesGoOn
  EachRequestIsAnswered
CHECK_DEADLOCK FALSE
