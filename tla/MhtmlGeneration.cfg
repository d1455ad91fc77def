SPECIFICATION FairSpec
CONSTANTS
  Frames <- MCFrames
  Procs = {"p1", "p2"}
  HostOf <- MCHostOf
  Resources = {"css", "img"}
  Sizes = {"ok", "error"}
  MaxJobs = 2
INVARIANTS
  FileIsThePage
  OneHonestWriter
PROPERTIES
  JobEnds
CHECK_DEADLOCK FALSE
