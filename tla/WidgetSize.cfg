SPECIFICATION FairSpec
CONSTANTS
  None = None
  s1 = s1
  s2 = s2
  b1 = b1
  b2 = b2
  Views <- MCViews
  Rects = {r1, r2}
  EmulatedSize = e
  ScaledBacking = sb
  NoParams = NoParams
  MaxChannel = 2
INVARIANTS
  SizeKnown
  RectsKnown
  AcksAreOwed
PROPERTIES
  SizeArrives
