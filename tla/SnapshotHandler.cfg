SPECIFICATION FairSpec
CONSTANTS
  Keys <- MCKeys
  SelectKeys <- MCSelectKeys
  Urls <- MCUrls
  Types <- MCTypes
  Switches <- MCSwitches
  Interval = 0
  MaxTime = 1
  MaxEvents = 3
  MaxVisits = 1
INVARIANTS
  TypeOK
  CallbackFindsItsEvent
  WaitIsAnswerable
  CaptureIsDecided
PROPERTIES
  ScreenshotOnlyBecomesReady
CHECK_DEADLOCK FALSE
