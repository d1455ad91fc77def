SPECIFICATION FairSpec
CONSTANTS
  UserEvents <- MCUserEvents
  MaxEvents = 4
CONSTRAINT FewEvents
INVARIANTS
  LanesAreSound
  UserIsObeyed
  DebtIsKnown
  HangMonitorWatches
PROPERTIES
  DidFlushMeansIdle
  HeldEventsLeave
CHECK_DEADLOCK FALSE
