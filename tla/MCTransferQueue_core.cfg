SPECIFICATION Spec
CONSTANTS
  t1 = t1
  t2 = t2
  Transfers = {t1, t2}
  QueueCount = 2
  Loaded <- OneOfTwo
  Torrents = {}
  LimitChoices <- OneEach
  UpAsDown = FALSE
  AutoRemove = TRUE
  RetryWorking = TRUE
  RetryCount = 0
  DropForced = FALSE
  RestStates <- OddStates
  MaxPosted = 1
CONSTRAINT Bounds
INVARIANTS TypeOK EngineMatchesState SavedArePaused NeverTwice NoDanglingEvents
PROPERTIES TickKeepsLimits TickKeepsOrder TickLeavesOthers
