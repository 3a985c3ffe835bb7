SPECIFICATION Spec
CONSTANTS
  t1 = t1
  t2 = t2
  Transfers = {t1}
  QueueCount = 1
  Loaded <- OneTransfer
  Torrents = {}
  LimitChoices <- OneEach
  UpAsDown = FALSE
  AutoRemove = FALSE
  RetryWorking = TRUE
  RetryCount = 0
  DropForced = FALSE
  RestStates <- ClientStates
  MaxPosted = 1
PROPERTIES RetryLeavesPaused
