SPECIFICATION Spec
CONSTANTS
  t1 = t1
  t2 = t2
  Transfers = {t1, t2}
  QueueCount = 1
  Loaded <- OneQueue
  Torrents = {t2}
  LimitChoices <- OneOrNone
  UpAsDown = FALSE
  AutoRemove = TRUE
  RetryWorking = FALSE
  RetryCount = 0
  DropForced = TRUE
  RestStates <- JustWaiting
  MaxPosted = 1
PROPERTIES WaitingStarts CompletedAreRemoved InCustody
