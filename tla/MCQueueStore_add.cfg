SPECIFICATION Spec
CONSTANTS
  Main = Main
  w1 = w1
  w2 = w2
  s0 = s0
  s1 = s1
  s2 = s2
  q1 = q1
  q2 = q2
  t1 = t1
  t2 = t2
  NoQueue = NoQueue
  NoTransfer = NoTransfer
  Torn = Torn
  Workers = {w1, w2}
  Savers = {s0, s1, s2}
  Saver <- SaverOfEach
  Queues = {q1, q2}
  Transfers = {t1}
  Loaded <- EmptyQueues
  Requests = {"add", "createQueue"}
  DiskFails = FALSE
PROPERTIES AddsEnd
CHECK_DEADLOCK FALSE
