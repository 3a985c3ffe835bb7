SPECIFICATION MCSpec
CONSTANTS
  Threads = {a, b}
  Extra = b
  MaxQuestions = 2
  MaxProgress = 1
  MaxPosted = 1
  MaxWire = 2
  MaxLoads = 2
INVARIANTS
  PageTypeOK
  NobodyLeftWaiting
  AnswerReachesAsker
  FrontEndsKnow
  PageCurrent
  HiddenOnlyWhenGone
PROPERTIES
  OneOutcome
  AskersReturn
\* The task's life ends, and the application's.
CHECK_DEADLOCK FALSE
