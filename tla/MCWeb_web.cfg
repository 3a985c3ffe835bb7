\* A page of the web interface: browsing, deleting and editing, one visit each.
CONSTANTS
  Queues = {1, 2}
  Transfers = {t1, t2}
  Steady = t1
  MaxChanges = 2
  MaxFailures = 1
  MaxGets = 2
  MaxOpenings = 2
  MaxSaves = 2
SPECIFICATION MCSpec
INVARIANT DialogTypeOK
INVARIANT SelectionIsShown
INVARIANT NothingUnasked
INVARIANT EarlierSavesStayOut
INVARIANT OptionsReachTheirTransfer
INVARIANT OnlyChosenEdited
PROPERTIES NeverBack Settles
CHECK_DEADLOCK FALSE
