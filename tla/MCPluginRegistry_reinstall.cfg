SPECIFICATION MCSpec
CONSTANTS
  w1 = w1
  w2 = w2
  t1 = t1
  t2 = t2
  Main = Main
  Workers = {w1, w2}
  Versions = {1, 2}
  NoVersion = NoVersion
  Transfers = {t1}
  Nobody = Nobody
  MaxChecks = 1
  Visits = {"page"}
INVARIANTS NewOneTakesOver
