SPECIFICATION Spec
CONSTANTS
  main = main
  child = child
  t1 = t1
  MaxRows = 4
  Texts = {t1}
  Queries <- MCQueries
  Sessions <- MCSessions
  Parent <- MCParent
  Runs = {r1, r2}
  Handlers = {h1, h2}
  Closers = {c1, c2}
  Limit = 1
  HardDelete = TRUE
  OldRows <- MCOldRows
  MaxRequests = 3
  MaxCrashes = 1
  Absent = Absent
  NoSession = NoSession
  NoRun = NoRun
  NoText = NoText
SYMMETRY MCSymmetry
CHECK_DEADLOCK FALSE
INVARIANTS TypeOK OneSummaryPerRun LogTellsState RecalledOnce
PROPERTIES NoBlindRecapture
