\* Two runs, two connections lost or left.
SPECIFICATION FairSpec
CONSTANTS
  r1 = r1
  r2 = r2
  Runs = {r1, r2}
  Scripts <- MCScripts
  Asked = {r1}
  Follows <- MCFollows
  Session = Session
  MaxLosses = 2
  None = None
INVARIANTS
  ShownInOrder
  CardTellsOutcome
PROPERTIES
  ReadyMeansReplayed
  NothingMissed
CHECK_DEADLOCK FALSE
