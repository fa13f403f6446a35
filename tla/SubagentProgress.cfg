\* Every run ends and the limit holds although two handlers spawn at once and one
\* transaction may raise or the process crash.
SPECIFICATION FairSpec
CONSTANTS
  w1 = w1
  h1 = h1
  h2 = h2
  p1 = p1
  r1 = r1
  r2 = r2
  NoParent = NoParent
  NoRun = NoRun
  Workers = {w1}
  Handlers = {h1, h2}
  Parents = {p1}
  Runs = {r1, r2}
  Runtimes = {"subagent"}
  MaxConcurrency = 1
  MaxFaults = 1
INVARIANTS ActiveWithinLimit
PROPERTIES RunsEnd
