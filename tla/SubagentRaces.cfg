\* Two workers and a handler race on two runs of either runtime; one transaction
\* may raise or the process crash.
SPECIFICATION Spec
CONSTANTS
  w1 = w1
  w2 = w2
  h1 = h1
  p1 = p1
  r1 = r1
  r2 = r2
  NoParent = NoParent
  NoRun = NoRun
  Workers = {w1, w2}
  Handlers = {h1}
  Parents = {p1}
  Runs = {r1, r2}
  Runtimes = {"subagent", "acp"}
  MaxConcurrency = 2
  MaxFaults = 1
SYMMETRY Symmetry
INVARIANTS TypeOK OneWorkerPerRun ToldOnceWhenTerminal TaskRunIsOver OutcomeIsBacked
PROPERTIES LifecycleSpec
