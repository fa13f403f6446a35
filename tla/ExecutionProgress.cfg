SPECIFICATION FairSpec
CONSTANTS
  w1 = w1
  w2 = w2
  h1 = h1
  h2 = h2
  r1 = r1
  r2 = r2
  c1 = c1
  c2 = c2
  NoRun = NoRun
  NoCall = NoCall
  Workers <- OneWorker
  Handlers <- OneHandler
  Runs <- TwoRuns
  Calls <- OneCall
  MaxTurns = 2
  MaxCrashes = 1
  Faults <- AllFaults
PROPERTIES QueuedIsStarted RunningIsSettled ThreadsReturn
