\* One user edits one job while the scheduler repairs, runs and sweeps, on a host one
\* hour east of UTC; one exception or crash.
SPECIFICATION FairSpec
CONSTANTS
  Jobs = {j1}
  Handlers = {h1}
  Schedules <- MCSchedules
  OldRows <- MCOldRows
  Cleaners = {}
  MaxFaults = 1
  Scheduler = scheduler
  Heartbeat = heartbeat
  Never = never
  Day = 2
  DaysPerWeek = 2
  HostOffset = 1
PROPERTIES
  NextRunIsNext
  StatusIsTheUsers
  StrandedByFaultsOnly
  DueJobRuns
  StrandedIsCleaned
