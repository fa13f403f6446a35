\* No fault, no old row: a job that has run is paused.
SPECIFICATION Spec
CONSTANTS
  Jobs = {j1}
  Handlers = {h1}
  Schedules <- MCSchedules
  OldRows <- MCNoRows
  Cleaners = {}
  MaxFaults = 0
  Scheduler = scheduler
  Heartbeat = heartbeat
  Never = never
  Day = 2
  DaysPerWeek = 2
  HostOffset = 0
INVARIANT PausedCanBeActivated
