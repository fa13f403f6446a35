------------------------------ MODULE CronJobs ------------------------------
(***************************************************************************)
(* The scheduler thread repairs and runs the due cron jobs and the heartbeat *)
(* while HTTP handlers create, edit, pause, activate and remove the jobs.    *)
(*                                                                         *)
(* Every commit is a step.  A thread loads a row, edits it and saves it, and *)
(* SQLAlchemy writes only the columns the edit changed, so that two savers   *)
(* may leave a row behind that neither of them has seen.                     *)
(*                                                                         *)
(* Time is relative: next_run_at is the number of hours to go, 0 when due.   *)
(***************************************************************************)
EXTENDS CronSchedules, FiniteSets

CONSTANTS
  Jobs,      \* cron jobs that may ever be created
  Handlers,  \* HTTP handler threads
  Schedules, \* the schedules users choose from
  OldRows,   \* rows the database may hold from earlier on
  Cleaners,  \* the jobs of type cleanup_stale_runs
  MaxFaults, \* bound on exceptions and crashes
  Scheduler, \* the scheduler's thread
  Heartbeat, \* the owner of the heartbeat's task runs
  Never      \* NULL in next_run_at; also: no item

ASSUME ConstantsAssumption ==
  /\ Schedules # {}
  /\ \A s \in Schedules : IsSchedule(s)
  /\ OldRows \subseteq
       [status : {"active", "paused"}, schedule : Schedules, ran : BOOLEAN, next : Nat \cup {Never}]
  /\ Cleaners \subseteq Jobs
  /\ Scheduler \notin Handlers
  /\ Heartbeat \notin Jobs
  /\ Never \notin Jobs \cup Nat \cup {Heartbeat}
  /\ MaxFaults \in Nat

VARIABLES
  hour,         \* of the week, in UTC
  job,          \* the rows of cron_jobs
  heartbeatDue, \* last_run_at of the heartbeat is absent or old enough
  stranded,     \* task runs in `running` that nobody works on, with their age
  task,         \* status of the task run the scheduler works on
  pc,           \* where each thread is
  item,         \* the job (or Heartbeat) a thread works on
  edit,         \* the row a thread has edited ...
  dirty,        \* ... and the columns its commit will write
  todo,         \* jobs the tick still has to repair, or to run
  sweep,        \* stale task runs it still has to clean
  faults

dbVars == <<job, heartbeatDue, stranded, task>>
threadVars == <<pc, item, edit, dirty, todo, sweep>>
vars == <<hour, dbVars, threadVars, faults>>

Threads == Handlers \cup {Scheduler}
Owners == Jobs \cup {Heartbeat}

Columns == {"status", "schedule", "ran", "next"}
Statuses == {"none", "active", "paused", "removed"}
TaskStatuses == {"none", "running", "completed", "failed"}
Rows == [status : Statuses, schedule : Schedules, ran : BOOLEAN, next : Nat \cup {Never}]
RunRows == Owners \X {"fresh", "stale"}

SchedulerSteps ==
  {"repair", "saveRepair", "due", "execute", "clean", "saveRun", "record", "audit",
   "fail", "saveFailed"}
Steps == {"idle", "save"} \cup SchedulerSteps

TypeOK ==
  /\ hour \in 0 .. Week - 1
  /\ job \in [Jobs -> Rows]
  /\ heartbeatDue \in BOOLEAN
  /\ stranded \subseteq RunRows
  /\ task \in TaskStatuses
  /\ pc \in [Threads -> Steps]
  /\ item \in [Threads -> Owners \cup {Never}]
  /\ edit \in [Threads -> Rows]
  /\ dirty \in [Threads -> SUBSET Columns]
  /\ todo \subseteq Jobs
  /\ sweep \subseteq RunRows
  /\ faults \in 0 .. MaxFaults

NoRow == [status |-> "none", schedule |-> CHOOSE s \in Schedules : TRUE,
          ran |-> FALSE, next |-> Never]

Init ==
  /\ hour \in 0 .. Week - 1
  /\ job \in [Jobs -> {NoRow} \cup OldRows]
  /\ heartbeatDue = TRUE
  /\ stranded = {}
  /\ task = "none"
  /\ pc = [t \in Threads |-> "idle"]
  /\ item = [t \in Threads |-> Never]
  /\ edit = [t \in Threads |-> NoRow]
  /\ dirty = [t \in Threads |-> {}]
  /\ todo = {}
  /\ sweep = {}
  /\ faults = 0

-----------------------------------------------------------------------------
(* Sessions of the ORM. *)

Goto(t, step) == pc' = [pc EXCEPT ![t] = step]

Discard(t) ==
  /\ edit' = [edit EXCEPT ![t] = NoRow]
  /\ dirty' = [dirty EXCEPT ![t] = {}]

Merge(columns, new, old) ==
  [status   |-> IF "status" \in columns THEN new.status ELSE old.status,
   schedule |-> IF "schedule" \in columns THEN new.schedule ELSE old.schedule,
   ran      |-> IF "ran" \in columns THEN new.ran ELSE old.ran,
   next     |-> IF "next" \in columns THEN new.next ELSE old.next]

\* An assigned next_run_at is aware and the loaded one naive: they always differ.
Changed(j, columns, row) ==
  {c \in columns : row[c] # job[j][c] \/ (c = "next" /\ row.next # Never)}

\* Faulty Stage: the commit will write the whole row, as it was loaded.
StageWholeRow(t, j, columns, row) ==
  /\ edit' = [edit EXCEPT ![t] = row]
  /\ dirty' = [dirty EXCEPT ![t] = Columns]

\* The thread t has assigned `columns` of j and holds what the commit will write.
Stage(t, j, columns, row) ==
  LET changed == Changed(j, columns, row)
  IN  /\ edit' = [edit EXCEPT ![t] = Merge(changed, row, NoRow)]
      /\ dirty' = [dirty EXCEPT ![t] = changed]

\* save_cron_job: UPDATE of the columns that changed.
Write(t) ==
  job' = [j \in Jobs |-> IF j = item[t] THEN Merge(dirty[t], edit[t], job[j]) ELSE job[j]]

Save(t) == Write(t) /\ Discard(t)

\* Faulty Due: the local time is stored as it is.
DueInLocalTime(s, aware) ==
  LET d == NextIn(s, hour, aware) + s.zone IN IF d < 0 THEN 0 ELSE d

\* The hours to go when next_after is called; a time in the past is due.
Due(s, aware) == LET d == NextIn(s, hour, aware) IN IF d < 0 THEN 0 ELSE d

-----------------------------------------------------------------------------
(* HTTP handlers. *)

Exists(j) == job[j].status \in {"active", "paused"}

Create(h, j, s) ==
  /\ pc[h] = "idle"
  /\ job[j].status = "none"
  /\ job' = [job EXCEPT ![j] =
       [status |-> "active", schedule |-> s, ran |-> FALSE, next |-> Due(s, TRUE)]]
  /\ UNCHANGED <<hour, heartbeatDue, stranded, task, threadVars, faults>>

\* A handler loads the row of j and assigns `columns`.
Load(h, j, columns, row) ==
  /\ pc[h] = "idle"
  /\ Exists(j)
  /\ Stage(h, j, columns, row)
  /\ item' = [item EXCEPT ![h] = j]
  /\ Goto(h, "save")
  /\ UNCHANGED <<hour, dbVars, todo, sweep, faults>>

Pause(h, j) ==
  Load(h, j, {"status", "next"}, [job[j] EXCEPT !.status = "paused", !.next = Never])

Remove(h, j) ==
  Load(h, j, {"status", "next"}, [job[j] EXCEPT !.status = "removed", !.next = Never])

Activate(h, j) ==
  /\ ~NextRaises(job[j].schedule, job[j].ran, TRUE)
  /\ Load(h, j, {"status", "next"},
          [job[j] EXCEPT !.status = "active", !.next = Due(job[j].schedule, TRUE)])

Update(h, j, s) ==
  IF job[j].status = "active"
    THEN /\ ~NextRaises(s, job[j].ran, TRUE)
         /\ Load(h, j, {"schedule", "next"},
                 [job[j] EXCEPT !.schedule = s, !.next = Due(s, TRUE)])
    ELSE Load(h, j, {"schedule"}, [job[j] EXCEPT !.schedule = s])

SaveEdit(h) ==
  /\ pc[h] = "save"
  /\ Save(h)
  /\ item' = [item EXCEPT ![h] = Never]
  /\ Goto(h, "idle")
  /\ UNCHANGED <<hour, heartbeatDue, stranded, task, todo, sweep, faults>>

-----------------------------------------------------------------------------
(* The tick: repair, run what is due, heartbeat. *)

\* The work on the item is over; a running task run stays behind.
Leave(step) ==
  /\ Goto(Scheduler, step)
  /\ item' = [item EXCEPT ![Scheduler] = Never]
  /\ Discard(Scheduler)
  /\ task' = "none"
  /\ stranded' = IF task = "running"
                   THEN stranded \cup {<<item[Scheduler], "fresh">>} ELSE stranded
  /\ sweep' = {}

\* The exception leaves tick and is noted by the probe.
TickFails == Leave("idle") /\ todo' = {}

Tick ==
  /\ pc[Scheduler] = "idle"
  /\ todo' = {j \in Jobs : Exists(j)}
  /\ Goto(Scheduler, "repair")
  /\ UNCHANGED <<hour, dbVars, item, edit, dirty, sweep, faults>>

\* Faulty Repair: every active job is planned anew.
RepairEvery(j) ==
  /\ pc[Scheduler] = "repair"
  /\ j \in todo
  /\ IF job[j].status = "active" /\ NextRaises(job[j].schedule, job[j].ran, TRUE)
       THEN TickFails
       ELSE /\ todo' = todo \ {j}
            /\ UNCHANGED <<stranded, task, pc, item, edit, dirty, sweep>>
  /\ UNCHANGED <<hour, job, heartbeatDue, faults>>

\* _repair_schedules looks at one job.
Repair(j) ==
  /\ pc[Scheduler] = "repair"
  /\ j \in todo
  /\ IF job[j].status = "active" /\ job[j].next = Never
       THEN IF NextRaises(job[j].schedule, job[j].ran, TRUE)
              THEN TickFails
              ELSE /\ Stage(Scheduler, j, {"next"},
                            [job[j] EXCEPT !.next = Due(job[j].schedule, TRUE)])
                   /\ item' = [item EXCEPT ![Scheduler] = j]
                   /\ todo' = todo \ {j}
                   /\ Goto(Scheduler, "saveRepair")
                   /\ UNCHANGED <<stranded, task, sweep>>
       ELSE /\ todo' = todo \ {j}
            /\ UNCHANGED <<stranded, task, pc, item, edit, dirty, sweep>>
  /\ UNCHANGED <<hour, job, heartbeatDue, faults>>

SaveRepair ==
  /\ pc[Scheduler] = "saveRepair"
  /\ Save(Scheduler)
  /\ item' = [item EXCEPT ![Scheduler] = Never]
  /\ Goto(Scheduler, "repair")
  /\ UNCHANGED <<hour, heartbeatDue, stranded, task, todo, sweep, faults>>

ListDue ==
  /\ pc[Scheduler] = "repair"
  /\ todo = {}
  /\ todo' = {j \in Jobs : job[j].status = "active" /\ job[j].next = 0}
  /\ Goto(Scheduler, "due")
  /\ UNCHANGED <<hour, dbVars, item, edit, dirty, sweep, faults>>

\* create_task_run: a task run of the job (or the heartbeat) is running.
Start(owner) ==
  /\ task' = "running"
  /\ item' = [item EXCEPT ![Scheduler] = owner]
  /\ Goto(Scheduler, "execute")
  /\ UNCHANGED <<hour, job, heartbeatDue, stranded, edit, dirty, sweep, faults>>

\* run_job does not look at the status again: the job may have been paused.
StartRun(j) ==
  /\ pc[Scheduler] = "due"
  /\ j \in todo
  /\ todo' = todo \ {j}
  /\ Start(j)

StartHeartbeat ==
  /\ pc[Scheduler] = "due"
  /\ todo = {}
  /\ heartbeatDue
  /\ Start(Heartbeat)
  /\ UNCHANGED todo

EndTick ==
  /\ pc[Scheduler] = "due"
  /\ todo = {}
  /\ ~heartbeatDue
  /\ Goto(Scheduler, "idle")
  /\ UNCHANGED <<hour, dbVars, item, edit, dirty, todo, sweep, faults>>

\* Faulty Execute: the heartbeat only counts.
ExecuteWithoutSweep ==
  /\ pc[Scheduler] = "execute"
  /\ Goto(Scheduler, "clean")
  /\ UNCHANGED <<hour, dbVars, item, edit, dirty, todo, sweep, faults>>

\* The heartbeat and the cleanup jobs list the stale task runs ...
Execute ==
  /\ pc[Scheduler] = "execute"
  /\ sweep' = IF item[Scheduler] \in Cleaners \cup {Heartbeat}
                THEN {run \in stranded : run[2] = "stale"} ELSE {}
  /\ Goto(Scheduler, "clean")
  /\ UNCHANGED <<hour, dbVars, item, edit, dirty, todo, faults>>

\* ... and fail each by a commit of its own.
Clean(run) ==
  /\ pc[Scheduler] = "clean"
  /\ run \in sweep
  /\ sweep' = sweep \ {run}
  /\ stranded' = stranded \ {run}
  /\ UNCHANGED <<hour, job, heartbeatDue, task, pc, item, edit, dirty, todo, faults>>

\* last_run_at becomes finished_at, which the refresh has made naive.
Reschedule(j) ==
  Stage(Scheduler, j, {"ran", "next"},
        [job[j] EXCEPT !.ran = TRUE, !.next = Due(job[j].schedule, FALSE)])

\* complete_task_run(status="completed")
Complete ==
  /\ pc[Scheduler] = "clean"
  /\ sweep = {}
  /\ task' = "completed"
  /\ IF item[Scheduler] = Heartbeat
       THEN Goto(Scheduler, "record") /\ UNCHANGED <<edit, dirty>>
       ELSE Goto(Scheduler, "saveRun") /\ Reschedule(item[Scheduler])
  /\ UNCHANGED <<hour, job, heartbeatDue, stranded, item, todo, sweep, faults>>

SaveRun ==
  /\ pc[Scheduler] = "saveRun"
  /\ Save(Scheduler)
  /\ Goto(Scheduler, "audit")
  /\ UNCHANGED <<hour, heartbeatDue, stranded, task, item, todo, sweep, faults>>

\* upsert_setting("heartbeat", "last_run_at")
Record ==
  /\ pc[Scheduler] = "record"
  /\ heartbeatDue' = FALSE
  /\ Goto(Scheduler, "audit")
  /\ UNCHANGED <<hour, job, stranded, task, item, edit, dirty, todo, sweep, faults>>

Proceed == Leave(IF item[Scheduler] = Heartbeat THEN "idle" ELSE "due")

Audit ==
  /\ pc[Scheduler] = "audit"
  /\ Proceed
  /\ UNCHANGED <<hour, job, heartbeatDue, todo, faults>>

\* Faulty Fail: the task run is not completed as failed.
FailSilently ==
  /\ pc[Scheduler] = "fail"
  /\ Proceed
  /\ UNCHANGED <<hour, job, heartbeatDue, todo, faults>>

\* The exception handler fails the task run, completed or not.
Fail ==
  /\ pc[Scheduler] = "fail"
  /\ task' = "failed"
  /\ Goto(Scheduler, "saveFailed")
  /\ IF item[Scheduler] = Heartbeat
       THEN UNCHANGED <<edit, dirty>>
       ELSE Reschedule(item[Scheduler])
  /\ UNCHANGED <<hour, job, heartbeatDue, stranded, item, todo, sweep, faults>>

\* The row is saved (the heartbeat has none) and the failure audited.
SaveFailed ==
  /\ pc[Scheduler] = "saveFailed"
  /\ Write(Scheduler)
  /\ Proceed
  /\ UNCHANGED <<hour, heartbeatDue, todo, faults>>

SchedulerStep ==
  \/ Tick
  \/ \E j \in Jobs : Repair(j) \/ StartRun(j)
  \/ SaveRepair
  \/ ListDue
  \/ StartHeartbeat
  \/ EndTick
  \/ Execute
  \/ \E run \in RunRows : Clean(run)
  \/ Complete
  \/ SaveRun
  \/ Record
  \/ Audit
  \/ Fail
  \/ SaveFailed

HandlerStep(h) ==
  \/ \E j \in Jobs :
       \/ Pause(h, j)
       \/ Remove(h, j)
       \/ Activate(h, j)
       \/ \E s \in Schedules : Create(h, j, s) \/ Update(h, j, s)
  \/ SaveEdit(h)

-----------------------------------------------------------------------------
(* Failures and time. *)

Faulty == faults < MaxFaults /\ faults' = faults + 1

\* An exception inside the try of run_job or run_heartbeat that leaves the
\* session usable: a query, a conversion, or the refresh after a commit.
RaiseInRun ==
  /\ Faulty
  /\ pc[Scheduler] \in {"execute", "clean", "saveRun", "record", "audit"}
  /\ Goto(Scheduler, "fail")
  /\ Discard(Scheduler)
  /\ sweep' = {}
  /\ UNCHANGED <<hour, dbVars, item, todo>>

\* A failed flush: the handler's own commit raises too, and the tick is over.
RaiseInTick ==
  /\ Faulty
  /\ pc[Scheduler] # "idle"
  /\ TickFails
  /\ UNCHANGED <<hour, job, heartbeatDue>>

RaiseInHandler(h) ==
  /\ Faulty
  /\ pc[h] = "save"
  /\ Discard(h)
  /\ item' = [item EXCEPT ![h] = Never]
  /\ Goto(h, "idle")
  /\ UNCHANGED <<hour, dbVars, todo, sweep>>

\* The process dies and is started again.
Crash ==
  /\ Faulty
  /\ pc' = [t \in Threads |-> "idle"]
  /\ item' = [t \in Threads |-> Never]
  /\ edit' = [t \in Threads |-> NoRow]
  /\ dirty' = [t \in Threads |-> {}]
  /\ todo' = {}
  /\ sweep' = {}
  /\ task' = "none"
  /\ stranded' = IF task = "running"
                   THEN stranded \cup {<<item[Scheduler], "fresh">>} ELSE stranded
  /\ UNCHANGED <<hour, job, heartbeatDue>>

OneHourOn(next) == IF next = Never \/ next = 0 THEN next ELSE next - 1

HourPasses ==
  /\ hour' = (hour + 1) % Week
  /\ job' = [j \in Jobs |-> [job[j] EXCEPT !.next = OneHourOn(@)]]
  /\ edit' = [t \in Threads |-> [edit[t] EXCEPT !.next = OneHourOn(@)]]
  /\ UNCHANGED <<heartbeatDue, stranded, task, pc, item, dirty, todo, sweep, faults>>

\* stale_after_seconds have passed since the run was started.
RunAges ==
  \E run \in stranded :
    /\ run[2] = "fresh"
    /\ stranded' = (stranded \ {run}) \cup {<<run[1], "stale">>}
    /\ UNCHANGED <<hour, job, heartbeatDue, task, threadVars, faults>>

HeartbeatComesDue ==
  /\ ~heartbeatDue
  /\ heartbeatDue' = TRUE
  /\ UNCHANGED <<hour, job, stranded, task, threadVars, faults>>

-----------------------------------------------------------------------------

Next ==
  \/ SchedulerStep
  \/ \E h \in Handlers : HandlerStep(h) \/ RaiseInHandler(h)
  \/ RaiseInRun
  \/ RaiseInTick
  \/ Crash
  \/ HourPasses
  \/ RunAges
  \/ HeartbeatComesDue

Spec == Init /\ [][Next]_vars

\* The threads keep running; task runs grow old and heartbeats come due.
Fairness ==
  /\ WF_vars(SchedulerStep)
  /\ \A h \in Handlers : WF_vars(SaveEdit(h))
  /\ WF_vars(RunAges)
  /\ WF_vars(HeartbeatComesDue)

FairSpec == Spec /\ Fairness

-----------------------------------------------------------------------------
(* Properties. *)

Plans(step) == step \in {"save", "saveRepair", "saveRun", "saveFailed"}

EndsRun(step) == step \in {"saveRun", "saveFailed"}

\* Whoever plans a run (create, update, activate, repair, run_job) plans the next
\* time the schedule fires after now, in the job's zone, as a calendar tells it.  The
\* end of a run of a daily or weekly job is the exception: run_job hands next_after a
\* naive finished_at, so what is planned is the first time after that reading of it,
\* HostOffset hours ago.  On a host that keeps UTC that is now; elsewhere a time is
\* skipped or one that has passed is run again.
NextRunIsNext ==
  [][/\ \A t \in Threads :
          Plans(pc'[t]) /\ pc'[t] # pc[t] /\ "next" \in dirty'[t] /\ edit'[t].next # Never
            => LET s == Merge(dirty'[t], edit'[t], job[item'[t]]).schedule
               IN  IsNextSince(s, hour, Behind(s, ~EndsRun(pc'[t])), edit'[t].next)
     /\ \A j \in Jobs :
          job[j].status = "none" /\ job'[j].status # "none"
            => IsNext(job'[j].schedule, hour, job'[j].next)]_vars

\* The scheduler saves rows it read before a user paused or removed the job: only
\* a save of a handler may change a status, whatever the order of the commits.
StatusIsTheUsers ==
  [][\A j \in Jobs :
       job'[j].status # job[j].status /\ job[j].status # "none"
         => \E h \in Handlers : pc[h] = "save" /\ pc'[h] = "idle" /\ item[h] = j]_vars

\* A task run is left behind in `running` only by the very step that fails or
\* crashes: neither an exception that run_job catches nor a normal end leaves one.
StrandedByFaultsOnly == [][stranded' \subseteq stranded \/ faults' > faults \/ RunAges]_vars

\* An active interval job that has run lost its next run (two handlers raced): every
\* tick raises in _repair_schedules, before it gets to any due job.
Stuck ==
  \E j \in Jobs :
    /\ job[j].status = "active"
    /\ job[j].next = Never
    /\ NextRaises(job[j].schedule, job[j].ran, TRUE)

\* A due job is run, unless a user intervenes or tick is stuck, although ticks
\* fail and the process crashes.
DueJobRuns ==
  \A j \in Jobs :
    job[j].status = "active" /\ job[j].next = 0
      ~> \/ item[Scheduler] = j /\ task = "running"
         \/ ~(job[j].status = "active" /\ job[j].next = 0)
         \/ Stuck

\* A task run that was left behind is failed by a later heartbeat.
StrandedIsCleaned == \A run \in RunRows : run \in stranded ~> run \notin stranded \/ Stuck

\* A paused job can be activated: next_after accepts its row.
\* (tests/test_agent_os_endpoints.py)
PausedCanBeActivated ==
  \A j \in Jobs :
    job[j].status = "paused" => ~NextRaises(job[j].schedule, job[j].ran, TRUE)

=============================================================================
