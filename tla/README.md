# Formal models of the forkclaw backend

TLA+ models of the concurrent core of forkclaw, the TLC runs that check them on
small instances, and TLAPS proofs of their main theorems for every instance.
Paths are relative to the repository; `app/` is `src/apps/backend/app/`.

## 1. The system

forkclaw is a Tauri desktop application that talks over HTTP to a local FastAPI
backend, one process, whose canonical state is a SQLite database. Besides the
HTTP handlers (threads of the server's pool) the process runs three background
loops, each ticking in a thread of its own: the execution worker, the subagent
worker and the scheduler. All of them share nothing but the database, and most
operations are **several commits** long, so they interleave between commits.

| component | state | operations | interacts with |
|---|---|---|---|
| agent execution (`services/agent_execution.py`, `execution_worker.py`) | `tasks`, `task_runs` | accept, claim, execute, settle, fail | kernel, persister, event stream |
| kernel tool loop (`adapters/kernel/nanobot.py`) | locals of one execution | provider turn, tool call, pause, stop | tools, cancellation probe |
| tool policy (`services/tools.py`, `tools/policies.py`) | profile, `tool_policy_overrides`, `tool_permissions`, `tool_calls` | seed, materialise, change profile or permission, authorise, ask, invoke, record | approvals |
| approvals (`services/approvals.py`) | `approvals` | approve (run the tool, resume the kernel), deny | executions |
| subagents (`services/subagents.py`, `subagent_worker.py`) | `session_subagent_runs`, child sessions | spawn, cancel, sweep, claim, execute, finalize | executions, ACP, memory |
| scheduler and cron jobs (`services/scheduler.py`, `cron_jobs.py`, `core/schedules.py`) | `cron_jobs`, `task_runs`, heartbeat settings | create, edit, pause, activate, remove, tick, heartbeat | task runs |
| memory (`services/memory*.py`, `repositories/memory*.py`) | `memory_entries`, `session_summaries`, scopes, change log, recall log | create, edit, override, hide, promote, delete, restore, recall, capture, refresh, reset | executions, subagents |
| prompt context (`services/prompt_context_service.py`, `execution_request_builder.py`) | none | resolve and layer memories for a prompt | memory, executions |
| event stream (`services/execution_events.py`, `api/routes/sessions.py`) | cursor per connection | replay, say ready, poll, close | audit events, tool calls |
| desktop chat (`lib/backend/sessionExecutionStream.ts`, `hooks/controllers/chatExecutionState.ts`) | last event id, seen ids, cards | connect, reconnect, deduplicate, fold, bind and discard answers | event stream |
| operational settings (`services/operational_settings.py`) | settings, secrets | budget check, edit | executions |
| ACP bridge (`services/acp.py`) | `acp_sessions` | enable, create, prompt, cancel | executions, subagents |
| runtime supervision (`services/runtime_supervisor.py`, `runtime_monitor.py`, `src-tauri/src/lib.rs`) | probes, child process | start, stop, report, restart | the three loops |

What is hard here: check-then-act across commits (approvals, subagent cancel, ACP
mapping, budgets, captured memories), decisions taken from rows that change before they are written,
exceptions between two commits, crashes with no recovery pass, sweeps that race
late workers, and events that are stamped in one order and committed in another.
`PROJECT.json` lists each hazard at its line.

What makes each component correct:

* an execution has one executor, is settled once, and is never left `running`
  without somebody at it; queued executions start in order;
* a tool under `ask` does not run before its approval is decided, runs once, and
  not at all when denied; a run is paused only when somebody was asked;
* the permissions that decide a tool call are those of the policy the user saved;
* a delegated run is accepted, started, ended and reported once, within the limit
  of active children, whoever ends it; a cancellation is honoured;
* a cron job runs when it is due, only while it is active, and again only at its
  next time; stale runs are cleaned up; the scheduler keeps ticking;
* memory: what the user hid or deleted is not captured again, a run is summarised
  once, the change log tells the state, nothing is recalled twice within hours;
* a prompt shows what a human decided, a subagent nothing of another session;
* the chat folds every event once and in order, whatever the connection does;
* the budget is exceeded by no more than what the executions under way can cost.

## 2. Modules

| module | what it is |
|---|---|
| `AgentExecution` | executions, tool loop, tool policy and approvals, with every thread of the process |
| `AgentExecutionProofs` | all safety properties of `AgentExecution`: ownership, order, approvals, decisions, settled runs |
| `ToolPolicy` | profile, overrides and the permissions every `ToolService` materialises from them |
| `ToolPolicyProofs` | the materialised permissions are those of the policy |
| `SubagentLifecycle` | abstract: what the parent session is promised about a delegated run |
| `Subagents` | handlers, workers, sweep, exceptions and crashes |
| `SubagentProofs` | all safety properties of `Subagents`, and that it implements `SubagentLifecycle` |
| `CronSchedules` | when a schedule fires next, and what "next" means on a calendar |
| `CronJobs` | the scheduler's tick and heartbeat against the handlers of the cron jobs |
| `CronJobProofs` | types, statuses and stranded task runs; that planned runs are the next ones, with the calendar's arithmetic |
| `Memory` | entries and summaries under users' requests, recall and capture |
| `MemoryProofs` | all safety properties of `Memory` |
| `PromptContext` | which memories reach a prompt, in which layer and order, and what is cut |
| `PromptContextProofs` | what is injected, into which prompt, and how much |
| `EventStream` | committed events, one connection, and the cards the desktop folds them into |
| `EventStreamProofs` | order, replay before ready, cards |
| `Admission` | budgets and ACP mappings: what is checked before an execution and changes under it |
| `AdmissionProofs` | types, bounded overspend, cancelled mappings stay |
| `MC...` | symmetry and constant sets of the runs |

### AgentExecution

A thread (worker or HTTP handler) is an index of `pc`, `mode`, `job`, `tool`,
`turn`, `outcome` and `asked`; the last five are the locals of
`_execute_messages`. `run`, `call`, `approval` and `level` are columns. One
action is one commit (or one external call), so a handler may act between any
two of them:

* `EnqueueSimple` / `ExecuteSimple`: the async and the synchronous POST;
  `SelectQueued` and `Claim`: the SELECT and the guarded UPDATE of
  `claim_next_queued_execution_run`; `Prepare`: the commit of
  `kernel.execution.started`.
* `Answer`, `RequestTool`, `Refuse`, `Authorise`, `MarkAwaiting`, `Invoke`,
  `RecordCompleted`, `RecordFailed`, `EndTurn`: the tool loop and
  `ToolService.execute_tool_call`, whose approval is committed *before* the call
  is marked. The rows of `Calls` are followed; a turn that asks for other tools, which
  are allowed and succeed, is `UseOtherTools`, so that a provider may ask for ever and
  only the limit of `EndTurn` ends the loop.
* `Persist`, `PersistFailure`: the settling transaction. `KernelRaises`,
  `PrepareRaises`, `PersistRaises`, `BuildResumeRaises` are the exception paths,
  enabled by the constant `Faults`; `Crash` restarts the process.
* `Decide`, then `Approve` -> `BuildResume` -> `Invoke` ... or `Deny` ->
  `DenyCall` -> `DenyRun`: the handlers of `services/approvals.py`; `Decide` is
  the check of `_require_pending_bundle`, which the write does not repeat.

Abstractions: messages, prompts and audit events are left out (the sequence-number
race of `create_message` appears as one cause of a `persist` fault); the provider
is nondeterministic; `created_at` is the order of the accepting commits;
`Task.status` equals `TaskRun.status` because the same commits write both; the
branch of `process_next_queued_execution` for a missing trigger message cannot be
reached from an enqueued run; the permission level is read afresh because
SQLAlchemy expires rows on commit; a permission changed after the approval was
asked for is not looked at again (neither does `continue_approved_tool_call`).
Delegated executions do not appear here: their approvals pause nothing
(`Subagents!RunKernel`).

### ToolPolicy

What `AgentExecution` calls `level` is the row of a tool in `tool_permissions`; this
module says where the row comes from. `service` is one `ToolService` with its session:
a request that only reads, one that changes the profile or a permission, or an
execution. `ReadProfile`, `ReadOverrides` and `WriteRow` are `_materialize_permissions`,
with a commit for each tool of the catalog; `SaveProfile` and `ReadDefault`,
`FindOverride`, then `KeepDefault`, `DeleteOverride`, `InsertOverride` or
`UpdateOverride` are the two requests that change the policy, `SaveRaises` their unique
key or vanished row. Overrides have an identity (`id`), because a row that was deleted
and inserted again is another one for the session that loaded it. `Refresh` is the read
that ends `save_override`; the service then holds the object of the row, and the query
of `list_overrides` returns it as it is held, without what others committed since
(`Seen`). `Seed` is the start
of the process, which turns the permissions of a database older than the profiles into
overrides. `sure` and `enforced` are observers: the services no change has overtaken,
and whether one of them has finished since the last change.

Abstractions: workspace paths and the cache of tool results are left out; a service is
used for one request or execution, as the routes and the kernel make it.

### Subagents

`lifecycle`, `child`, `taskRun`, `attached`, `cancelRequested` and `told` are
columns of the run, its child session, its task run and the summary messages in
the parent; `overdue` says that the deadline plus grace has passed. A spawn is two
steps, `BeginSpawn` (the count of active children) and `InsertSpawn`, between which it
holds the lock of `BEGIN IMMEDIATE`: whoever else would write waits (`Unlocked`).
`Claim` and `Finalize` run under the same lock and are single steps; everything else
is one commit per step, and `ReadForCancel`, `Inspect`, `Probe` and `Review` are reads
whose result is used later.

`overdue` may become true while the worker still executes: a synchronous tool
blocks the event loop, so `asyncio.wait_for` does not fire in time. The sweep goes
through its list in any order (a set). The second `attach_execution_ids` of
`process_next_queued_run` is unreachable after the first. Memory capture after the
finalization is in `Memory`. A `prepare` that raises (budget exceeded, locked
database) leaves the run `running` until the sweep: that is `Raise`.

`SubagentLifecycle` has three variables and four actions. It promises that a run
is accepted, started and finished once and reported exactly when it finishes, that
a run that was not started can only be cancelled, and that once a cancellation is
requested a run ends `cancelled` or `timed_out`. Runs spawned for the ACP bridge
are promised nothing of it: the refinement mapping hides them.

### CronSchedules and CronJobs

`NextIn` is `next_after` in whole hours; `Day`, `DaysPerWeek` and the zones are
small numbers, and `MCCronJobs!NextAfterIsNext` compares it with `IsNext`, a
definition that only asks the calendar, over a week of six-hour days. A datetime
that went through SQLite is naive. `NextRaises` is the TypeError of comparing one
with `utc_now()`; `HostOffset` is how far the host is from UTC, and `Behind` what `astimezone`
takes a naive reference back by. Its loop over
intervals never iterates: `last_run_at` is absent, the reference itself, or raises.

`job` is the table, with `next_run_at` as the hours to go (0 is due), so that time
is cyclic. `edit` and `dirty` are a session's pending row: SQLAlchemy updates only
the columns that were assigned and differ, so that `Pause` and `SaveRun` of the same
row interleave column by column. A tick is `Tick`, `Repair`/`SaveRepair` for each
job, `ListDue`, then `StartRun` ... `Audit` for each due job and the same for the
heartbeat; `Execute` and `Clean` are the sweep over stale task runs, each failed in
a commit of its own. `RaiseInRun` is an exception that `run_job` catches (`Fail`,
`SaveFailed`), `RaiseInTick` one that escapes: after a failed flush the handler's
own commit raises as well. A task run nobody works on any more is in `stranded`.

Abstractions: rows are read when a step needs them (the session expires them at
every commit; reading later than `list_cron_jobs` is an interleaving the model has
anyway); the commits of `Task` and of audit events belong to the neighbouring step;
one stale age serves heartbeat and cleanup jobs; settled task runs leave the model;
due jobs run in any order; daylight saving is left out.

### Memory

`row` holds entries and summaries, as the admin service treats both alike; a row's
text stands for its content *and* its dedupe hash, so that equal texts are
duplicates. A handler's request reads a row (`Change` ... `Request`), then writes it
in a transaction of its own: `SaveChange` (edit, hide, promote, ...), `SaveOverride`
(an edit of an automatic memory adds a row and hides the base), `SaveErase`. `Merged`
is the UPDATE of the columns that differ from what was loaded, hence requests that
change different columns of a row both survive; `Logged` is the snapshot taken after
the refresh. `create_item` and `restore_item` are two transactions each; the second
decides from the row as it is then (`Reread`).

An execution selects what it recalls and refreshes the conversation summary in the
transaction that stores its message (`Prepare`), or refreshes it when the message is
accepted (`Accept`) and again, with the selection, when a worker claims it (`Claim`).
It captures its output when it is settled: in the same transaction
(`PersistAndCapture`), or in two more when it recalled something (`PersistWithRecall`,
then `Look` and `Capture`). A delegated run is captured again by everyone who finalizes
it or finds it over, its worker, a sweep or a cancel: these are the `Closers`, whose
`Close` makes the queries and whose `CloseStore` is the transaction, at any time: before
a task run is attached, while the worker's own capture is under way, and after a crash
has lost the worker. `Verdict` is what a capture read before it writes. `recent`
are the recall logs of the last twelve hours; `banned`, an observer, are the texts that
were suppressed since before a run or a closing capture began and never taken back;
`raced`, another, are the runs that got a summary while a second capture of them had
found none.

Abstractions: which rows a query finds is a choice among those that match; ranking
is left out but for the visible limit, and so are importance, pinning and the
workspace scope. Ids grow and are never reused, as `generate_id` does not.

### PromptContext

Sequential: `Init` chooses rows and a session, `Resolve` computes who is excluded and
which rows compete (`Before` is the sort, `LayerOf` the layer of the winner), and
`BuildLayer` takes a row at a time (`IsNext`): `PutWhole` when its line fits into the
`Room` that is left, `PutCut` for the one that is shortened, after which the rows that
remain are excluded; `NextLayer` goes on to the next layer. The length of a line is a
number.

### EventStream

A transaction stamps its events (`Stamp`) and commits later (`Commit`), so commits
overtake stamps; `log` is the set of committed events, an event being its run, kind and
stamp. `Poll` is `list_events` behind the cursor (`After`); `Deliver` sends the earliest
of the batch, moves both cursors and folds what was not seen; `Connect` resumes from
`last`. `Drop` loses the connection with what it had not delivered: bytes in flight
are not modelled. `Reopen` leaves the session and comes back: cards stay, the last
event id does not. A connection that follows a task run (`follow`) ends at its
terminal event. `Bind` and `Discard` are the answer of the request that created a
run, handled or lost. The scripts of the runs (`Answered`, `Raised`, `Paused`) are the
transactions `AgentExecution` commits, with the public events each contains.

### Admission

Composes the budget check, the settings and the ACP bridge around an execution
reduced to its phases (its inside is `AgentExecution`). `ReadLimits` and `Check` are
two steps because the settings are read before the costs are summed; `Create` is the
commit that makes the run visible; a paused run has no `finished_at`, so its cost is
not in the sum (`Pause`), and `Resume` checks nothing. `Save` writes one setting per
commit. `Touch` writes the times of a mapping after the prompt returned. `peak` and
`crowd` are observers: the highest budgets, and the most executions that were under
way together.

## 3. Runs

Bounds are named constants of the configurations.

| run | instance | shows |
|---|---|---|
| `execution_races` | 2 workers, 1 handler, 2 runs, 2 calls, 1 turn, 1 crash, all faults | types, one executor, ownership, order; undecided tools do not run, nor denied ones, and none runs twice; paused runs have an approval, settled ones stay |
| `execution_progress` | 1 worker, 1 handler, 2 runs, 1 call, 2 turns, 1 crash | queued runs start, running ones settle, threads return though the provider never stops asking for tools |
| `racing_decisions` | violation | approve and deny of one approval both act |
| `tool_policy` | 2 services, 2 tools, 2 profiles, 2 changes, 1 crash, any old permissions | the rows that decide tool calls are those of the policy |
| `subagent_races` | 2 workers, 1 handler, 2 runs, both runtimes, 1 fault | the lifecycle, and types, one worker, one report, real outcomes, settled task runs |
| `subagent_progress` | 1 worker, 2 handlers, 1 parent, limit 1, 2 runs, 1 fault | the limit of active children, and that every run ends |
| `cron_races` | 1 job, 1 handler, 2 schedules, weeks of 2 days of 2 hours, a host 1 hour east of UTC, 1 fault, rows without a next run | planned times, statuses, stranded task runs; due jobs run, task runs are cleaned up |
| `activate_raises` | violation | an interval job that has run and is paused cannot be activated |
| `memory_races` | 2 handlers, 2 runs, 2 closers, parent and child session, 4 rows, 1 text, 3 requests, 1 crash, 1 old row | no blind recapture, one automatic summary per run but for overlapping captures, the change log, no repeated recall |
| `prompt_layers` | every triple of 16 x 96 x 7 rows, 2 sessions, a budget one character short of two lines | what is injected, into which prompt, and how much |
| `event_stream` | 2 runs, session or task-run stream, 2 losses | order, replay before ready, nothing missed in the end, what the card says |
| `admission` | 2 runs, 1 mapping, 1 editor, budgets 1 and 2, costs up to 2, 1 new day, 1 crash | bounded overspend, cancelled stays |

Two workers are what a claim race needs, two handlers what racing decisions
need (`racing_decisions`; with one handler `execution_races` has no such race, and the
proofs that need no single decider hold for any number), two runs what order and
starvation need, two calls what a second approval of one turn needs (a second turn only
repeats the first, and is in `execution_progress`). Two spawns at once are all that can exceed a
limit of one, two closers all that can capture a run at once behind its worker. Two
services are
a writer of an old policy and one that changes it, two changes what lets the second
undo the first, two tools what a row written before and one written after it need. A
fault or crash is one event that may fall between any two commits. `Faults` names
which exceptions a run allows. One text suffices for the memories because every
property relates rows of the same text; four rows hold an old memory, a summary, a capture and an override; three requests are create or capture,
reject, take back. Three rows let a base, its override and a rival of either meet.
Two losses are one during the replay and one after it, and two executions are what it
takes to overtake, in the stamps as in the budget. Deadlock is not checked where a
bound on requests, a finished script or a finished prompt really ends a behaviour
(`MemoryRaces`, `EventStream`, `PromptLayers`).

### Fairness

`AgentExecution!FairSpec`: weak fairness of every thread that has work, because
the worker's loop catches every exception and polls again
(`execution_worker.py:32`), and a request that was accepted is served to its end.
Requests and decisions of the user, faults and crashes are not forced.
`Subagents!FairSpec`: the same for the subagent worker and the handlers, and weak
fairness of `DeadlinePasses`, which is the clock. `MaxFaults` is what makes a
liveness property meaningful: a database that fails for ever would end nothing.
`CronJobs!FairSpec`: weak fairness of the scheduler, whose loop notes an exception
and ticks again (`scheduler.py:43`), of a handler that has loaded a row, and of the
clock (`RunAges`, `HeartbeatComesDue`; hours pass freely). `OldRows` are rows that
earlier races of two handlers left behind, so that one handler suffices to reach
the repair and its failure (`Stuck`).
`EventStream!FairSpec`: weak fairness of a commit whose transaction has begun, of the
server, which polls for ever (`sessions.py:206`), and of the desktop, which
reconnects until it is aborted (`sessionExecutionStream.ts:281`). Nobody has to begin
an execution, and losses are bounded: a connection that is lost for ever shows
nothing.

## 4. Proofs

TLAPS checks, for all values of the constants that satisfy the named assumptions of
the modules. Nothing else is assumed, but for the hypothesis of two theorems given below.

**Executions** (`AgentExecutionProofs`)

* `TypeCorrect`, `OneExecutorPerRun`, `RunningRunsAreOwned`. `OneExecutor` is not
  inductive: a worker that has selected a run must be kept apart from one that claimed
  it. `OwnershipInv` says that whoever executes a run sees it in a status that no claim
  accepts, and that a thread at `claim` does not execute; the guard of the UPDATE does
  the rest.
* `AcceptedFirstStartsFirst`, from `QueueInv`: positions only grow, and what a worker
  has selected is no younger than anything still queued (`ClaimsOldest`). A lemma says
  once what each action does to the queue.
* `UndecidedToolsDoNotRun`, from `ApprovalInv`: a call with a pending approval is
  nowhere on the way to `invoke` except through a decision that is committed first.
* `ToolsRunOnce`, `DeniedToolsDoNotRun`, under the hypothesis `SingleHandler`: requests
  are decided one after the other. Without it they are false, which is the run
  `racing_decisions`. From `DecisionInv`: a call that somebody may still run has not
  run and is in nobody else's hands (`RunsAhead`), and the approval a handler decides
  is still open.
* `PausedRunsAsked` (which does not promise that the approval is still open: see
  section 5), `SettledRunsRemain`, from `PausedInv`: a loop that will pause its
  run, and a handler that decides, have an approval of that run behind them, and an
  executor whose run has none finds it still `running`. The step that settles a run
  therefore either ends its only executor, by `OneExecutor`, or concerns a run that
  somebody can bring back; approvals are never taken back.

**Tool policy** (`ToolPolicyProofs`)

* `PolicyEnforced`, from `PolicyInv`: while some service is sure, or one has finished,
  no service is about to write an outdated level (`NobodyOutdated`), also not one that
  plans from an override it holds, and the rows a sure service has behind it are those
  of the policy (`SureRows`), whatever others write.

**Delegated runs** (`SubagentProofs`)

* `SubagentTypes`, `NoSecondWorker`, `ToldExactlyOnce`, from `SubagentInv`: what each
  thread holds exists and was started (`HandsAgree`), and the parent was told exactly
  about terminal runs (`ToldAgrees`).
* `ShownOutcomesAreReal`, `NoTaskRunLeftRunning`, from `OutcomeInv`: the outcome a
  worker is about to report is what it has committed to the task run, unless somebody
  else has ended the run (`ResultOf`); a run that shows one is backed by it and is
  nobody's work any more; and until a fault a task run is `running` only under a worker
  that executes it (`Backed`).
* `ImplementsLifecycle`, `ActiveChildrenLimited`: each action maps to an action of the
  lifecycle or to a stutter. No action but `InsertSpawn` makes a run active; the handler
  that inserts has counted, it is the only one, and what it counted only shrinks.

**Scheduler** (`CronJobProofs`)

* `CronTypes`, `StatusStaysTheUsers`, `OnlyFaultsStrand`, from `CronInv`: the scheduler
  holds an item whenever it is in a run, has settled the task run in the steps after
  `Complete` and `Fail`, and never has `status` among the columns it will write.
* `PlannedRunsAreNext`, on any host: handlers, the repair, and runs that end in an
  interval, plan the next time their schedule fires; the end of a daily or weekly run
  plans the next time after its own reading of now, which is `HostOffset` hours off
  (section 5). `NextAfterIsNext` proves of every day, week, zone and schedule that
  `NextIn` is the next hour at which the calendar lets the schedule fire, from division
  with remainder up. From `PlanInv`: a handler
  saves a job that is in the table, and the exception handler of a run begins with a
  clean session, so that what is staged is computed from the schedule it is staged with.

**Memory, prompts, events** (`MemoryProofs`, `PromptContextProofs`, `EventStreamProofs`)

* `MemoryTyped`, `RunsSummarizedOnce`, `LogFollowsRows`, `NotToldTwice`,
  `SuppressedStaysOut`, from `MemoryInv`: a request keeps knowing whose row it loaded,
  as ids are not reused and a row keeps its kind and run (`JobKnows`, `Evolves`); unless
  its captures overlapped, a run has one automatic summary, and none yet while a capture
  of it that will write one stands (`AutoInv`), and whoever closes a run closes a
  delegated one (`CloserInv`); nothing an execution picked is in a recent log of one that ended before it
  picked, and what it logs is what it picked (`RecallInv`); what is banned is still
  suppressed, and no capture is about to insert it (`BannedInv`).
* `HumansHaveTheLastWord`, `SubagentsSeeTheirOwn`, `LayersFit`, from `ContextInv`: what
  is queued for a layer or injected into it is a winner of that layer (`Resolved`), and
  the keys of the code are equal exactly for rows about the same thing (`KeysTell`).
* `ShownOnceInOrder`, `ReadyEndsHistory`, `CardsTellOutcomes`, from `StreamInv`: no
  stamp is given twice although transactions overlap (`StampsUnique`), what was seen
  lies up to the last event and what is to be sent behind the cursor (`CursorSplits`),
  until `stream.ready` the history is in the batch or was seen (`HistoryOnItsWay`), and a
  card agrees with the latest event that was shown of its run (`CardAgrees`).

**Budgets and mappings** (`AdmissionProofs`)

* `AdmissionTypes`, `OverspendBounded`, `CancelledMappingStays`, for any number of
  executions, keys and editors. The bound on the spend is not inductive, because a run
  that finishes adds to it: `Exposed` counts the executions under way at their highest
  cost, and a request which has read the limits read no more than `peak`
  (`LimitsKnown`). The check makes it true of a new run, and a run that finishes only
  trades exposure for spend.

With these every safety property of the passing runs is a theorem. What stays with TLC
is liveness under fairness, which TLAPS does not reach: `QueuedIsStarted`,
`RunningIsSettled`, `ThreadsReturn`, `RunsEnd`, `DueJobRuns`, `StrandedIsCleaned` and
`NothingMissed`.

## 5. Observations made while modelling

Two disagreements are kept as violation runs (section 3) and recorded as findings.
The models also reach the following, which have no run of their own. Executions and
delegated runs:

* `approvals.py:118`: the resumed kernel raises after the approval was committed as
  approved; the run stays `awaiting_approval` and can be neither approved nor denied,
  where `docs/architecture.md:56` has decisions "resume or fail the pending execution".
* `subagents.py:353`: the sweep has decided `timed_out` when a cancellation arrives,
  and `finalize_run` keeps it, where `docs/subagents-hardening-v1.md:13` says that a
  child with a pending request is cleaned up as `cancelled`.
* `approvals.py:166`: a denial fails the run while the kernel that asked is still
  in its turn; the worker then overwrites `failed` with `awaiting_approval`, and
  the approval of a second call of the turn resumes a settled run.
* `subagents.py:292`: a run claimed between the read of the cancel handler and its
  transaction is recorded as "cancelled before execution" while it executes.
* `repositories/subagents.py:373`: the status is resolved to `cancelled` inside the
  transaction, but the summary message and the terminal event were built before it
  and may say `completed`.
* `services/tools.py:672`: a service that read the policy before a change writes its
  rows after it. The permissions are then those of the old policy, or of neither, until
  the next service materialises them; a call decided meanwhile is decided by them.
* `services/tools.py:142`: after its own change `update_permission` still holds the
  override it saved, and `list_overrides` returns it as it was then, so that a level
  another service has committed since is overwritten in the rows by the older one.
* `subagents.py:138`: a run for the ACP bridge is committed as queued first, so a
  native worker may execute it while it is shown as mapped.
* `core/schedules.py:48`: `run_job` passes the naive `finished_at` as `reference_utc`.
  On a host east of UTC (`HostOffset > 0`) the run seems to have ended hours earlier,
  so a daily or weekly job is due again at once, until the offset has passed; west of
  it a time may be skipped. `NextRunIsNext` says this of the end of such a run and
  demands the next time of everyone else; `cron_races` has a host east of UTC.
* `cron_jobs.py:255`: a run that ends after the user paused the job writes a
  `next_run_at` into the paused row; one that ends after the user changed the schedule
  overwrites its next time by that of the old schedule.
* `cron_jobs.py:115`: an activation that was loaded before a removal and saved after
  it brings the job back; a pause that races an activation the same way may leave an
  active job without a next run, and for an interval job that has run every tick then
  raises in `_repair_schedules` before any job is run.

Memory and prompts:

* `memory_capture_service.py:36`: whether a run has a summary is asked before the
  transaction of the capture, and no unique index repeats the question. A cancel
  (`subagents.py:295`) or a sweep (`subagents.py:404`) that finalizes a delegated run
  while its worker captures it, or two of them, leave two automatic summaries of the
  run; the model reaches this, and `OneSummaryPerRun` says that it takes just this. The
  tombstones are asked for there as well: a text that is hidden or deleted after the
  look is captured again.
* The cancel of a run without a task run, queued or just claimed, captures a summary
  that names none, and no later capture finds it.
* `prompt_context_service.py:516`: the key of an override is the row it replaces, that of
  another row its scope and title. A manual memory and a visible `user_override` of an
  automatic one with the same scope and title are therefore both injected, and so are
  overrides of two rows of one title, where `docs/memory-runtime-injection.md:33` has
  one key for all of them, with `manual > user_override`. `HumansDecide` does not speak
  of such pairs; the run has them.
* `prompt_context_service.py:209`: a conversation summary the user hid or deleted is
  replaced by a new visible one at the next message, where
  `docs/architecture-memory-v1.md:120` lets the user's decision stand.
* `memory_admin_service.py`: restoring, overriding and two concurrent creates may leave
  two active entries with one hash, and two edits of one automatic memory two overrides;
  a hide that was loaded before another request unhid the row writes nothing.
* Deleting an override does not bring the base back, because creating the override
  hid the base; a base that was unhidden is injected beside its override at run time.
* The output of failed and paused runs is captured as a memory, the final answer of a
  resumed run is not; a crash after `PersistWithRecall` loses the capture, one inside
  `create_item` leaves an entry outside of every scope.
* A subagent's retrieval may recall episodes of its parent (`select_for_recall`),
  while its prompt layers do not.
* Rows without a layer and episodes beyond the best four are listed neither as injected
  nor as excluded, where `docs/memory-runtime-injection.md:43` says that diagnostics
  "record why each memory was included or excluded".

Events and chat:

* An event stamped before and committed after one the cursor has passed is never sent
  (`overtaken`); an unknown `Last-Event-ID` replays everything.
* A task-run stream that is reconnected after its terminal event never ends.
* A paused run stores the kernel's text as a message after the approval was requested,
  whose event turns the card from `awaiting_approval` to `running`
  (`chatExecutionState.ts:304`; `docs/chat-live-runs-ui-states.md:8`); `tool.failed`
  marks the card failed while the run goes on; an answer bound late turns a finished
  card to `running` (`late`).

Settings:

* The cost of a paused run does not count until it finishes and is then replaced by
  that of the resumed part; a denied run has none. A resume is not checked.
* The settings are saved by about eleven commits: a crash or a second editor may leave
  a daily budget above the monthly one.
* `runtime_monitor.py:43`: a tick that begins after a failed one shows `running` until
  it ends, so a component that fails every tick is not `degraded` all the time.

## 6. Plan

1. Done: executions and approvals, the tool policy, delegated runs, the scheduler;
   memory, prompts, the event stream with its desktop client, budgets and the ACP
   bridge; the proofs of their safety properties.
2. To prove: that `AgentExecution` implements an abstract life of an execution, as
   `Subagents` does of a delegated run.
3. To model: the supervision with the sidecar's start and stop.

Not modelled: text assembly and ranking (prompts, skills, retrieval scores), tools'
side effects, providers, HTTP serialisation, migrations other than the backfill of
summaries and the search index, the supervision's status display, the shell that
starts the backend, and rendering; see the notes in `PROJECT.json`.
