----------------------------- MODULE Subagents -----------------------------
(***************************************************************************)
(* Delegated runs: HTTP handlers spawn and cancel them, the subagent workers *)
(* sweep the overdue ones, claim the oldest queued one, execute it in its    *)
(* child session and finalize it.  Every transaction is a step, except that   *)
(* of a spawn: it counts the children in one and inserts in another, and only *)
(* the write lock its BEGIN IMMEDIATE took keeps the others' transactions out *)
(* in between.  What a thread remembers from one transaction to the next may  *)
(* be stale when it uses it.                                                  *)
(***************************************************************************)
EXTENDS Naturals, Sequences, FiniteSets

CONSTANTS
  Workers,        \* subagent worker threads (one per backend process)
  Handlers,       \* HTTP handler threads
  Parents,        \* main sessions
  Runs,           \* delegated runs that may ever be spawned
  MaxConcurrency, \* subagent_max_concurrency_per_session
  Runtimes,       \* the runtimes spawn accepts: "subagent", and "acp" if enabled
  MaxFaults,      \* bound on exceptions and crashes of the process
  NoParent, NoRun

ASSUME ConstantsAssumption ==
  /\ Workers \cap Handlers = {}
  /\ MaxConcurrency \in Nat
  /\ Runtimes \subseteq {"subagent", "acp"}
  /\ MaxFaults \in Nat
  /\ IsFiniteSet(Runs)
  /\ NoParent \notin Parents
  /\ NoRun \notin Runs

VARIABLES
  \* ---- SQLite
  lifecycle,       \* SessionSubagentRun.lifecycle_status
  child,           \* SessionRecord.status of the child session
  parent,          \* launcher_session_id
  runtime,         \* the runtime it was spawned for
  created,         \* created_at, as a position in the order of the spawns
  cancelRequested, \* cancellation_requested_at is not None
  overdue,         \* started_at + timeout + grace has passed
  taskRun,         \* TaskRun.status of its execution
  attached,        \* task_run_id is not None
  told,            \* statuses of the summary messages (and terminal events) posted
  \* ---- memory of the threads
  pc, job, outcome, sweep,
  launcher,        \* the main session whose spawn is under way
  \* ---- observer
  faults

dbVars == <<lifecycle, child, parent, runtime, created, cancelRequested,
            overdue, taskRun, attached, told>>
threadVars == <<pc, job, outcome, sweep, launcher>>
vars == <<dbVars, threadVars, faults>>

Threads == Workers \cup Handlers

Terminal == {"completed", "failed", "cancelled", "timed_out"}
Active == {"queued", "running"}
Statuses == {"none"} \cup Active \cup Terminal

\* From the claim to the end of process_next_queued_run.
ExecutionSteps ==
  {"prepare", "attach", "probe", "kernel", "recheck", "persist", "review", "finalize"}
WorkerSteps == {"sweep", "cleanup"} \cup ExecutionSteps
HandlerSteps == {"insert", "map", "cancelQueued", "requestCancel"}

Steps == {"idle"} \cup WorkerSteps \cup HandlerSteps

DatabaseTypes ==
  /\ lifecycle \in [Runs -> Statuses]
  /\ child \in [Runs -> Statuses \cup {"active"}]
  /\ parent \in [Runs -> Parents \cup {NoParent}]
  /\ runtime \in [Runs -> {"subagent", "acp"}]
  /\ created \in [Runs -> Nat]
  /\ cancelRequested \in [Runs -> BOOLEAN]
  /\ overdue \in [Runs -> BOOLEAN]
  /\ taskRun \in [Runs -> Statuses]
  /\ attached \in [Runs -> BOOLEAN]
  /\ told \in [Runs -> Seq(Terminal)]

ThreadTypes ==
  /\ pc \in [Threads -> Steps]
  /\ job \in [Threads -> Runs \cup {NoRun}]
  /\ outcome \in [Threads -> Terminal]
  /\ sweep \in [Threads -> SUBSET Runs]
  /\ launcher \in [Threads -> Parents \cup {NoParent}]

TypeOK == DatabaseTypes /\ ThreadTypes /\ faults \in 0 .. MaxFaults

Init ==
  /\ lifecycle = [r \in Runs |-> "none"]
  /\ child = [r \in Runs |-> "none"]
  /\ parent = [r \in Runs |-> NoParent]
  /\ runtime = [r \in Runs |-> "subagent"]
  /\ created = [r \in Runs |-> 0]
  /\ cancelRequested = [r \in Runs |-> FALSE]
  /\ overdue = [r \in Runs |-> FALSE]
  /\ taskRun = [r \in Runs |-> "none"]
  /\ attached = [r \in Runs |-> FALSE]
  /\ told = [r \in Runs |-> <<>>]
  /\ pc = [t \in Threads |-> "idle"]
  /\ job = [t \in Threads |-> NoRun]
  /\ outcome = [t \in Threads |-> "completed"]
  /\ sweep = [t \in Threads |-> {}]
  /\ launcher = [t \in Threads |-> NoParent]
  /\ faults = 0

-----------------------------------------------------------------------------

Executes(w, r) == pc[w] \in ExecutionSteps /\ job[w] = r

\* should_cancel_run, the probe the kernel and the service evaluate.
ShouldCancel(r) == lifecycle[r] \in Terminal \/ cancelRequested[r]

Goto(t, step) == pc' = [pc EXCEPT ![t] = step]

\* SQLite has one writer: no transaction commits or begins as a writer while that of
\* a spawn is open.  Reading is not held up.
Unlocked == \A h \in Handlers : pc[h] # "insert"

Work(t, step, r, s) ==
  /\ Goto(t, step)
  /\ job' = [job EXCEPT ![t] = r]
  /\ outcome' = [outcome EXCEPT ![t] = s]
  /\ UNCHANGED <<sweep, launcher>>

\* The thread goes on with step and keeps what it remembers.
Continue(t, step) == Goto(t, step) /\ UNCHANGED <<job, outcome, sweep, launcher>>

\* The request or the tick ends; its locals are gone.
Return(t) ==
  /\ Goto(t, "idle")
  /\ job' = [job EXCEPT ![t] = NoRun]
  /\ outcome' = [outcome EXCEPT ![t] = "completed"]
  /\ sweep' = [sweep EXCEPT ![t] = {}]
  /\ launcher' = [launcher EXCEPT ![t] = NoParent]

-----------------------------------------------------------------------------
(* finalize_run: one IMMEDIATE transaction, a no-op on a terminal run.      *)

ResolvedStatus(r, s) ==
  IF cancelRequested[r] /\ s # "timed_out" THEN "cancelled" ELSE s

\* The task and task run follow, once the run knows them.
SyncTaskRun(r, resolved) ==
  taskRun' = [taskRun EXCEPT ![r] = IF attached[r] THEN resolved ELSE @]

WriteTerminal(r, s, resolved) ==
  /\ lifecycle' = [lifecycle EXCEPT ![r] = resolved]
  /\ child' = [child EXCEPT ![r] = resolved]
  /\ told' = [told EXCEPT ![r] = Append(@, s)]
  /\ SyncTaskRun(r, resolved)

\* Faulty Finalize: the terminal check is missing.
FinalizeAgain(r, s) ==
  /\ WriteTerminal(r, s, ResolvedStatus(r, s))
  /\ UNCHANGED <<parent, runtime, created, cancelRequested, overdue, attached>>

\* Faulty Finalize: the caller's status is written as it is.
FinalizeAsTold(r, s) ==
  /\ IF lifecycle[r] \in Terminal
       THEN UNCHANGED <<lifecycle, child, told, taskRun>>
       ELSE WriteTerminal(r, s, s)
  /\ UNCHANGED <<parent, runtime, created, cancelRequested, overdue, attached>>

Finalize(r, s) ==
  /\ IF lifecycle[r] \in Terminal
       THEN UNCHANGED <<lifecycle, child, told, taskRun>>
       ELSE WriteTerminal(r, s, ResolvedStatus(r, s))
  /\ UNCHANGED <<parent, runtime, created, cancelRequested, overdue, attached>>

-----------------------------------------------------------------------------
(* Handlers. *)

ActiveRuns(p) == {r \in Runs : parent[r] = p /\ lifecycle[r] \in Active}

NextPosition == Cardinality({r \in Runs : created[r] > 0}) + 1

Begun(h, p) ==
  /\ pc[h] = "idle"
  /\ \E r \in Runs : lifecycle[r] = "none"
  /\ Cardinality(ActiveRuns(p)) < MaxConcurrency
  /\ Goto(h, "insert")
  /\ launcher' = [launcher EXCEPT ![h] = p]
  /\ UNCHANGED <<dbVars, job, outcome, sweep, faults>>

\* Faulty BeginSpawn: a plain BEGIN takes no lock before the insert.
BeginSpawnDeferred(h, p) == Begun(h, p)

\* spawn_subagent in its transaction: count_active_runs, then ...
BeginSpawn(h, p) == Unlocked /\ Begun(h, p)

\* ... the rows and the commit.  A run for the ACP runtime is queued first and mapped
\* by a second transaction.
InsertSpawn(h, r, rt) ==
  /\ pc[h] = "insert"
  /\ lifecycle[r] = "none"
  /\ lifecycle' = [lifecycle EXCEPT ![r] = "queued"]
  /\ child' = [child EXCEPT ![r] = "queued"]
  /\ parent' = [parent EXCEPT ![r] = launcher[h]]
  /\ runtime' = [runtime EXCEPT ![r] = rt]
  /\ created' = [created EXCEPT ![r] = NextPosition]
  /\ IF rt = "acp" THEN Work(h, "map", r, "completed") ELSE Return(h)
  /\ UNCHANGED <<cancelRequested, overdue, taskRun, attached, told, faults>>

\* _mark_run_as_acp_mapped: overwrites whatever became of the run.
MapAcp(h) ==
  /\ pc[h] = "map" /\ Unlocked
  /\ lifecycle' = [lifecycle EXCEPT ![job[h]] = "completed"]
  /\ child' = [child EXCEPT ![job[h]] = "active"]
  /\ Return(h)
  /\ UNCHANGED <<parent, runtime, created, cancelRequested, overdue, taskRun,
                 attached, told, faults>>

\* cancel reads the run; a terminal run is returned as it is.
ReadForCancel(h, r) ==
  /\ pc[h] = "idle"
  /\ \/ lifecycle[r] = "queued"  /\ Work(h, "cancelQueued", r, "cancelled")
     \/ lifecycle[r] = "running" /\ Work(h, "requestCancel", r, "cancelled")
  /\ UNCHANGED <<dbVars, faults>>

CancelQueued(h) ==
  /\ pc[h] = "cancelQueued" /\ Unlocked
  /\ Finalize(job[h], "cancelled")
  /\ Return(h)
  /\ UNCHANGED faults

\* request_cancellation checks the status it read before, not the row.
RequestCancel(h) ==
  /\ pc[h] = "requestCancel" /\ Unlocked
  /\ cancelRequested' = [cancelRequested EXCEPT ![job[h]] = TRUE]
  /\ Return(h)
  /\ UNCHANGED <<lifecycle, child, parent, runtime, created, overdue, taskRun,
                 attached, told, faults>>

-----------------------------------------------------------------------------
(* The worker: sweep, claim, execute, finalize. *)

\* The deadline of a running run passes.
DeadlinePasses(r) ==
  /\ lifecycle[r] = "running"
  /\ ~overdue[r]
  /\ overdue' = [overdue EXCEPT ![r] = TRUE]
  /\ UNCHANGED <<lifecycle, child, parent, runtime, created, cancelRequested,
                 taskRun, attached, told, threadVars, faults>>

\* cleanup_stuck_runs lists the running runs ...
Tick(w) ==
  /\ pc[w] = "idle"
  /\ Goto(w, "sweep")
  /\ sweep' = [sweep EXCEPT ![w] = {r \in Runs : lifecycle[r] = "running"}]
  /\ UNCHANGED <<dbVars, job, outcome, launcher, faults>>

\* Faulty Inspect: runs that never got a task run are not inspected.
InspectAttached(w) ==
  /\ pc[w] = "sweep"
  /\ \E r \in sweep[w] :
       /\ sweep' = [sweep EXCEPT ![w] = @ \ {r}]
       /\ IF overdue[r] /\ attached[r]
            THEN /\ Goto(w, "cleanup")
                 /\ job' = [job EXCEPT ![w] = r]
                 /\ outcome' = [outcome EXCEPT ![w] =
                      IF cancelRequested[r] THEN "cancelled" ELSE "timed_out"]
            ELSE UNCHANGED <<pc, job, outcome>>
  /\ UNCHANGED <<dbVars, launcher, faults>>

\* Faulty Inspect: an overdue run is ended as failed, as the heartbeat does.
InspectAsFailed(w) ==
  /\ pc[w] = "sweep"
  /\ \E r \in sweep[w] :
       /\ sweep' = [sweep EXCEPT ![w] = @ \ {r}]
       /\ IF overdue[r]
            THEN /\ Goto(w, "cleanup")
                 /\ job' = [job EXCEPT ![w] = r]
                 /\ outcome' = [outcome EXCEPT ![w] =
                      IF cancelRequested[r] THEN "cancelled" ELSE "failed"]
            ELSE UNCHANGED <<pc, job, outcome>>
  /\ UNCHANGED <<dbVars, launcher, faults>>

\* ... decides how each overdue one ends ...
Inspect(w) ==
  /\ pc[w] = "sweep"
  /\ \E r \in sweep[w] :
       /\ sweep' = [sweep EXCEPT ![w] = @ \ {r}]
       /\ IF overdue[r]
            THEN /\ Goto(w, "cleanup")
                 /\ job' = [job EXCEPT ![w] = r]
                 /\ outcome' = [outcome EXCEPT ![w] =
                      IF cancelRequested[r] THEN "cancelled" ELSE "timed_out"]
            ELSE UNCHANGED <<pc, job, outcome>>
  /\ UNCHANGED <<dbVars, launcher, faults>>

\* ... and finalizes it.
Cleanup(w) ==
  /\ pc[w] = "cleanup" /\ Unlocked
  /\ Finalize(job[w], outcome[w])
  /\ Work(w, "sweep", NoRun, "completed")
  /\ UNCHANGED faults

OldestQueued(r) ==
  /\ lifecycle[r] = "queued"
  /\ \A s \in Runs : lifecycle[s] = "queued" => created[r] <= created[s]

\* Faulty Claim: the UPDATE that marks the run as running is lost.
ClaimUnmarked(w) ==
  /\ pc[w] = "sweep" /\ sweep[w] = {}
  /\ \/ \E r \in Runs : OldestQueued(r) /\ Work(w, "prepare", r, "completed")
     \/ (\A r \in Runs : lifecycle[r] # "queued") /\ Return(w)
  /\ UNCHANGED <<dbVars, faults>>

\* claim_next_queued_run selects and updates in one transaction.
Claim(w) ==
  /\ pc[w] = "sweep" /\ sweep[w] = {} /\ Unlocked
  /\ \/ \E r \in Runs :
          /\ OldestQueued(r)
          /\ lifecycle' = [lifecycle EXCEPT ![r] = "running"]
          /\ Work(w, "prepare", r, "completed")
     \/ /\ \A r \in Runs : lifecycle[r] # "queued"
        /\ Return(w)
        /\ UNCHANGED lifecycle
  /\ UNCHANGED <<child, parent, runtime, created, cancelRequested, overdue,
                 taskRun, attached, told, faults>>

\* Resolve the tool scope; _prepare_delegated_execution commits the task run.
Prepare(w) ==
  /\ pc[w] = "prepare" /\ Unlocked
  /\ taskRun' = [taskRun EXCEPT ![job[w]] = "running"]
  /\ Continue(w, "attach")
  /\ UNCHANGED <<lifecycle, child, parent, runtime, created, cancelRequested,
                 overdue, attached, told, faults>>

\* on_task_run_created: attach_execution_ids.
Attach(w) ==
  /\ pc[w] = "attach" /\ Unlocked
  /\ attached' = [attached EXCEPT ![job[w]] = TRUE]
  /\ Continue(w, "probe")
  /\ UNCHANGED <<lifecycle, child, parent, runtime, created, cancelRequested,
                 overdue, taskRun, told, faults>>

\* Faulty Probe: a cancelled run is left as it is.
ProbeReturns(w) ==
  /\ pc[w] \in {"probe", "recheck"}
  /\ IF ShouldCancel(job[w])
       THEN Return(w)
       ELSE Continue(w, IF pc[w] = "probe" THEN "kernel" ELSE "persist")
  /\ UNCHANGED <<dbVars, faults>>

\* _raise_if_cancelled before the kernel and before its result is persisted.
Probe(w) ==
  /\ pc[w] \in {"probe", "recheck"}
  /\ IF ShouldCancel(job[w])
       THEN Work(w, "persist", job[w], "cancelled")
       ELSE Continue(w, IF pc[w] = "probe" THEN "kernel" ELSE "persist")
  /\ UNCHANGED <<dbVars, faults>>

\* Faulty RunKernel: _normalize_subagent_result is not called.
RunKernelUnnormalized(w) ==
  /\ pc[w] = "kernel"
  /\ \/ \E s \in {"completed", "awaiting_approval"} : Work(w, "recheck", job[w], s)
     \/ \E s \in {"failed", "timed_out"} : Work(w, "persist", job[w], s)
     \/ ShouldCancel(job[w]) /\ Work(w, "persist", job[w], "cancelled")
  /\ UNCHANGED <<dbVars, faults>>

\* What a result of the kernel comes to: a pause for approval is a failure of
\* the run.
Normalized(status) == IF status = "awaiting_approval" THEN "failed" ELSE status
KernelStatuses == {"completed", "awaiting_approval", "failed"}

\* The kernel returns a result, raises, times out, or one of its own probes
\* stops it.
RunKernel(w) ==
  /\ pc[w] = "kernel"
  /\ \/ \E s \in KernelStatuses : Work(w, "recheck", job[w], Normalized(s))
     \/ \E s \in {"failed", "timed_out"} : Work(w, "persist", job[w], s)
     \/ ShouldCancel(job[w]) /\ Work(w, "persist", job[w], "cancelled")
  /\ UNCHANGED <<dbVars, faults>>

\* persist_result or persist_terminal_status: the task run and its task.
Persist(w) ==
  /\ pc[w] = "persist" /\ Unlocked
  /\ taskRun' = [taskRun EXCEPT ![job[w]] = outcome[w]]
  /\ Continue(w, "review")
  /\ UNCHANGED <<lifecycle, child, parent, runtime, created, cancelRequested,
                 overdue, attached, told, faults>>

\* The run is read again: over already, cancelled meanwhile, or as executed.
Review(w) ==
  /\ pc[w] = "review"
  /\ IF lifecycle[job[w]] \in Terminal
       THEN Return(w)
       ELSE Work(w, "finalize", job[w],
                 IF cancelRequested[job[w]] THEN "cancelled" ELSE outcome[w])
  /\ UNCHANGED <<dbVars, faults>>

FinalizeRun(w) ==
  /\ pc[w] = "finalize" /\ Unlocked
  /\ Finalize(job[w], outcome[w])
  /\ Return(w)
  /\ UNCHANGED faults

-----------------------------------------------------------------------------
(* Failures. *)

\* A transaction raises (locked three times, budget exceeded, sequence number
\* taken) and is rolled back: the request fails, the tick ends.
Raise(t) ==
  /\ faults < MaxFaults
  /\ pc[t] \in {"prepare", "attach", "persist", "finalize", "cleanup"} \cup HandlerSteps
  /\ faults' = faults + 1
  /\ Return(t)
  /\ UNCHANGED dbVars

Crash ==
  /\ faults < MaxFaults
  /\ faults' = faults + 1
  /\ pc' = [t \in Threads |-> "idle"]
  /\ job' = [t \in Threads |-> NoRun]
  /\ outcome' = [t \in Threads |-> "completed"]
  /\ sweep' = [t \in Threads |-> {}]
  /\ launcher' = [t \in Threads |-> NoParent]
  /\ UNCHANGED dbVars

-----------------------------------------------------------------------------

WorkerStep(w) ==
  \/ Tick(w) \/ Inspect(w) \/ Cleanup(w) \/ Claim(w)
  \/ Prepare(w) \/ Attach(w) \/ Probe(w) \/ RunKernel(w)
  \/ Persist(w) \/ Review(w) \/ FinalizeRun(w)

HandlerStep(h) ==
  \/ \E r \in Runs, rt \in Runtimes : InsertSpawn(h, r, rt)
  \/ MapAcp(h) \/ CancelQueued(h) \/ RequestCancel(h)

UserStep(h) ==
  \/ \E p \in Parents : BeginSpawn(h, p)
  \/ \E r \in Runs : ReadForCancel(h, r)

Next ==
  \/ \E w \in Workers : WorkerStep(w)
  \/ \E h \in Handlers : HandlerStep(h) \/ UserStep(h)
  \/ \E r \in Runs : DeadlinePasses(r)
  \/ \E t \in Threads : Raise(t)
  \/ Crash

Spec == Init /\ [][Next]_vars

\* The workers loop for ever and time passes; nobody has to spawn or cancel.
Fairness ==
  /\ \A w \in Workers : WF_vars(WorkerStep(w))
  /\ \A h \in Handlers : WF_vars(HandlerStep(h))
  /\ \A r \in Runs : WF_vars(DeadlinePasses(r))

FairSpec == Spec /\ Fairness

-----------------------------------------------------------------------------
(* What must hold. *)

\* "Concurrent spawn attempts can no longer exceed 3 active children per
\* parent session": the transactions of two spawns do not overlap, so none counts
\* before the other's child is there.
ActiveWithinLimit ==
  \A p \in Parents : Cardinality(ActiveRuns(p)) <= MaxConcurrency

\* "Two workers racing on the same queued child can no longer claim the same
\* run": from the claim to the finalization a run has one worker.
OneWorkerPerRun ==
  \A v, w \in Workers, r \in Runs : Executes(v, r) /\ Executes(w, r) => v = w

\* "The parent summary message is stored once": worker, sweep and cancel may
\* all finalize a run, and the parent is told exactly when it becomes terminal.
ToldOnceWhenTerminal ==
  \A r \in Runs : runtime[r] = "subagent" =>
    Len(told[r]) = IF lifecycle[r] \in Terminal THEN 1 ELSE 0

\* Without faults nothing stays running behind a terminal run: a worker that is
\* still at it will close the task run.
TaskRunIsOver ==
  \A r \in Runs :
    faults = 0 /\ lifecycle[r] \in Terminal /\ taskRun[r] = "running"
      => \E w \in Workers : Executes(w, r)

\* A run that is shown as completed or failed really ended that way: its task
\* run says the same, although the two are written by different transactions.
OutcomeIsBacked ==
  \A r \in Runs :
    runtime[r] = "subagent" /\ lifecycle[r] \in {"completed", "failed"}
      => taskRun[r] = lifecycle[r]

\* The delegated runs implement the lifecycle the runtime promises.  A run for
\* the ACP bridge is promised nothing of it: the lifecycle does not see it.
NativeStatus == [r \in Runs |-> IF runtime[r] = "subagent" THEN lifecycle[r] ELSE "none"]
NativeCancelling == [r \in Runs |-> runtime[r] = "subagent" /\ cancelRequested[r]]
NativeReport == [r \in Runs |-> IF runtime[r] = "subagent" THEN told[r] ELSE <<>>]

Lifecycle == INSTANCE SubagentLifecycle WITH
  status <- NativeStatus, cancelling <- NativeCancelling, report <- NativeReport

LifecycleSpec == Lifecycle!Spec

\* Every spawned run ends, whatever raised, crashed or hung.
RunsEnd == \A r \in Runs : lifecycle[r] = "queued" ~> lifecycle[r] \in Terminal

=============================================================================
