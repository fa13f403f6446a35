--------------------------- MODULE AgentExecution ---------------------------
(***************************************************************************)
(* The life of an agent execution in the backend: a task run is accepted,   *)
(* claimed by the execution worker (or run inside the HTTP request), driven *)
(* through the kernel's tool loop, and settled by one commit.  Tool calls   *)
(* that the policy marks `ask` leave an approval behind, which HTTP         *)
(* handlers approve (run the tool, resume the kernel, settle again) or deny.*)
(*                                                                         *)
(* Every thread of the process is a row of the tables pc, job, tool, ...    *)
(* and every commit to SQLite is one step, so that handlers and workers     *)
(* interleave exactly between their commits.                                *)
(***************************************************************************)
EXTENDS Naturals, FiniteSets

CONSTANTS
  Workers,    \* execution-worker threads (one per backend process)
  Handlers,   \* HTTP handler threads
  Runs,       \* task runs that may ever be created
  Calls,      \* tool-call rows that are followed
  MaxTurns,   \* provider turns per kernel execution (max_iterations)
  MaxCrashes, \* bound on the crashes of the process
  Faults,     \* which failures may happen: see FaultKinds
  NoRun, NoCall

FaultKinds == {"prepare", "kernel", "persist", "resume"}

ASSUME ConstantsAssumption ==
  /\ Workers \cap Handlers = {}
  /\ MaxTurns \in Nat \ {0}
  /\ MaxCrashes \in Nat
  /\ Faults \subseteq FaultKinds
  /\ IsFiniteSet(Runs)
  /\ NoRun \notin Runs
  /\ NoCall \notin Calls

VARIABLES
  \* ---- SQLite
  run,       \* TaskRun.status (Task.status is written by the same commits)
  created,   \* TaskRun.created_at, as a position in the order of acceptance
  call,      \* ToolCall: its task run and its status
  approval,  \* Approval.status of the approval created for a call
  level,     \* ToolPermission.permission_level of the tool
  \* ---- memory of the threads
  pc,        \* the step a thread takes next
  mode,      \* "execute": runs a fresh execution; "resume": decides an approval
  job,       \* the task run it works on
  tool,      \* the tool call it works on
  turn,      \* provider turns taken (iteration_count)
  outcome,   \* execution_status of the kernel loop
  asked,     \* pending_approval_id is not None
  \* ---- observers
  executed,  \* how often the tool of a call was really run
  orphaned,  \* runs whose executing thread ended without settling them
  crashes

dbVars     == <<run, created, call, approval, level>>
threadVars == <<pc, mode, job, tool, turn, outcome, asked>>
vars       == <<dbVars, threadVars, executed, orphaned, crashes>>

Threads == Workers \cup Handlers

Terminal    == {"completed", "failed"}
RunStatuses == {"none", "queued", "running", "awaiting_approval"} \cup Terminal
CallStatuses ==
  {"none", "requested", "denied", "awaiting_approval", "completed", "failed"}
ApprovalStatuses == {"none", "pending", "approved", "denied"}
Levels   == {"allow", "ask", "deny"}
Outcomes == {"completed", "awaiting_approval", "failed"}

\* Steps of the kernel loop and of its settlement, then those of a decision.
LoopSteps ==
  {"prepare", "chat", "tools", "refuse", "authorise", "mark",
   "invoke", "recordCompleted", "recordFailed", "persist", "fail"}
DecisionSteps == {"approve", "deny", "build", "denyCall", "denyRun"}
Steps == {"idle", "claim"} \cup LoopSteps \cup DecisionSteps

DatabaseTypes ==
  /\ run \in [Runs -> RunStatuses]
  /\ created \in [Runs -> Nat]
  /\ call \in [Calls -> [run : Runs \cup {NoRun}, status : CallStatuses]]
  /\ approval \in [Calls -> ApprovalStatuses]
  /\ level \in Levels

ThreadTypes ==
  /\ pc \in [Threads -> Steps]
  /\ mode \in [Threads -> {"execute", "resume"}]
  /\ job \in [Threads -> Runs \cup {NoRun}]
  /\ tool \in [Threads -> Calls \cup {NoCall}]
  /\ turn \in [Threads -> 0 .. MaxTurns]
  /\ outcome \in [Threads -> Outcomes]
  /\ asked \in [Threads -> BOOLEAN]

TypeOK ==
  /\ DatabaseTypes
  /\ ThreadTypes
  /\ executed \in [Calls -> Nat]
  /\ orphaned \in SUBSET Runs
  /\ crashes \in 0 .. MaxCrashes

Init ==
  /\ run = [r \in Runs |-> "none"]
  /\ created = [r \in Runs |-> 0]
  /\ call = [c \in Calls |-> [run |-> NoRun, status |-> "none"]]
  /\ approval = [c \in Calls |-> "none"]
  /\ level \in Levels
  /\ pc = [t \in Threads |-> "idle"]
  /\ mode = [t \in Threads |-> "execute"]
  /\ job = [t \in Threads |-> NoRun]
  /\ tool = [t \in Threads |-> NoCall]
  /\ turn = [t \in Threads |-> 0]
  /\ outcome = [t \in Threads |-> "completed"]
  /\ asked = [t \in Threads |-> FALSE]
  /\ executed = [c \in Calls |-> 0]
  /\ orphaned = {}
  /\ crashes = 0

-----------------------------------------------------------------------------
(* Thread bookkeeping. *)

Goto(t, step) == pc' = [pc EXCEPT ![t] = step]

\* The thread takes up run r (and call c) with a fresh kernel loop.
Begin(t, step, m, r, c) ==
  /\ Goto(t, step)
  /\ mode' = [mode EXCEPT ![t] = m]
  /\ job' = [job EXCEPT ![t] = r]
  /\ tool' = [tool EXCEPT ![t] = c]
  /\ turn' = [turn EXCEPT ![t] = 0]
  /\ outcome' = [outcome EXCEPT ![t] = "completed"]
  /\ asked' = [asked EXCEPT ![t] = FALSE]

\* The handler returns, or its exception leaves it: its memory is gone.
Finish(t) == Begin(t, "idle", "execute", NoRun, NoCall)

KeepJob == UNCHANGED <<mode, job, turn>>
KeepLoop == UNCHANGED <<mode, job, tool, turn, outcome, asked>>

\* The runs being executed (not resumed) by thread t.
Executes(t, r) == pc[t] \in LoopSteps /\ mode[t] = "execute" /\ job[t] = r

-----------------------------------------------------------------------------
(* The rows of the tool service, each written with a commit of its own. *)

CreateCall(c, r) == call' = [call EXCEPT ![c] = [run |-> r, status |-> "requested"]]
MarkCall(c, status) == call' = [call EXCEPT ![c].status = status]
AskApproval(c) == approval' = [approval EXCEPT ![c] = "pending"]
MarkApproval(c, decision) == approval' = [approval EXCEPT ![c] = decision]
SavePermission(l) == level' = l

-----------------------------------------------------------------------------
(* Accepting and claiming executions. *)

NextPosition == Cardinality({r \in Runs : created[r] > 0}) + 1

\* POST /sessions/{id}/messages/async: one commit accepts the run as queued.
EnqueueSimple(r) ==
  /\ run[r] = "none"
  /\ run' = [run EXCEPT ![r] = "queued"]
  /\ created' = [created EXCEPT ![r] = NextPosition]
  /\ UNCHANGED <<call, approval, level, threadVars, executed, orphaned, crashes>>

\* POST /sessions/{id}/messages: the handler runs the execution itself.
ExecuteSimple(h, r) ==
  /\ pc[h] = "idle"
  /\ run[r] = "none"
  /\ run' = [run EXCEPT ![r] = "running"]
  /\ created' = [created EXCEPT ![r] = NextPosition]
  /\ Begin(h, "chat", "execute", r, NoCall)
  /\ UNCHANGED <<call, approval, level, executed, orphaned, crashes>>

\* Faulty SelectQueued: ORDER BY created_at DESC.
SelectNewest(w) ==
  /\ pc[w] = "idle"
  /\ \E r \in Runs :
       /\ run[r] = "queued"
       /\ \A s \in Runs : run[s] = "queued" => created[r] >= created[s]
       /\ Begin(w, "claim", "execute", r, NoCall)
  /\ UNCHANGED <<dbVars, executed, orphaned, crashes>>

\* Faulty SelectQueued: the worker waits while any run is shown as running.
SelectWhenNoneRunning(w) ==
  /\ pc[w] = "idle"
  /\ \A s \in Runs : run[s] # "running"
  /\ \E r \in Runs :
       /\ run[r] = "queued"
       /\ Begin(w, "claim", "execute", r, NoCall)
  /\ UNCHANGED <<dbVars, executed, orphaned, crashes>>

\* The worker's tick selects the oldest queued run ...
SelectQueued(w) ==
  /\ pc[w] = "idle"
  /\ \E r \in Runs :
       /\ run[r] = "queued"
       /\ \A s \in Runs : run[s] = "queued" => created[r] <= created[s]
       /\ Begin(w, "claim", "execute", r, NoCall)
  /\ UNCHANGED <<dbVars, executed, orphaned, crashes>>

\* Faulty Claim: UPDATE without the status it expects.
ClaimUnguarded(w) ==
  /\ pc[w] = "claim"
  /\ run' = [run EXCEPT ![job[w]] = "running"]
  /\ Goto(w, "prepare")
  /\ KeepLoop
  /\ UNCHANGED <<created, call, approval, level, executed, orphaned, crashes>>

\* ... and claims it, unless another worker's UPDATE got there first.
Claim(w) ==
  /\ pc[w] = "claim"
  /\ IF run[job[w]] = "queued"
       THEN /\ run' = [run EXCEPT ![job[w]] = "running"]
            /\ Goto(w, "prepare")
            /\ KeepLoop
       ELSE /\ Finish(w)
            /\ UNCHANGED run
  /\ UNCHANGED <<created, call, approval, level, executed, orphaned, crashes>>

\* Build the kernel request and commit kernel.execution.started.
Prepare(w) ==
  /\ pc[w] = "prepare"
  /\ Goto(w, "chat")
  /\ KeepLoop
  /\ UNCHANGED <<dbVars, executed, orphaned, crashes>>

\* The request cannot be built: the exception leaves the claimed run behind.
PrepareRaises(w) ==
  /\ "prepare" \in Faults
  /\ pc[w] = "prepare"
  /\ orphaned' = orphaned \cup {job[w]}
  /\ Finish(w)
  /\ UNCHANGED <<dbVars, executed, crashes>>

-----------------------------------------------------------------------------
(* The kernel's tool loop. *)

\* provider.chat answers in text: the loop is done.
Answer(t) ==
  /\ pc[t] = "chat"
  /\ turn[t] < MaxTurns
  /\ turn' = [turn EXCEPT ![t] = @ + 1]
  /\ Goto(t, "persist")
  /\ UNCHANGED <<dbVars, mode, job, tool, outcome, asked, executed, orphaned, crashes>>

\* provider.chat answers with tool calls and the first is recorded, or the loop
\* comes to the next call of the turn.  inScope: the run was given this tool.
RequestTool(t, c, inScope) ==
  /\ \/ pc[t] = "chat" /\ turn[t] < MaxTurns /\ turn' = [turn EXCEPT ![t] = @ + 1]
     \/ pc[t] = "tools" /\ UNCHANGED turn
  /\ call[c].status = "none"
  /\ CreateCall(c, job[t])
  /\ tool' = [tool EXCEPT ![t] = c]
  /\ Goto(t, IF inScope THEN "authorise" ELSE "refuse")
  /\ UNCHANGED <<run, created, approval, level, mode, job, outcome, asked,
                 executed, orphaned, crashes>>

\* A turn of calls of other tools, which are allowed and succeed: their rows are
\* not followed, so a provider may ask for such tools for ever.
UseOtherTools(t) ==
  /\ pc[t] = "chat"
  /\ turn[t] < MaxTurns
  /\ turn' = [turn EXCEPT ![t] = @ + 1]
  /\ Goto(t, "tools")
  /\ UNCHANGED <<dbVars, mode, job, tool, outcome, asked, executed, orphaned, crashes>>

\* Denied by policy or outside the scope: recorded, and the loop goes on.
Refuse(t) ==
  /\ pc[t] = "refuse"
  /\ MarkCall(tool[t], "denied")
  /\ Goto(t, "tools")
  /\ tool' = [tool EXCEPT ![t] = NoCall]
  /\ KeepJob
  /\ UNCHANGED <<run, created, approval, level, outcome, asked,
                 executed, orphaned, crashes>>

\* Faulty Authorise: no return after the approval is created.
AuthoriseAndInvoke(t) ==
  /\ pc[t] = "authorise"
  /\ approval' = [approval EXCEPT ![tool[t]] = IF level = "ask" THEN "pending" ELSE @]
  /\ Goto(t, IF level = "deny" THEN "refuse" ELSE "invoke")
  /\ KeepLoop
  /\ UNCHANGED <<run, created, call, level, executed, orphaned, crashes>>

\* Faulty Authorise: the call is marked but its approval is not created.
AuthoriseWithoutApproval(t) ==
  /\ pc[t] = "authorise"
  /\ Goto(t, CASE level = "deny" -> "refuse" [] level = "allow" -> "invoke"
               [] OTHER -> "mark")
  /\ KeepLoop
  /\ UNCHANGED <<run, created, call, approval, level, executed, orphaned, crashes>>

\* The permission decides; `ask` commits the approval before the call is marked.
Authorise(t) ==
  /\ pc[t] = "authorise"
  /\ \/ level = "deny"  /\ Goto(t, "refuse") /\ UNCHANGED approval
     \/ level = "allow" /\ Goto(t, "invoke") /\ UNCHANGED approval
     \/ /\ level = "ask"
        /\ AskApproval(tool[t])
        /\ Goto(t, "mark")
     \/ level = "ask" /\ Goto(t, "recordFailed") /\ UNCHANGED approval
  /\ KeepLoop
  /\ UNCHANGED <<run, created, call, level, executed, orphaned, crashes>>

\* The call is marked; the loop pauses on the first approval it asked for.
MarkAwaiting(t) ==
  /\ pc[t] = "mark"
  /\ MarkCall(tool[t], "awaiting_approval")
  /\ outcome' = [outcome EXCEPT ![t] = IF asked[t] THEN @ ELSE "awaiting_approval"]
  /\ asked' = [asked EXCEPT ![t] = TRUE]
  /\ tool' = [tool EXCEPT ![t] = NoCall]
  /\ Goto(t, "tools")
  /\ KeepJob
  /\ UNCHANGED <<run, created, approval, level, executed, orphaned, crashes>>

\* The tool runs (and succeeds or fails), or its start cannot be recorded.
Invoke(t) ==
  /\ pc[t] = "invoke"
  /\ \/ /\ executed' = [executed EXCEPT ![tool[t]] = @ + 1]
        /\ \E step \in {"recordCompleted", "recordFailed"} : Goto(t, step)
     \/ /\ Goto(t, "recordFailed")
        /\ UNCHANGED executed
  /\ KeepLoop
  /\ UNCHANGED <<dbVars, orphaned, crashes>>

\* The handler that approved a call runs it before its first provider turn.
ApprovedCall(t) == mode[t] = "resume" /\ turn[t] = 0

RecordCompleted(t) ==
  /\ pc[t] = "recordCompleted"
  /\ MarkCall(tool[t], "completed")
  /\ tool' = [tool EXCEPT ![t] = NoCall]
  /\ Goto(t, IF ApprovedCall(t) THEN "chat" ELSE "tools")
  /\ KeepJob
  /\ UNCHANGED <<run, created, approval, level, outcome, asked,
                 executed, orphaned, crashes>>

RecordFailed(t) ==
  /\ pc[t] = "recordFailed"
  /\ MarkCall(tool[t], "failed")
  /\ outcome' = [outcome EXCEPT ![t] = "failed"]
  /\ tool' = [tool EXCEPT ![t] = NoCall]
  /\ Goto(t, IF ApprovedCall(t) THEN "persist" ELSE "tools")
  /\ KeepJob
  /\ UNCHANGED <<run, created, approval, level, asked, executed, orphaned, crashes>>

\* Faulty EndTurn: the iterations are not limited (the counter stays at the
\* last value it may have, for the sake of the type).
EndTurnUnlimited(t) ==
  /\ pc[t] = "tools"
  /\ IF outcome[t] \in {"awaiting_approval", "failed"}
       THEN Goto(t, "persist") /\ UNCHANGED turn
       ELSE /\ Goto(t, "chat")
            /\ turn' = [turn EXCEPT ![t] = IF @ = MaxTurns THEN @ - 1 ELSE @]
  /\ UNCHANGED <<dbVars, mode, job, tool, outcome, asked, executed, orphaned, crashes>>

\* All calls of the turn are done: stop, or give the results to the provider.
EndTurn(t) ==
  /\ pc[t] = "tools"
  /\ Goto(t, IF outcome[t] \in {"awaiting_approval", "failed"} \/ turn[t] >= MaxTurns
               THEN "persist" ELSE "chat")
  /\ KeepLoop
  /\ UNCHANGED <<dbVars, executed, orphaned, crashes>>

\* Faulty KernelRaises: the exception of a fresh execution is not caught.
KernelRaisesUncaught(t) ==
  /\ "kernel" \in Faults
  /\ pc[t] \in {"chat", "tools", "refuse", "authorise", "mark",
                "recordCompleted", "recordFailed"}
  /\ Finish(t)
  /\ UNCHANGED <<dbVars, executed, orphaned, crashes>>

\* The provider, a commit of the tool service or the adapter raises.  A fresh
\* execution catches it and fails the run; the approval handler does not.
KernelRaises(t) ==
  /\ "kernel" \in Faults
  /\ pc[t] \in {"chat", "tools", "refuse", "authorise", "mark",
                "recordCompleted", "recordFailed"}
  /\ IF mode[t] = "execute"
       THEN Goto(t, "fail") /\ KeepLoop
       ELSE Finish(t)
  /\ UNCHANGED <<dbVars, executed, orphaned, crashes>>

-----------------------------------------------------------------------------
(* Settling the run. *)

Settle(t, status) ==
  /\ run' = [run EXCEPT ![job[t]] = status]
  /\ Finish(t)
  /\ UNCHANGED <<created, call, approval, level, executed, orphaned, crashes>>

Persist(t) == pc[t] = "persist" /\ Settle(t, outcome[t])

\* Faulty PersistFailure: no `raise`, so the result is persisted as well.
PersistFailureAndResult(t) ==
  /\ pc[t] = "fail"
  /\ run' = [run EXCEPT ![job[t]] = "failed"]
  /\ Goto(t, "persist")
  /\ KeepLoop
  /\ UNCHANGED <<created, call, approval, level, executed, orphaned, crashes>>

\* The handler of the exception records it and raises it again.
PersistFailure(t) == pc[t] = "fail" /\ Settle(t, "failed")

\* The settling transaction raises and is rolled back.
PersistRaises(t) ==
  /\ "persist" \in Faults
  /\ pc[t] \in {"persist", "fail", "denyCall", "denyRun"}
  /\ orphaned' = IF mode[t] = "execute" THEN orphaned \cup {job[t]} ELSE orphaned
  /\ Finish(t)
  /\ UNCHANGED <<dbVars, executed, crashes>>

-----------------------------------------------------------------------------
(* Deciding an approval. *)

\* Faulty Decide: any approval may be decided again.
DecideAgain(h, c, decision) ==
  /\ pc[h] = "idle"
  /\ approval[c] # "none"
  /\ Begin(h, decision, "resume", call[c].run, c)
  /\ UNCHANGED <<dbVars, executed, orphaned, crashes>>

\* _require_pending_bundle: the check that is not repeated by the write.
Decide(h, c, decision) ==
  /\ pc[h] = "idle"
  /\ approval[c] = "pending"
  /\ Begin(h, decision, "resume", call[c].run, c)
  /\ UNCHANGED <<dbVars, executed, orphaned, crashes>>

\* Faulty Approve: the decision is not committed before the tool runs.
ApproveUncommitted(h) ==
  /\ pc[h] = "approve"
  /\ Goto(h, "build")
  /\ KeepLoop
  /\ UNCHANGED <<dbVars, executed, orphaned, crashes>>

Approve(h) ==
  /\ pc[h] = "approve"
  /\ MarkApproval(tool[h], "approved")
  /\ Goto(h, "build")
  /\ KeepLoop
  /\ UNCHANGED <<run, created, call, level, executed, orphaned, crashes>>

\* Load message and session, build the resume request.
BuildResume(h) ==
  /\ pc[h] = "build"
  /\ Goto(h, "invoke")
  /\ KeepLoop
  /\ UNCHANGED <<dbVars, executed, orphaned, crashes>>

BuildResumeRaises(h) ==
  /\ "resume" \in Faults
  /\ pc[h] = "build"
  /\ Finish(h)
  /\ UNCHANGED <<dbVars, executed, orphaned, crashes>>

Deny(h) ==
  /\ pc[h] = "deny"
  /\ MarkApproval(tool[h], "denied")
  /\ Goto(h, "denyCall")
  /\ KeepLoop
  /\ UNCHANGED <<run, created, call, level, executed, orphaned, crashes>>

DenyCall(h) ==
  /\ pc[h] = "denyCall"
  /\ MarkCall(tool[h], "denied")
  /\ Goto(h, "denyRun")
  /\ KeepLoop
  /\ UNCHANGED <<run, created, approval, level, executed, orphaned, crashes>>

\* Faulty DenyRun: the run gets the status of the approval.
DenyRunAsDenied(h) == pc[h] = "denyRun" /\ Settle(h, "denied")

DenyRun(h) == pc[h] = "denyRun" /\ Settle(h, "failed")

-----------------------------------------------------------------------------
(* The user edits the policy; the process dies and is started again. *)

UpdatePermission(l) ==
  /\ level # l
  /\ SavePermission(l)
  /\ UNCHANGED <<run, created, call, approval, threadVars, executed, orphaned, crashes>>

Crash ==
  /\ crashes < MaxCrashes
  /\ crashes' = crashes + 1
  /\ orphaned' = orphaned \cup {r \in Runs : \E t \in Threads : Executes(t, r)}
  /\ pc' = [t \in Threads |-> "idle"]
  /\ mode' = [t \in Threads |-> "execute"]
  /\ job' = [t \in Threads |-> NoRun]
  /\ tool' = [t \in Threads |-> NoCall]
  /\ turn' = [t \in Threads |-> 0]
  /\ outcome' = [t \in Threads |-> "completed"]
  /\ asked' = [t \in Threads |-> FALSE]
  /\ UNCHANGED <<dbVars, executed>>

-----------------------------------------------------------------------------

KernelStep(t) ==
  \/ Answer(t)
  \/ \E c \in Calls, inScope \in BOOLEAN : RequestTool(t, c, inScope)
  \/ UseOtherTools(t)
  \/ Refuse(t) \/ Authorise(t) \/ MarkAwaiting(t)
  \/ Invoke(t) \/ RecordCompleted(t) \/ RecordFailed(t)
  \/ EndTurn(t)
  \/ Persist(t) \/ PersistFailure(t)

WorkerStep(w) == SelectQueued(w) \/ Claim(w) \/ Prepare(w)

DecisionStep(h) ==
  Approve(h) \/ BuildResume(h) \/ Deny(h) \/ DenyCall(h) \/ DenyRun(h)

ThreadRaises(t) ==
  PrepareRaises(t) \/ KernelRaises(t) \/ PersistRaises(t) \/ BuildResumeRaises(t)

UserStep ==
  \/ \E r \in Runs : EnqueueSimple(r)
  \/ \E h \in Handlers, r \in Runs : ExecuteSimple(h, r)
  \/ \E h \in Handlers, c \in Calls, d \in {"approve", "deny"} : Decide(h, c, d)
  \/ \E l \in Levels : UpdatePermission(l)

Next ==
  \/ UserStep
  \/ \E w \in Workers : WorkerStep(w)
  \/ \E h \in Handlers : DecisionStep(h)
  \/ \E t \in Threads : KernelStep(t) \/ ThreadRaises(t)
  \/ Crash

Spec == Init /\ [][Next]_vars

\* Threads that have work take their next step: the worker loops for ever and
\* a request that was started is served.  Users and failures are not forced.
Fairness ==
  /\ \A w \in Workers : WF_vars(WorkerStep(w))
  /\ \A h \in Handlers : WF_vars(DecisionStep(h))
  /\ \A t \in Threads : WF_vars(KernelStep(t))

FairSpec == Spec /\ Fairness

-----------------------------------------------------------------------------
(* What must hold.                                                          *)

\* A task run is executed by at most one thread: the claim's UPDATE is guarded
\* by the status it expects, so two workers that selected the same run cannot
\* both run the user's request.
OneExecutor ==
  \A t, u \in Threads, r \in Runs : Executes(t, r) /\ Executes(u, r) => t = u

\* A run shown as running is being executed, unless its thread died or could
\* not commit: nothing else leaves a run in `running`.
RunningIsOwned ==
  \A r \in Runs :
    run[r] = "running" => r \in orphaned \/ \E t \in Threads : Executes(t, r)

\* The tool of a call that asked for approval never runs while the approval is
\* undecided, whichever handlers, kernels and crashes get in between.
NoToolRunsUndecided ==
  \A c \in Calls : executed[c] > 0 => approval[c] # "pending"

\* A paused run has asked somebody: an approval of one of its calls exists, although
\* it may be decided already (an approve that failed after its first commit).
PausedHasApproval ==
  \A r \in Runs :
    run[r] = "awaiting_approval" =>
      \E c \in Calls : call[c].run = r /\ approval[c] # "none"

\* Only an approval brings a settled run back: without one it is final.
SettledWithoutApproval(r) ==
  run[r] \in Terminal /\ \A c \in Calls : call[c].run = r => approval[c] = "none"

SettledRunsStay ==
  [][\A r \in Runs : SettledWithoutApproval(r) => run'[r] = run[r]]_vars

\* Executions start in the order they were accepted.
OldestFirst ==
  [][\A r, s \in Runs :
       (run[r] = "queued" /\ run[s] = "queued" /\ created[r] < created[s])
         => ~(run'[s] = "running" /\ run'[r] = "queued")]_vars

\* With decisions taken one at a time (a single handler) a tool runs at most
\* once and a denied tool not at all.
ToolRunsAtMostOnce == \A c \in Calls : executed[c] <= 1

DeniedToolNotExecuted ==
  \A c \in Calls : approval[c] = "denied" => executed[c] = 0

\* Every accepted execution is started, however many fail before it.
QueuedIsStarted == \A r \in Runs : run[r] = "queued" ~> run[r] # "queued"

\* Every started execution is settled, unless it was orphaned.
RunningIsSettled ==
  \A r \in Runs : run[r] = "running" ~> (run[r] # "running" \/ r \in orphaned)

\* Every request and every tick returns, even when the provider asks for tools in
\* every turn: the limit of the iterations ends the loop.
ThreadsReturn == \A t \in Threads : pc[t] # "idle" ~> pc[t] = "idle"

=============================================================================
