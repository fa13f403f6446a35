----------------------- MODULE AgentExecutionProofs -----------------------
(***************************************************************************)
(* Theorems about AgentExecution, for every number of workers, handlers,    *)
(* runs, calls, turns and crashes, and whatever failures are allowed: types, *)
(* executors and the queue; then approvals and what they decide.             *)
(***************************************************************************)
EXTENDS AgentExecution, FiniteSetTheorems, TLAPS

-----------------------------------------------------------------------------
(* Type correctness. *)

\* A thread that executes a run, or is about to claim one, knows which.
JobsAreRuns ==
  \A t \in Threads :
    (pc[t] = "claim" \/ pc[t] \in LoopSteps) /\ mode[t] = "execute" => job[t] \in Runs

\* What the thread is doing agrees with why it started.
ModesAgree ==
  \A t \in Threads :
    /\ pc[t] \in {"claim", "prepare", "fail"} => mode[t] = "execute"
    /\ pc[t] \in DecisionSteps => mode[t] = "resume"

TypeInv == TypeOK /\ JobsAreRuns /\ ModesAgree

LEMMA PositionType == NextPosition \in Nat
<1> DEFINE accepted == {r \in Runs : created[r] > 0}
<1>1. IsFiniteSet(accepted)
  BY ConstantsAssumption, FS_Subset
<1>2. Cardinality(accepted) \in Nat
  BY <1>1, FS_CardinalityType
<1>3. QED
  BY <1>2 DEF NextPosition

LEMMA CrashTypes ==
  ASSUME TypeInv, Crash
  PROVE  TypeInv'
BY ConstantsAssumption DEF TypeInv, TypeOK, DatabaseTypes, ThreadTypes, JobsAreRuns, ModesAgree, Crash, dbVars, Threads, Steps, LoopSteps, DecisionSteps, Executes, Outcomes

LEMMA CallUpdateType ==
  ASSUME call \in [Calls -> [run : Runs \cup {NoRun}, status : CallStatuses]],
         NEW c, NEW s \in CallStatuses
  PROVE  [call EXCEPT ![c].status = s]
           \in [Calls -> [run : Runs \cup {NoRun}, status : CallStatuses]]
OBVIOUS

\* A thread that returns leaves well-typed tables and no obligations.
LEMMA FinishTypes ==
  ASSUME TypeInv, NEW t \in Threads, Finish(t)
  PROVE  ThreadTypes' /\ JobsAreRuns' /\ ModesAgree'
<1> USE ConstantsAssumption DEF TypeInv, TypeOK, ThreadTypes
<1>1. pc' = [pc EXCEPT ![t] = "idle"] /\ mode' = [mode EXCEPT ![t] = "execute"]
      /\ job' = [job EXCEPT ![t] = NoRun] /\ outcome' = [outcome EXCEPT ![t] = "completed"]
      /\ tool' = [tool EXCEPT ![t] = NoCall] /\ turn' = [turn EXCEPT ![t] = 0]
      /\ asked' = [asked EXCEPT ![t] = FALSE]
  BY DEF Finish, Begin, Goto
<1>2. ThreadTypes'
  BY <1>1 DEF Steps, Outcomes
<1>3. JobsAreRuns'
  BY <1>1 DEF JobsAreRuns, LoopSteps
<1>4. ModesAgree'
  BY <1>1 DEF ModesAgree, DecisionSteps
<1>5. QED
  BY <1>2, <1>3, <1>4

LEMMA SettleTypes ==
  ASSUME TypeInv, NEW t \in Threads, NEW s \in Outcomes, Settle(t, s)
  PROVE  TypeInv'
<1>1. ThreadTypes' /\ JobsAreRuns' /\ ModesAgree'
  BY FinishTypes DEF Settle
<1>2. run' \in [Runs -> RunStatuses]
  BY DEF Settle, TypeInv, TypeOK, DatabaseTypes, RunStatuses, Terminal, Outcomes
<1>3. QED
  BY <1>1, <1>2 DEF Settle, TypeInv, TypeOK, DatabaseTypes

LEMMA KernelStepTypes ==
  ASSUME TypeInv, NEW t \in Threads, KernelStep(t)
  PROVE  TypeInv'
<1> USE ConstantsAssumption DEF TypeInv, TypeOK, DatabaseTypes, ThreadTypes, JobsAreRuns, ModesAgree, Goto, KeepJob, KeepLoop, dbVars, Steps, LoopSteps, DecisionSteps
<1>1. CASE Answer(t) \/ UseOtherTools(t)
  BY <1>1 DEF Answer, UseOtherTools
<1>2. ASSUME NEW c \in Calls, NEW inScope \in BOOLEAN, RequestTool(t, c, inScope)
      PROVE  TypeInv'
  BY <1>2 DEF CreateCall, RequestTool, CallStatuses
<1>3. CASE Refuse(t)
  BY <1>3 DEF MarkCall, Refuse, CallStatuses
<1>4. CASE Authorise(t)
  BY <1>4 DEF AskApproval, Authorise, ApprovalStatuses
<1>5. CASE MarkAwaiting(t)
  BY <1>5 DEF MarkCall, MarkAwaiting, CallStatuses, Outcomes
<1>6. CASE Invoke(t)
  BY <1>6 DEF Invoke
<1>7. CASE RecordCompleted(t)
  BY <1>7 DEF MarkCall, RecordCompleted, CallStatuses
<1>8. CASE RecordFailed(t)
  BY <1>8 DEF MarkCall, RecordFailed, CallStatuses, Outcomes
<1>9. CASE EndTurn(t)
  BY <1>9 DEF EndTurn
<1>10. CASE Persist(t)
  <2>1. outcome[t] \in Outcomes
    OBVIOUS
  <2>2. QED
    BY <1>10, <2>1, SettleTypes DEF Persist
<1>11. CASE PersistFailure(t)
  <2>1. "failed" \in Outcomes
    BY DEF Outcomes
  <2>2. QED
    BY <1>11, <2>1, SettleTypes DEF PersistFailure
<1>12. QED
  BY <1>1, <1>2, <1>3, <1>4, <1>5, <1>6, <1>7, <1>8, <1>9, <1>10, <1>11 DEF KernelStep

LEMMA WorkerStepTypes ==
  ASSUME TypeInv, NEW w \in Workers, WorkerStep(w)
  PROVE  TypeInv'
<1> USE ConstantsAssumption DEF TypeInv, TypeOK, DatabaseTypes, ThreadTypes, JobsAreRuns,
        ModesAgree, Goto, KeepLoop, dbVars, Steps, LoopSteps, DecisionSteps, Threads
<1>1. CASE SelectQueued(w)
  BY <1>1 DEF SelectQueued, Begin, Outcomes
<1>2. CASE Claim(w)
  <2>1. CASE run[job[w]] = "queued"
    <3>1. /\ pc[w] = "claim" /\ mode[w] = "execute" /\ job[w] \in Runs
          /\ run' = [run EXCEPT ![job[w]] = "running"]
          /\ pc' = [pc EXCEPT ![w] = "prepare"]
          /\ KeepLoop
          /\ UNCHANGED <<created, call, approval, level, executed, orphaned, crashes>>
      BY <1>2, <2>1 DEF Claim
    <3>2. DatabaseTypes'
      BY <3>1 DEF RunStatuses
    <3>3. ThreadTypes'
      BY <3>1
    <3>4. JobsAreRuns' /\ ModesAgree'
      BY <3>1
    <3>5. QED
      BY <3>1, <3>2, <3>3, <3>4
  <2>2. CASE run[job[w]] # "queued"
    <3>1. Finish(w) /\ UNCHANGED <<run, created, call, approval, level, executed, orphaned, crashes>>
      BY <1>2, <2>2 DEF Claim
    <3>2. QED
      BY <3>1, FinishTypes
  <2>3. QED
    BY <2>1, <2>2
<1>3. CASE Prepare(w)
  BY <1>3 DEF Prepare
<1>4. QED
  BY <1>1, <1>2, <1>3 DEF WorkerStep

LEMMA DecisionStepTypes ==
  ASSUME TypeInv, NEW h \in Handlers, DecisionStep(h)
  PROVE  TypeInv'
<1> USE ConstantsAssumption DEF TypeInv, TypeOK, DatabaseTypes, ThreadTypes, JobsAreRuns,
        ModesAgree, Goto, KeepLoop, dbVars, Steps, LoopSteps, DecisionSteps, Threads
<1>1. CASE Approve(h)
  BY <1>1 DEF MarkApproval, Approve, ApprovalStatuses
<1>2. CASE BuildResume(h)
  BY <1>2 DEF BuildResume
<1>3. CASE Deny(h)
  BY <1>3 DEF MarkApproval, Deny, ApprovalStatuses
<1>4. CASE DenyCall(h)
  <2>1. call' = [call EXCEPT ![tool[h]].status = "denied"]
        /\ pc[h] = "denyCall" /\ pc' = [pc EXCEPT ![h] = "denyRun"] /\ KeepLoop
        /\ UNCHANGED <<run, created, approval, level, executed, orphaned, crashes>>
    BY <1>4 DEF MarkCall, DenyCall
  <2>2. call' \in [Calls -> [run : Runs \cup {NoRun}, status : CallStatuses]]
    BY <2>1, CallUpdateType DEF CallStatuses
  <2>3. ThreadTypes' /\ JobsAreRuns' /\ ModesAgree'
    BY <2>1
  <2>4. QED
    BY <2>1, <2>2, <2>3
<1>5. CASE DenyRun(h)
  <2>1. "failed" \in Outcomes
    BY DEF Outcomes
  <2>2. QED
    BY <1>5, <2>1, SettleTypes DEF DenyRun
<1>6. QED
  BY <1>1, <1>2, <1>3, <1>4, <1>5 DEF DecisionStep

LEMMA ThreadRaisesTypes ==
  ASSUME TypeInv, NEW t \in Threads, ThreadRaises(t)
  PROVE  TypeInv'
<1> USE DEF TypeInv, TypeOK, DatabaseTypes, dbVars
<1>1. ASSUME Finish(t), UNCHANGED <<dbVars, executed, crashes>>, orphaned' \in SUBSET Runs
      PROVE  TypeInv'
  BY <1>1, FinishTypes
<1>2. CASE PrepareRaises(t)
  BY <1>1, <1>2 DEF PrepareRaises, JobsAreRuns, ModesAgree, LoopSteps
<1>3. CASE KernelRaises(t)
  <2>1. CASE mode[t] = "execute"
    <3>1. pc' = [pc EXCEPT ![t] = "fail"] /\ KeepLoop /\ pc[t] \in LoopSteps
          /\ UNCHANGED <<dbVars, executed, orphaned, crashes>>
      BY <1>3, <2>1 DEF KernelRaises, Goto, LoopSteps
    <3>2. QED
      BY <2>1, <3>1 DEF KeepLoop, ThreadTypes, Steps, LoopSteps, JobsAreRuns, ModesAgree,
                        DecisionSteps
  <2>2. CASE mode[t] # "execute"
    BY <1>1, <1>3, <2>2 DEF KernelRaises
  <2>3. QED
    BY <2>1, <2>2
<1>4. CASE PersistRaises(t)
  BY <1>1, <1>4 DEF PersistRaises, JobsAreRuns, ModesAgree, LoopSteps, DecisionSteps
<1>5. CASE BuildResumeRaises(t)
  BY <1>1, <1>5 DEF BuildResumeRaises
<1>6. QED
  BY <1>2, <1>3, <1>4, <1>5 DEF ThreadRaises

LEMMA UserStepTypes ==
  ASSUME TypeInv, UserStep
  PROVE  TypeInv'
<1> USE ConstantsAssumption, PositionType
    DEF TypeInv, TypeOK, DatabaseTypes, ThreadTypes, JobsAreRuns, ModesAgree,
        dbVars, threadVars, Threads, Begin, Goto
<1>1. ASSUME NEW r \in Runs, EnqueueSimple(r)
      PROVE  TypeInv'
  BY <1>1 DEF EnqueueSimple, RunStatuses
<1>2. ASSUME NEW h \in Handlers, NEW r \in Runs, ExecuteSimple(h, r)
      PROVE  TypeInv'
  BY <1>2 DEF ExecuteSimple, RunStatuses, Steps, LoopSteps, DecisionSteps, Outcomes
<1>3. ASSUME NEW h \in Handlers, NEW c \in Calls, NEW d \in {"approve", "deny"},
             Decide(h, c, d)
      PROVE  TypeInv'
  BY <1>3 DEF Decide, Steps, LoopSteps, DecisionSteps, Outcomes
<1>4. ASSUME NEW l \in Levels, UpdatePermission(l)
      PROVE  TypeInv'
  BY <1>4 DEF SavePermission, UpdatePermission
<1>5. QED
  BY <1>1, <1>2, <1>3, <1>4 DEF UserStep

LEMMA InitTypes == Init => TypeInv
BY ConstantsAssumption
   DEF Init, TypeInv, TypeOK, DatabaseTypes, ThreadTypes, JobsAreRuns, ModesAgree,
       RunStatuses, CallStatuses, ApprovalStatuses, Steps, LoopSteps, DecisionSteps, Outcomes

LEMMA NextTypes == TypeInv /\ [Next]_vars => TypeInv'
<1> SUFFICES ASSUME TypeInv, [Next]_vars
             PROVE  TypeInv'
  OBVIOUS
<1>1. CASE Next
  BY <1>1, CrashTypes, UserStepTypes, WorkerStepTypes, DecisionStepTypes,
     KernelStepTypes, ThreadRaisesTypes DEF Next
<1>2. CASE UNCHANGED vars
  BY <1>2 DEF vars, dbVars, threadVars, TypeInv, TypeOK, DatabaseTypes, ThreadTypes,
              JobsAreRuns, ModesAgree
<1>3. QED
  BY <1>1, <1>2

\* Every table keeps its type, and a thread that executes a run knows which run
\* it is: no handler or worker of services/agent_execution.py and
\* services/approvals.py settles a row it never loaded.
THEOREM TypeCorrect == Spec => []TypeOK
<1>1. Spec => []TypeInv
  BY InitTypes, NextTypes, PTL DEF Spec
<1>2. TypeInv => TypeOK
  BY DEF TypeInv
<1>3. QED
  BY <1>1, <1>2, PTL

-----------------------------------------------------------------------------
(* One executor per run.                                                    *)
(*                                                                         *)
(* OneExecutor is not inductive: a claim could start a second executor of a *)
(* run that already has one.  It cannot because a run that has an executor  *)
(* has left `queued`, and nothing puts a run back into it.                  *)

ExecutedRunIsStarted ==
  \A t \in Threads, r \in Runs : Executes(t, r) => run[r] \notin {"none", "queued"}

OwnershipInv == OneExecutor /\ ExecutedRunIsStarted /\ RunningIsOwned

\* A step that starts no executor and puts no run into none, queued or running
\* keeps the ownership, provided it accounts for the executors that it ends.
LEMMA OwnershipKept ==
  ASSUME OwnershipInv,
         \A t \in Threads, r \in Runs : Executes(t, r)' => Executes(t, r),
         \A r \in Runs : run'[r] \in {"none", "queued", "running"} => run'[r] = run[r],
         \A t \in Threads, r \in Runs :
           Executes(t, r) => Executes(t, r)' \/ r \in orphaned' \/ run'[r] # "running",
         orphaned \subseteq orphaned'
  PROVE  OwnershipInv'
<1>1. OneExecutor'
  BY DEF OwnershipInv, OneExecutor
<1>2. ExecutedRunIsStarted'
  BY DEF OwnershipInv, ExecutedRunIsStarted
<1>3. RunningIsOwned'
  <2>1. SUFFICES ASSUME NEW r \in Runs, run'[r] = "running"
                 PROVE  r \in orphaned' \/ \E t \in Threads : Executes(t, r)'
    BY DEF RunningIsOwned
  <2>2. run[r] = "running"
    BY <2>1
  <2>3. r \in orphaned \/ \E t \in Threads : Executes(t, r)
    BY <2>2 DEF OwnershipInv, RunningIsOwned
  <2>4. QED
    BY <2>1, <2>3
<1>4. QED
  BY <1>1, <1>2, <1>3 DEF OwnershipInv

\* The executors of the other threads do not depend on what t does.
LEMMA FinishExecutes ==
  ASSUME TypeOK, NEW t \in Threads, Finish(t)
  PROVE  \A u \in Threads, r \in Runs : Executes(u, r)' <=> (u # t /\ Executes(u, r))
BY DEF Finish, Begin, Goto, Executes, TypeOK, ThreadTypes, LoopSteps

LEMMA SettleOwnership ==
  ASSUME TypeInv, OwnershipInv, NEW t \in Threads, NEW s \in Outcomes, Settle(t, s)
  PROVE  OwnershipInv'
<1>1. \A u \in Threads, r \in Runs : Executes(u, r)' <=> (u # t /\ Executes(u, r))
  BY FinishExecutes DEF Settle, TypeInv
<1>2. \A r \in Runs : run'[r] = IF r = job[t] THEN s ELSE run[r]
  BY DEF Settle, TypeInv, TypeOK, DatabaseTypes
<1>3. \A r \in Runs : Executes(t, r) => run'[r] # "running"
  BY <1>2 DEF Executes, Outcomes
<1>4. \A r \in Runs : run'[r] \in {"none", "queued", "running"} => run'[r] = run[r]
  BY <1>2 DEF Outcomes
<1>5. orphaned' = orphaned
  BY DEF Settle
<1>6. QED
  BY <1>1, <1>3, <1>4, <1>5, OwnershipKept

LEMMA KernelStepOwnership ==
  ASSUME TypeInv, OwnershipInv, NEW t \in Threads, KernelStep(t)
  PROVE  OwnershipInv'
<1>1. CASE Persist(t)
  <2>1. outcome[t] \in Outcomes
    BY DEF TypeInv, TypeOK, ThreadTypes
  <2>2. QED
    BY <1>1, <2>1, SettleOwnership DEF Persist
<1>2. CASE PersistFailure(t)
  BY <1>2, SettleOwnership DEF PersistFailure, Outcomes
<1>3. CASE ~Persist(t) /\ ~PersistFailure(t)
  <2>1. /\ pc[t] \in LoopSteps
        /\ \E step \in LoopSteps : pc' = [pc EXCEPT ![t] = step]
        /\ UNCHANGED <<mode, job, run, orphaned>>
    <3>1. CASE Answer(t) \/ UseOtherTools(t)
      BY <3>1 DEF Answer, UseOtherTools, Goto, LoopSteps, dbVars
    <3>2. ASSUME NEW c \in Calls, NEW inScope \in BOOLEAN, RequestTool(t, c, inScope)
          PROVE  <2>1!1 /\ <2>1!2 /\ <2>1!3
      BY <3>2 DEF CreateCall, RequestTool, Goto, LoopSteps
    <3>3. CASE Refuse(t)
      BY <3>3 DEF MarkCall, Refuse, Goto, KeepJob, LoopSteps
    <3>4. CASE Authorise(t)
      BY <3>4 DEF AskApproval, Authorise, Goto, KeepLoop, LoopSteps
    <3>5. CASE MarkAwaiting(t)
      BY <3>5 DEF MarkCall, MarkAwaiting, Goto, KeepJob, LoopSteps
    <3>6. CASE Invoke(t)
      BY <3>6 DEF Invoke, Goto, KeepLoop, LoopSteps, dbVars
    <3>7. CASE RecordCompleted(t)
      BY <3>7 DEF MarkCall, RecordCompleted, Goto, KeepJob, LoopSteps
    <3>8. CASE RecordFailed(t)
      BY <3>8 DEF MarkCall, RecordFailed, Goto, KeepJob, LoopSteps
    <3>9. CASE EndTurn(t)
      BY <3>9 DEF EndTurn, Goto, KeepLoop, LoopSteps, dbVars
    <3>10. QED
      BY <1>3, <3>1, <3>2, <3>3, <3>4, <3>5, <3>6, <3>7, <3>8, <3>9 DEF KernelStep
  <2>2. \A u \in Threads, r \in Runs : Executes(u, r)' <=> Executes(u, r)
    BY <2>1 DEF Executes, TypeInv, TypeOK, ThreadTypes
  <2>3. QED
    BY <2>1, <2>2, OwnershipKept
<1>4. QED
  BY <1>1, <1>2, <1>3

LEMMA WorkerStepOwnership ==
  ASSUME TypeInv, OwnershipInv, NEW w \in Workers, WorkerStep(w)
  PROVE  OwnershipInv'
<1> w \in Threads
  BY DEF Threads
<1>1. CASE SelectQueued(w)
  <2>1. PICK r \in Runs : Begin(w, "claim", "execute", r, NoCall)
    BY <1>1 DEF SelectQueued
  <2>2. \A u \in Threads, s \in Runs : Executes(u, s)' <=> Executes(u, s)
    BY <1>1, <2>1 DEF SelectQueued, Begin, Goto, Executes, TypeInv, TypeOK, ThreadTypes, LoopSteps
  <2>3. UNCHANGED <<run, orphaned>>
    BY <1>1 DEF SelectQueued, dbVars
  <2>4. QED
    BY <2>2, <2>3, OwnershipKept
<1>2. CASE Claim(w) /\ run[job[w]] = "queued"
  <2>1. /\ job[w] \in Runs /\ mode[w] = "execute" /\ pc[w] = "claim"
        /\ run' = [run EXCEPT ![job[w]] = "running"]
        /\ pc' = [pc EXCEPT ![w] = "prepare"]
        /\ UNCHANGED <<mode, job, orphaned>>
    BY <1>2 DEF Claim, Goto, KeepLoop, TypeInv, JobsAreRuns, ModesAgree
  <2>2. \A u \in Threads, r \in Runs :
          Executes(u, r)' <=> Executes(u, r) \/ (u = w /\ r = job[w])
    BY <2>1 DEF Executes, TypeInv, TypeOK, ThreadTypes, LoopSteps
  <2>3. \A u \in Threads : ~Executes(u, job[w])
    BY <1>2, <2>1 DEF OwnershipInv, ExecutedRunIsStarted
  <2>4. \A r \in Runs : run'[r] = IF r = job[w] THEN "running" ELSE run[r]
    BY <2>1 DEF TypeInv, TypeOK, DatabaseTypes
  <2>5. OneExecutor'
    <3>1. SUFFICES ASSUME NEW u \in Threads, NEW v \in Threads, NEW r \in Runs,
                          Executes(u, r)', Executes(v, r)'
                   PROVE  u = v
      BY DEF OneExecutor
    <3>2. QED
      BY <2>2, <2>3, <3>1 DEF OwnershipInv, OneExecutor
  <2>6. ExecutedRunIsStarted'
    BY <2>2, <2>4 DEF OwnershipInv, ExecutedRunIsStarted
  <2>7. RunningIsOwned'
    BY <2>1, <2>2, <2>4 DEF OwnershipInv, RunningIsOwned
  <2>8. QED
    BY <2>5, <2>6, <2>7 DEF OwnershipInv
<1>3. CASE Claim(w) /\ run[job[w]] # "queued"
  <2>1. Finish(w) /\ UNCHANGED <<run, orphaned>> /\ pc[w] = "claim"
    BY <1>3 DEF Claim
  <2>2. \A u \in Threads, r \in Runs : Executes(u, r)' <=> Executes(u, r)
    BY <2>1, FinishExecutes DEF TypeInv, Executes, LoopSteps
  <2>3. QED
    BY <2>1, <2>2, OwnershipKept
<1>4. CASE Prepare(w)
  <2>1. pc[w] = "prepare" /\ pc' = [pc EXCEPT ![w] = "chat"]
        /\ UNCHANGED <<mode, job, run, orphaned>>
    BY <1>4 DEF Prepare, Goto, KeepLoop, dbVars
  <2>2. \A u \in Threads, r \in Runs : Executes(u, r)' <=> Executes(u, r)
    BY <2>1 DEF Executes, TypeInv, TypeOK, ThreadTypes, LoopSteps
  <2>3. QED
    BY <2>1, <2>2, OwnershipKept
<1>5. QED
  BY <1>1, <1>2, <1>3, <1>4 DEF WorkerStep

LEMMA DecisionStepOwnership ==
  ASSUME TypeInv, OwnershipInv, NEW h \in Handlers, DecisionStep(h)
  PROVE  OwnershipInv'
<1> h \in Threads
  BY DEF Threads
<1>1. CASE DenyRun(h)
  BY <1>1, SettleOwnership DEF DenyRun, Outcomes
<1>2. CASE ~DenyRun(h)
  <2>1. /\ pc[h] \in DecisionSteps
        /\ \E step \in Steps : pc' = [pc EXCEPT ![h] = step]
        /\ UNCHANGED <<mode, job, run, orphaned>>
    BY <1>2 DEF MarkCall, MarkApproval, DecisionStep, Approve, BuildResume, Deny, DenyCall, Goto, KeepLoop, dbVars,
                DecisionSteps, LoopSteps, Steps
  <2>2. \A u \in Threads, r \in Runs : Executes(u, r)' <=> Executes(u, r)
    BY <2>1 DEF Executes, TypeInv, TypeOK, ThreadTypes, ModesAgree
  <2>3. QED
    BY <2>1, <2>2, OwnershipKept
<1>3. QED
  BY <1>1, <1>2

LEMMA ThreadRaisesOwnership ==
  ASSUME TypeInv, OwnershipInv, NEW t \in Threads, ThreadRaises(t)
  PROVE  OwnershipInv'
<1>1. ASSUME Finish(t), UNCHANGED run, orphaned \subseteq orphaned',
             \A r \in Runs : Executes(t, r) => r \in orphaned'
      PROVE  OwnershipInv'
  <2>1. \A u \in Threads, r \in Runs : Executes(u, r)' <=> (u # t /\ Executes(u, r))
    BY <1>1, FinishExecutes DEF TypeInv
  <2>2. QED
    BY <1>1, <2>1, OwnershipKept
<1>2. CASE PrepareRaises(t)
  BY <1>1, <1>2 DEF PrepareRaises, dbVars, Executes
<1>3. CASE KernelRaises(t) /\ mode[t] = "execute"
  <2>1. pc[t] \in LoopSteps /\ pc' = [pc EXCEPT ![t] = "fail"]
        /\ UNCHANGED <<mode, job, run, orphaned>>
    BY <1>3 DEF KernelRaises, Goto, KeepLoop, dbVars, LoopSteps
  <2>2. \A u \in Threads, r \in Runs : Executes(u, r)' <=> Executes(u, r)
    BY <2>1 DEF Executes, TypeInv, TypeOK, ThreadTypes, LoopSteps
  <2>3. QED
    BY <2>1, <2>2, OwnershipKept
<1>4. CASE KernelRaises(t) /\ mode[t] # "execute"
  BY <1>1, <1>4 DEF KernelRaises, dbVars, Executes
<1>5. CASE PersistRaises(t)
  BY <1>1, <1>5 DEF PersistRaises, dbVars, Executes
<1>6. CASE BuildResumeRaises(t)
  BY <1>1, <1>6 DEF BuildResumeRaises, dbVars, Executes, LoopSteps
<1>7. QED
  BY <1>2, <1>3, <1>4, <1>5, <1>6 DEF ThreadRaises

LEMMA UserStepOwnership ==
  ASSUME TypeInv, OwnershipInv, UserStep
  PROVE  OwnershipInv'
<1>1. ASSUME NEW r \in Runs, EnqueueSimple(r)
      PROVE  OwnershipInv'
  <2>1. \A u \in Threads, s \in Runs : Executes(u, s)' <=> Executes(u, s)
    BY <1>1 DEF EnqueueSimple, threadVars, Executes
  <2>2. \A s \in Runs : run'[s] = IF s = r THEN "queued" ELSE run[s]
    BY <1>1 DEF EnqueueSimple, TypeInv, TypeOK, DatabaseTypes
  <2>3. run[r] = "none" /\ orphaned' = orphaned
    BY <1>1 DEF EnqueueSimple
  <2>4. QED
    BY <2>1, <2>2, <2>3
       DEF OwnershipInv, OneExecutor, ExecutedRunIsStarted, RunningIsOwned
<1>2. ASSUME NEW h \in Handlers, NEW r \in Runs, ExecuteSimple(h, r)
      PROVE  OwnershipInv'
  <2>1. h \in Threads /\ pc[h] = "idle" /\ run[r] = "none" /\ orphaned' = orphaned
    BY <1>2 DEF ExecuteSimple, Threads
  <2>2. \A u \in Threads, s \in Runs :
          Executes(u, s)' <=> Executes(u, s) \/ (u = h /\ s = r)
    BY <1>2, <2>1 DEF ExecuteSimple, Begin, Goto, Executes, TypeInv, TypeOK, ThreadTypes,
                      LoopSteps
  <2>3. \A s \in Runs : run'[s] = IF s = r THEN "running" ELSE run[s]
    BY <1>2 DEF ExecuteSimple, TypeInv, TypeOK, DatabaseTypes
  <2>4. \A u \in Threads : ~Executes(u, r)
    BY <2>1 DEF OwnershipInv, ExecutedRunIsStarted
  <2>5. OneExecutor'
    BY <2>2, <2>4 DEF OwnershipInv, OneExecutor
  <2>6. ExecutedRunIsStarted' /\ RunningIsOwned'
    BY <2>1, <2>2, <2>3 DEF OwnershipInv, ExecutedRunIsStarted, RunningIsOwned
  <2>7. QED
    BY <2>5, <2>6 DEF OwnershipInv
<1>3. ASSUME NEW h \in Handlers, NEW c \in Calls, NEW d \in {"approve", "deny"},
             Decide(h, c, d)
      PROVE  OwnershipInv'
  <2>1. \A u \in Threads, r \in Runs : Executes(u, r)' <=> Executes(u, r)
    BY <1>3 DEF Decide, Begin, Goto, Executes, TypeInv, TypeOK, ThreadTypes, LoopSteps
  <2>2. UNCHANGED <<run, orphaned>>
    BY <1>3 DEF Decide, dbVars
  <2>3. QED
    BY <2>1, <2>2, OwnershipKept
<1>4. ASSUME NEW l \in Levels, UpdatePermission(l)
      PROVE  OwnershipInv'
  BY <1>4 DEF SavePermission, UpdatePermission, threadVars, OwnershipInv, OneExecutor, ExecutedRunIsStarted,
              RunningIsOwned, Executes
<1>5. QED
  BY <1>1, <1>2, <1>3, <1>4 DEF UserStep

LEMMA CrashOwnership ==
  ASSUME TypeInv, OwnershipInv, Crash
  PROVE  OwnershipInv'
<1>1. \A t \in Threads, r \in Runs : ~Executes(t, r)'
  BY DEF Crash, Executes, LoopSteps
<1>2. UNCHANGED run /\ orphaned \subseteq orphaned'
      /\ \A t \in Threads, r \in Runs : Executes(t, r) => r \in orphaned'
  BY DEF Crash, dbVars
<1>3. QED
  BY <1>1, <1>2, OwnershipKept

LEMMA OwnershipInductive ==
  /\ Init => OwnershipInv
  /\ TypeInv /\ OwnershipInv /\ [Next]_vars => OwnershipInv'
<1>1. Init => OwnershipInv
  BY DEF Init, OwnershipInv, OneExecutor, ExecutedRunIsStarted, RunningIsOwned, Executes, LoopSteps
<1>2. ASSUME TypeInv, OwnershipInv, Next
      PROVE  OwnershipInv'
  BY <1>2, CrashOwnership, UserStepOwnership, WorkerStepOwnership, DecisionStepOwnership,
     KernelStepOwnership, ThreadRaisesOwnership DEF Next
<1>3. ASSUME OwnershipInv, UNCHANGED vars
      PROVE  OwnershipInv'
  BY <1>3 DEF vars, dbVars, threadVars, OwnershipInv, OneExecutor, ExecutedRunIsStarted,
              RunningIsOwned, Executes
<1>4. QED
  BY <1>1, <1>2, <1>3

\* However many workers and HTTP requests run, a task run is executed by at most
\* one thread: the guarded UPDATE of claim_next_queued_execution_run is enough.
THEOREM OneExecutorPerRun == Spec => []OneExecutor
<1>1. Spec => []TypeInv
  BY InitTypes, NextTypes, PTL DEF Spec
<1>2. Spec => []OwnershipInv
  BY <1>1, OwnershipInductive, PTL DEF Spec
<1>3. OwnershipInv => OneExecutor
  BY DEF OwnershipInv
<1>4. QED
  BY <1>2, <1>3, PTL

\* A run is `running` only while a thread executes it, unless the thread was
\* lost with its process or could not prepare or commit: whatever else goes
\* wrong in process_next_queued_execution, the run leaves `running`.
THEOREM RunningRunsAreOwned == Spec => []RunningIsOwned
<1>1. Spec => []TypeInv
  BY InitTypes, NextTypes, PTL DEF Spec
<1>2. Spec => []OwnershipInv
  BY <1>1, OwnershipInductive, PTL DEF Spec
<1>3. OwnershipInv => RunningIsOwned
  BY DEF OwnershipInv
<1>4. QED
  BY <1>2, <1>3, PTL

-----------------------------------------------------------------------------
(* The order of the queue.                                                  *)
(*                                                                         *)
(* The worker that claims a run chose it with a SELECT of an earlier        *)
(* transaction.  Its choice is still the oldest when the claim succeeds      *)
(* because positions only grow: a run accepted in between comes later.      *)

Accepted == {r \in Runs : created[r] > 0}

\* A run has a position from its acceptance on, and none lies ahead of the next.
PositionsGrow ==
  \A r \in Runs : (run[r] = "none" => created[r] = 0) /\ created[r] < NextPosition

\* What a worker is about to claim is no younger than anything still queued.
ClaimsOldest(t) ==
  pc[t] = "claim" =>
    /\ run[job[t]] # "none"
    /\ run[job[t]] = "queued" =>
         \A r \in Runs : run[r] = "queued" => created[job[t]] <= created[r]

QueueInv == PositionsGrow /\ \A t \in Threads : ClaimsOldest(t)

LEMMA QueueKept ==
  ASSUME TypeInv, QueueInv, UNCHANGED created,
         \A r \in Runs : run'[r] \in {"none", "queued"} => run'[r] = run[r],
         \A t \in Threads : pc'[t] = "claim" => pc[t] = "claim" /\ job'[t] = job[t]
  PROVE  QueueInv'
<1>1. \A t \in Threads : pc[t] = "claim" => job[t] \in Runs
  BY DEF TypeInv, JobsAreRuns, ModesAgree
<1>2. PositionsGrow'
  BY DEF QueueInv, PositionsGrow, NextPosition
<1>3. ASSUME NEW t \in Threads
      PROVE  ClaimsOldest(t)'
  BY <1>1 DEF QueueInv, ClaimsOldest
<1>4. QED
  BY <1>2, <1>3 DEF QueueInv

\* Accepting a run takes a position after all the others.
LEMMA AcceptQueue ==
  ASSUME TypeInv, QueueInv, NEW r \in Runs, NEW s \in {"queued", "running"},
         run[r] = "none", run' = [run EXCEPT ![r] = s],
         created' = [created EXCEPT ![r] = NextPosition],
         \A t \in Threads : pc'[t] = "claim" => pc[t] = "claim" /\ job'[t] = job[t]
  PROVE  QueueInv'
<1> USE DEF TypeInv, TypeOK, DatabaseTypes
<1>1. NextPosition \in Nat /\ NextPosition > 0
  <2>1. IsFiniteSet(Accepted) /\ Cardinality(Accepted) \in Nat
    BY ConstantsAssumption, FS_Subset, FS_CardinalityType DEF Accepted
  <2>2. QED
    BY <2>1 DEF NextPosition, Accepted
<1>2. /\ created[r] = 0 /\ created'[r] = NextPosition /\ run'[r] = s
      /\ \A q \in Runs \ {r} : created'[q] = created[q] /\ run'[q] = run[q]
  BY DEF QueueInv, PositionsGrow
<1>3. NextPosition' = NextPosition + 1
  <2>1. Accepted' = Accepted \cup {r} /\ r \notin Accepted
    BY <1>1, <1>2 DEF Accepted
  <2>2. IsFiniteSet(Accepted)
    BY ConstantsAssumption, FS_Subset DEF Accepted
  <2>3. Cardinality(Accepted') = Cardinality(Accepted) + 1
    BY <2>1, <2>2, FS_AddElement
  <2>4. NextPosition = Cardinality(Accepted) + 1 /\ NextPosition' = Cardinality(Accepted') + 1
    BY DEF NextPosition, Accepted
  <2>5. QED
    BY <2>3, <2>4
<1>4. PositionsGrow'
  <2>1. ASSUME NEW q \in Runs
        PROVE  (run'[q] = "none" => created'[q] = 0) /\ created'[q] < NextPosition'
    <3>1. created[q] \in Nat /\ (run[q] = "none" => created[q] = 0) /\ created[q] < NextPosition
      BY DEF QueueInv, PositionsGrow
    <3>2. QED
      BY <1>1, <1>2, <1>3, <3>1
  <2>2. QED
    BY <2>1 DEF PositionsGrow
<1>5. ASSUME NEW t \in Threads, pc'[t] = "claim"
      PROVE  ClaimsOldest(t)'
  <2>1. pc[t] = "claim" /\ job'[t] = job[t] /\ job[t] \in Runs
    BY <1>5 DEF JobsAreRuns, ModesAgree
  <2>2. job[t] # r /\ run'[job[t]] = run[job[t]] /\ created'[job[t]] = created[job[t]]
    BY <1>2, <2>1 DEF QueueInv, ClaimsOldest
  <2>3. created[job[t]] \in Nat /\ created[job[t]] < NextPosition
    BY <2>1 DEF QueueInv, PositionsGrow
  <2>4. ASSUME NEW q \in Runs, run[job[t]] = "queued", run'[q] = "queued"
        PROVE  created[job[t]] <= created'[q]
    <3>1. CASE q = r
      BY <1>1, <1>2, <2>3, <3>1
    <3>2. CASE q # r
      BY <1>2, <2>1, <2>4, <3>2 DEF QueueInv, ClaimsOldest
    <3>3. QED
      BY <3>1, <3>2
  <2>5. QED
    BY <2>1, <2>2, <2>4 DEF QueueInv, ClaimsOldest
<1>6. QED
  BY <1>4, <1>5 DEF QueueInv, ClaimsOldest

\* A worker selects the oldest of what is queued at that moment.
LEMMA WorkerStepQueue ==
  ASSUME TypeInv, QueueInv, NEW w \in Workers, WorkerStep(w)
  PROVE  QueueInv'
<1> USE DEF TypeInv, TypeOK, DatabaseTypes, ThreadTypes, Threads
<1>1. CASE SelectQueued(w)
  <2>1. PICK r \in Runs : /\ run[r] = "queued"
                          /\ \A s \in Runs : run[s] = "queued" => created[r] <= created[s]
                          /\ Begin(w, "claim", "execute", r, NoCall)
    BY <1>1 DEF SelectQueued
  <2>2. job'[w] = r /\ \A u \in Threads \ {w} : pc'[u] = pc[u] /\ job'[u] = job[u]
    BY <2>1 DEF Begin, Goto
  <2>3. UNCHANGED <<run, created>>
    BY <1>1 DEF SelectQueued, dbVars
  <2>4. PositionsGrow'
    BY <2>3 DEF QueueInv, PositionsGrow, NextPosition
  <2>5. ASSUME NEW u \in Threads
        PROVE  ClaimsOldest(u)'
    BY <2>1, <2>2, <2>3 DEF QueueInv, ClaimsOldest
  <2>6. QED
    BY <2>4, <2>5 DEF QueueInv
<1>2. CASE Claim(w)
  <2>1. /\ \A u \in Threads : pc'[u] = "claim" => pc[u] = "claim" /\ job'[u] = job[u]
        /\ UNCHANGED created
    BY <1>2 DEF Claim, Finish, Begin, Goto, KeepLoop
  <2>2. \A r \in Runs : run'[r] \in {"none", "queued"} => run'[r] = run[r]
    BY <1>2 DEF Claim
  <2>3. QED
    BY <2>1, <2>2, QueueKept
<1>3. CASE Prepare(w)
  BY <1>3, QueueKept DEF Prepare, Goto, KeepLoop, dbVars
<1>4. QED
  BY <1>1, <1>2, <1>3 DEF WorkerStep

\* The steps of a thread that has its run already: they settle it or leave it.
LEMMA ThreadStepQueue ==
  ASSUME TypeInv, QueueInv, NEW t \in Threads,
         KernelStep(t) \/ DecisionStep(t) \/ ThreadRaises(t)
  PROVE  QueueInv'
<1> USE DEF TypeInv, TypeOK, DatabaseTypes, ThreadTypes
<1>1. /\ \A u \in Threads : pc'[u] = "claim" => pc[u] = "claim" /\ job'[u] = job[u]
      /\ UNCHANGED created
  <2>1. ASSUME NEW step \in Steps \ {"claim"}, Goto(t, step), UNCHANGED <<job, created>>
        PROVE  <1>1!1 /\ <1>1!2
    BY <2>1 DEF Goto
  <2>2. ASSUME Finish(t), UNCHANGED created
        PROVE  <1>1!1 /\ <1>1!2
    BY <2>2 DEF Finish, Begin, Goto
  <2>3. CASE KernelStep(t)
    BY <2>1, <2>2, <2>3
       DEF KernelStep, Answer, RequestTool, UseOtherTools, Refuse, Authorise, MarkAwaiting, Invoke,
           RecordCompleted, RecordFailed, EndTurn, Persist, PersistFailure, Settle,
           KeepJob, KeepLoop, dbVars, Steps, LoopSteps
  <2>4. CASE DecisionStep(t)
    BY <2>1, <2>2, <2>4
       DEF DecisionStep, Approve, BuildResume, Deny, DenyCall, DenyRun, Settle, KeepLoop,
           dbVars, Steps, LoopSteps, DecisionSteps
  <2>5. CASE ThreadRaises(t)
    BY <2>1, <2>2, <2>5
       DEF ThreadRaises, PrepareRaises, KernelRaises, PersistRaises, BuildResumeRaises,
           KeepLoop, dbVars, Steps, LoopSteps
  <2>6. QED
    BY <2>3, <2>4, <2>5
<1>2. UNCHANGED run \/ \E s \in Outcomes : run' = [run EXCEPT ![job[t]] = s]
  BY DEF KernelStep, Answer, RequestTool, UseOtherTools, Refuse, Authorise, MarkAwaiting, Invoke,
         RecordCompleted, RecordFailed, EndTurn, Persist, PersistFailure, DecisionStep,
         Approve, BuildResume, Deny, DenyCall, DenyRun, Settle, ThreadRaises,
         PrepareRaises, KernelRaises, PersistRaises, BuildResumeRaises, dbVars, Outcomes
<1>3. \A r \in Runs : run'[r] \in {"none", "queued"} => run'[r] = run[r]
  BY <1>2 DEF Outcomes
<1>4. QED
  BY <1>1, <1>3, QueueKept

LEMMA UserStepQueue ==
  ASSUME TypeInv, QueueInv, UserStep
  PROVE  QueueInv'
<1> USE DEF TypeInv, TypeOK, ThreadTypes, Threads
<1>1. ASSUME NEW r \in Runs, EnqueueSimple(r)
      PROVE  QueueInv'
  BY <1>1, AcceptQueue DEF EnqueueSimple, threadVars
<1>2. ASSUME NEW h \in Handlers, NEW r \in Runs, ExecuteSimple(h, r)
      PROVE  QueueInv'
  <2>1. \A u \in Threads : pc'[u] = "claim" => pc[u] = "claim" /\ job'[u] = job[u]
    BY <1>2 DEF ExecuteSimple, Begin, Goto
  <2>2. QED
    BY <1>2, <2>1, AcceptQueue DEF ExecuteSimple
<1>3. ASSUME NEW h \in Handlers, NEW c \in Calls, NEW d \in {"approve", "deny"},
             Decide(h, c, d)
      PROVE  QueueInv'
  <2>1. \A u \in Threads : pc'[u] = "claim" => pc[u] = "claim" /\ job'[u] = job[u]
    BY <1>3 DEF Decide, Begin, Goto
  <2>2. QED
    BY <1>3, <2>1, QueueKept DEF Decide, dbVars
<1>4. ASSUME NEW l \in Levels, UpdatePermission(l)
      PROVE  QueueInv'
  BY <1>4, QueueKept DEF UpdatePermission, threadVars
<1>5. QED
  BY <1>1, <1>2, <1>3, <1>4 DEF UserStep

LEMMA QueueInductive ==
  /\ Init => QueueInv
  /\ TypeInv /\ QueueInv /\ [Next]_vars => QueueInv'
<1>1. ASSUME Init
      PROVE  QueueInv
  <2>1. IsFiniteSet({r \in Runs : created[r] > 0})
    BY ConstantsAssumption, FS_Subset
  <2>2. NextPosition > 0
    BY <2>1, FS_CardinalityType DEF NextPosition
  <2>3. QED
    BY <1>1, <2>2 DEF Init, QueueInv, PositionsGrow, ClaimsOldest
<1>2. ASSUME TypeInv, QueueInv, Next
      PROVE  QueueInv'
  <2>1. CASE Crash
    BY <1>2, <2>1, QueueKept DEF Crash, dbVars
  <2>2. QED
    BY <1>2, <2>1, UserStepQueue, WorkerStepQueue, ThreadStepQueue DEF Next, Threads
<1>3. ASSUME TypeInv, QueueInv, UNCHANGED vars
      PROVE  QueueInv'
  BY <1>3, QueueKept DEF vars, dbVars, threadVars
<1>4. QED
  BY <1>1, <1>2, <1>3

\* A queued run is started by a claim and by nothing else.
LEMMA OnlyClaimsStart ==
  ASSUME TypeInv, [Next]_vars, NEW s \in Runs, run[s] = "queued", run'[s] = "running"
  PROVE  \E w \in Workers : /\ pc[w] = "claim" /\ job[w] = s
                           /\ run' = [run EXCEPT ![s] = "running"]
<1> USE DEF TypeInv, TypeOK, DatabaseTypes
<1> DEFINE Goal == \E w \in Workers : /\ pc[w] = "claim" /\ job[w] = s
                                     /\ run' = [run EXCEPT ![s] = "running"]
<1>1. ASSUME NEW w \in Workers, WorkerStep(w)
      PROVE  Goal
  BY <1>1 DEF WorkerStep, SelectQueued, Claim, Prepare, dbVars
<1>2. CASE UserStep
  BY <1>2 DEF UserStep, EnqueueSimple, ExecuteSimple, Decide, UpdatePermission, dbVars
<1>3. ASSUME NEW t \in Threads, KernelStep(t) \/ DecisionStep(t) \/ ThreadRaises(t)
      PROVE  Goal
  <2>1. outcome[t] \in Outcomes
    BY DEF ThreadTypes
  <2>2. UNCHANGED run \/ \E o \in Outcomes : run' = [run EXCEPT ![job[t]] = o]
    BY <1>3, <2>1
       DEF KernelStep, Answer, RequestTool, UseOtherTools, Refuse, Authorise, MarkAwaiting, Invoke,
           RecordCompleted, RecordFailed, EndTurn, Persist, PersistFailure, DecisionStep,
           Approve, BuildResume, Deny, DenyCall, DenyRun, Settle, ThreadRaises,
           PrepareRaises, KernelRaises, PersistRaises, BuildResumeRaises, dbVars, Outcomes
  <2>3. QED
    BY <2>2 DEF Outcomes
<1>4. CASE Crash \/ UNCHANGED vars
  BY <1>4 DEF Crash, vars, dbVars
<1>5. QED
  BY <1>1, <1>2, <1>3, <1>4 DEF Next, Threads

\* Executions start in the order in which they were accepted, although every
\* worker chooses its run in one transaction and claims it in another.
THEOREM AcceptedFirstStartsFirst == Spec => OldestFirst
<1>1. ASSUME TypeInv, QueueInv, [Next]_vars
      PROVE  [\A r, s \in Runs :
                (run[r] = "queued" /\ run[s] = "queued" /\ created[r] < created[s])
                  => ~(run'[s] = "running" /\ run'[r] = "queued")]_vars
  <2>1. SUFFICES ASSUME NEW r \in Runs, NEW s \in Runs, run[r] = "queued",
                        run[s] = "queued", created[r] < created[s], run'[s] = "running"
                 PROVE  FALSE
    OBVIOUS
  <2>2. PICK w \in Workers : pc[w] = "claim" /\ job[w] = s
    BY <1>1, <2>1, OnlyClaimsStart
  <2>3. created[s] <= created[r] /\ created[r] \in Nat /\ created[s] \in Nat
    BY <1>1, <2>1, <2>2 DEF QueueInv, ClaimsOldest, Threads, TypeInv, TypeOK, DatabaseTypes
  <2>4. QED
    BY <2>1, <2>3
<1>2. Spec => []TypeInv
  BY InitTypes, NextTypes, PTL DEF Spec
<1>3. Spec => []QueueInv
  BY <1>2, QueueInductive, PTL DEF Spec
<1>4. QED
  BY <1>1, <1>2, <1>3, PTL DEF Spec, OldestFirst

-----------------------------------------------------------------------------
(* Approvals.                                                               *)
(*                                                                         *)
(* That no tool runs undecided is not inductive: a kernel could create an   *)
(* approval for a call whose tool already ran, or a handler could invoke the *)
(* tool of a call that somebody else is still authorising.  The             *)
(* strengthening says which calls are fresh, which are decided, and that a   *)
(* call which is being authorised belongs to the thread that created it.     *)
\* A row that does not exist has no approval and no effect.
UnusedCalls ==
  \A c \in Calls : call[c].status = "none" => approval[c] = "none" /\ executed[c] = 0

\* Threads that have a call in their hands work on a row that exists.
HoldsCall(t) == pc[t] \in {"authorise", "invoke", "approve", "deny", "build"}

HeldCallsExist ==
  \A t \in Threads : HoldsCall(t) => tool[t] \in Calls /\ call[tool[t]].status # "none"

\* A call that is being authorised is untouched and has one thread.
AuthorisedCallsFresh ==
  \A t \in Threads :
    pc[t] = "authorise" => approval[tool[t]] = "none" /\ executed[tool[t]] = 0

AuthorisedCallsOwned ==
  \A t, u \in Threads :
    pc[t] = "authorise" /\ pc[u] \in {"authorise", "invoke"} /\ tool[t] = tool[u] => t = u

\* A tool is about to run only without an approval or after its decision.
InvokedCallsFree ==
  \A t \in Threads : pc[t] = "invoke" => approval[tool[t]] # "pending"

\* The handlers decide approvals that exist, and run the tool after the decision.
DecisionsExist ==
  \A t \in Threads :
    /\ pc[t] \in {"approve", "deny"} => approval[tool[t]] # "none"
    /\ pc[t] = "build" => approval[tool[t]] \in {"approved", "denied"}

ApprovalInv ==
  /\ NoToolRunsUndecided
  /\ UnusedCalls
  /\ HeldCallsExist
  /\ AuthorisedCallsFresh
  /\ AuthorisedCallsOwned
  /\ InvokedCallsFree
  /\ DecisionsExist

-----------------------------------------------------------------------------

\* A step of one thread that ends up holding no call, or the call it held in the
\* same step, and leaves approvals and effects alone, keeps the invariant.
LEMMA HandsEmptied ==
  ASSUME TypeInv, ApprovalInv, NEW t \in Threads,
         UNCHANGED <<approval, executed>>,
         \A c \in Calls : call'[c].status = "none" => call[c].status = "none",
         \A u \in Threads : u # t => pc'[u] = pc[u] /\ tool'[u] = tool[u],
         pc'[t] \notin {"authorise", "invoke", "approve", "deny", "build"}
  PROVE  ApprovalInv'
<1>1. NoToolRunsUndecided'
  BY DEF ApprovalInv, NoToolRunsUndecided
<1>2. UnusedCalls'
  BY DEF ApprovalInv, UnusedCalls
<1>3. HeldCallsExist'
  BY DEF ApprovalInv, HeldCallsExist, HoldsCall
<1>4. AuthorisedCallsFresh'
  BY DEF ApprovalInv, AuthorisedCallsFresh
<1>5. AuthorisedCallsOwned'
  BY DEF ApprovalInv, AuthorisedCallsOwned
<1>6. InvokedCallsFree'
  BY DEF ApprovalInv, InvokedCallsFree
<1>7. DecisionsExist'
  BY DEF ApprovalInv, DecisionsExist
<1>8. QED
  BY <1>1, <1>2, <1>3, <1>4, <1>5, <1>6, <1>7 DEF ApprovalInv

\* Returning from a handler or a tick, whatever it wrote to runs.
LEMMA FinishApproval ==
  ASSUME TypeInv, ApprovalInv, NEW t \in Threads, Finish(t),
         UNCHANGED <<call, approval, executed>>
  PROVE  ApprovalInv'
<1>1. \A u \in Threads : u # t => pc'[u] = pc[u] /\ tool'[u] = tool[u]
  BY DEF Finish, Begin, Goto, TypeInv, TypeOK, ThreadTypes
<1>2. pc'[t] = "idle"
  BY DEF Finish, Begin, Goto, TypeInv, TypeOK, ThreadTypes
<1>3. QED
  BY <1>1, <1>2, HandsEmptied

LEMMA RequestToolApproval ==
  ASSUME TypeInv, ApprovalInv, NEW t \in Threads, NEW c \in Calls, NEW inScope \in BOOLEAN,
         RequestTool(t, c, inScope)
  PROVE  ApprovalInv'
<1>1. /\ call[c].status = "none" /\ approval[c] = "none" /\ executed[c] = 0
      /\ \A u \in Threads : HoldsCall(u) => tool[u] # c
  BY DEF CreateCall, RequestTool, ApprovalInv, UnusedCalls, HeldCallsExist
<1>2. /\ \A d \in Calls : call'[d].status = IF d = c THEN "requested" ELSE call[d].status
      /\ UNCHANGED <<approval, executed>>
  BY DEF CreateCall, RequestTool, TypeInv, TypeOK, DatabaseTypes
<1>3. /\ \A u \in Threads : u # t => pc'[u] = pc[u] /\ tool'[u] = tool[u]
      /\ pc'[t] \in {"authorise", "refuse"} /\ tool'[t] = c
  BY DEF CreateCall, RequestTool, Goto, TypeInv, TypeOK, ThreadTypes
<1>4. NoToolRunsUndecided'
  BY <1>2 DEF ApprovalInv, NoToolRunsUndecided
<1>5. UnusedCalls'
  BY <1>2 DEF ApprovalInv, UnusedCalls
<1>6. HeldCallsExist'
  BY <1>2, <1>3 DEF ApprovalInv, HeldCallsExist, HoldsCall
<1>7. AuthorisedCallsFresh'
  BY <1>1, <1>2, <1>3 DEF ApprovalInv, AuthorisedCallsFresh
<1>8. AuthorisedCallsOwned'
  BY <1>1, <1>3 DEF ApprovalInv, AuthorisedCallsOwned, HoldsCall
<1>9. InvokedCallsFree'
  BY <1>2, <1>3 DEF ApprovalInv, InvokedCallsFree
<1>10. DecisionsExist'
  BY <1>2, <1>3 DEF ApprovalInv, DecisionsExist
<1>11. QED
  BY <1>4, <1>5, <1>6, <1>7, <1>8, <1>9, <1>10 DEF ApprovalInv

\* A call that is being authorised is not the call of a decision.
LEMMA AuthorisedIsNotDecided ==
  ASSUME ApprovalInv, NEW t \in Threads, NEW u \in Threads,
         pc[t] = "authorise", pc[u] \in {"approve", "deny", "build"}
  PROVE  tool[t] # tool[u]
BY DEF ApprovalInv, AuthorisedCallsFresh, DecisionsExist

LEMMA AuthoriseApproval ==
  ASSUME TypeInv, ApprovalInv, NEW t \in Threads, Authorise(t)
  PROVE  ApprovalInv'
<1>1. /\ pc[t] = "authorise" /\ tool[t] \in Calls /\ call[tool[t]].status # "none"
      /\ approval[tool[t]] = "none" /\ executed[tool[t]] = 0
      /\ UNCHANGED <<call, tool, executed>>
  BY DEF AskApproval, Authorise, KeepLoop, ApprovalInv, HeldCallsExist, HoldsCall, AuthorisedCallsFresh
<1>2. \A u \in Threads : u # t => pc'[u] = pc[u]
  BY DEF AskApproval, Authorise, Goto, TypeInv, TypeOK, ThreadTypes
<1>3. CASE UNCHANGED approval
  <2>1. pc'[t] \in {"refuse", "invoke", "recordFailed", "mark"}
    BY <1>1 DEF AskApproval, Authorise, Goto, TypeInv, TypeOK, ThreadTypes
  <2>2. AuthorisedCallsOwned'
    BY <1>1, <1>2, <2>1 DEF ApprovalInv, AuthorisedCallsOwned
  <2>3. InvokedCallsFree'
    BY <1>1, <1>2, <1>3, <2>1 DEF ApprovalInv, InvokedCallsFree
  <2>4. HeldCallsExist' /\ AuthorisedCallsFresh' /\ DecisionsExist'
    BY <1>1, <1>2, <1>3, <2>1
       DEF ApprovalInv, HeldCallsExist, HoldsCall, AuthorisedCallsFresh, DecisionsExist
  <2>5. NoToolRunsUndecided' /\ UnusedCalls'
    BY <1>1, <1>3 DEF ApprovalInv, NoToolRunsUndecided, UnusedCalls
  <2>6. QED
    BY <2>2, <2>3, <2>4, <2>5 DEF ApprovalInv
<1>4. CASE approval' = [approval EXCEPT ![tool[t]] = "pending"] /\ Goto(t, "mark")
  <2>1. pc'[t] = "mark"
    BY <1>4 DEF Goto, TypeInv, TypeOK, ThreadTypes
  <2>2. \A c \in Calls : approval'[c] = IF c = tool[t] THEN "pending" ELSE approval[c]
    BY <1>4 DEF TypeInv, TypeOK, DatabaseTypes
  <2>3. \A u \in Threads : u # t /\ HoldsCall(u) => tool[u] # tool[t] /\ tool[u] \in Calls
    BY <1>1, AuthorisedIsNotDecided
       DEF ApprovalInv, AuthorisedCallsOwned, HoldsCall, HeldCallsExist
  <2>4. NoToolRunsUndecided' /\ UnusedCalls'
    BY <1>1, <2>2 DEF ApprovalInv, NoToolRunsUndecided, UnusedCalls
  <2>5. HeldCallsExist' /\ AuthorisedCallsOwned'
    BY <1>1, <1>2, <2>1 DEF ApprovalInv, HeldCallsExist, HoldsCall, AuthorisedCallsOwned
  <2>6. AuthorisedCallsFresh' /\ InvokedCallsFree' /\ DecisionsExist'
    BY <1>1, <1>2, <2>1, <2>2, <2>3
       DEF ApprovalInv, HoldsCall, AuthorisedCallsFresh, InvokedCallsFree, DecisionsExist
  <2>7. QED
    BY <2>4, <2>5, <2>6 DEF ApprovalInv
<1>5. QED
  BY <1>3, <1>4 DEF AskApproval, Authorise

LEMMA InvokeApproval ==
  ASSUME TypeInv, ApprovalInv, NEW t \in Threads, Invoke(t)
  PROVE  ApprovalInv'
<1>1. /\ pc[t] = "invoke" /\ tool[t] \in Calls /\ call[tool[t]].status # "none"
      /\ approval[tool[t]] # "pending"
      /\ UNCHANGED <<call, approval, tool>>
  BY DEF Invoke, KeepLoop, dbVars, ApprovalInv, HeldCallsExist, HoldsCall, InvokedCallsFree
<1>2. /\ \A u \in Threads : u # t => pc'[u] = pc[u]
      /\ pc'[t] \in {"recordCompleted", "recordFailed"}
  BY DEF Invoke, Goto, TypeInv, TypeOK, ThreadTypes
<1>3. \A c \in Calls : c # tool[t] => executed'[c] = executed[c]
  BY DEF Invoke, TypeInv, TypeOK
<1>4. \A u \in Threads : pc[u] = "authorise" => tool[u] # tool[t] /\ tool[u] \in Calls
  BY <1>1 DEF ApprovalInv, AuthorisedCallsOwned, HeldCallsExist, HoldsCall
<1>5. NoToolRunsUndecided' /\ UnusedCalls'
  BY <1>1, <1>3 DEF ApprovalInv, NoToolRunsUndecided, UnusedCalls
<1>6. AuthorisedCallsFresh'
  BY <1>1, <1>2, <1>3, <1>4 DEF ApprovalInv, AuthorisedCallsFresh
<1>7. HeldCallsExist' /\ AuthorisedCallsOwned' /\ InvokedCallsFree' /\ DecisionsExist'
  BY <1>1, <1>2
     DEF ApprovalInv, HeldCallsExist, HoldsCall, AuthorisedCallsOwned, InvokedCallsFree,
         DecisionsExist
<1>8. QED
  BY <1>5, <1>6, <1>7 DEF ApprovalInv

\* The other steps of the kernel put no call into the thread's hands.
LEMMA KernelStepApproval ==
  ASSUME TypeInv, ApprovalInv, NEW t \in Threads, KernelStep(t)
  PROVE  ApprovalInv'
<1>1. ASSUME NEW c \in Calls, NEW inScope \in BOOLEAN, RequestTool(t, c, inScope)
      PROVE  ApprovalInv'
  BY <1>1, RequestToolApproval
<1>2. CASE Authorise(t)
  BY <1>2, AuthoriseApproval
<1>3. CASE Invoke(t)
  BY <1>3, InvokeApproval
<1>4. CASE Persist(t) \/ PersistFailure(t)
  BY <1>4, FinishApproval DEF Persist, PersistFailure, Settle
<1>5. ASSUME NEW step \in {"tools", "chat", "persist"}, Goto(t, step),
             UNCHANGED <<approval, executed>>,
             tool' = tool \/ tool' = [tool EXCEPT ![t] = NoCall],
             \A c \in Calls : call'[c].status = "none" => call[c].status = "none"
      PROVE  ApprovalInv'
  <2>1. /\ \A u \in Threads : u # t => pc'[u] = pc[u] /\ tool'[u] = tool[u]
        /\ pc'[t] = step
    BY <1>5 DEF Goto, TypeInv, TypeOK, ThreadTypes
  <2>2. QED
    BY <1>5, <2>1, HandsEmptied
<1>6. CASE Answer(t) \/ UseOtherTools(t)
  BY <1>5, <1>6 DEF Answer, UseOtherTools, dbVars
<1>7. CASE Refuse(t)
  BY <1>5, <1>7 DEF MarkCall, Refuse, TypeInv, TypeOK, DatabaseTypes
<1>8. CASE MarkAwaiting(t)
  BY <1>5, <1>8 DEF MarkCall, MarkAwaiting, TypeInv, TypeOK, DatabaseTypes
<1>9. CASE RecordCompleted(t)
  BY <1>5, <1>9 DEF MarkCall, RecordCompleted, TypeInv, TypeOK, DatabaseTypes
<1>10. CASE RecordFailed(t)
  BY <1>5, <1>10 DEF MarkCall, RecordFailed, TypeInv, TypeOK, DatabaseTypes
<1>11. CASE EndTurn(t)
  BY <1>5, <1>11 DEF EndTurn, KeepLoop, dbVars
<1>12. QED
  BY <1>1, <1>2, <1>3, <1>4, <1>6, <1>7, <1>8, <1>9, <1>10, <1>11 DEF KernelStep

LEMMA DecisionStepApproval ==
  ASSUME TypeInv, ApprovalInv, NEW h \in Handlers, DecisionStep(h)
  PROVE  ApprovalInv'
<1> h \in Threads
  BY DEF Threads
<1>1. ASSUME NEW s \in {"approved", "denied"}, pc[h] \in {"approve", "deny"},
             approval' = [approval EXCEPT ![tool[h]] = s],
             NEW step \in {"build", "denyCall"}, Goto(h, step),
             UNCHANGED <<call, tool, executed>>
      PROVE  ApprovalInv'
  <2>1. /\ tool[h] \in Calls /\ call[tool[h]].status # "none" /\ approval[tool[h]] # "none"
    BY <1>1 DEF ApprovalInv, HeldCallsExist, HoldsCall, DecisionsExist
  <2>2. \A c \in Calls : approval'[c] = IF c = tool[h] THEN s ELSE approval[c]
    BY <1>1 DEF TypeInv, TypeOK, DatabaseTypes
  <2>3. \A u \in Threads : pc'[u] = IF u = h THEN step ELSE pc[u]
    BY <1>1 DEF Goto, TypeInv, TypeOK, ThreadTypes
  <2>4. NoToolRunsUndecided' /\ UnusedCalls'
    BY <1>1, <2>1, <2>2 DEF ApprovalInv, NoToolRunsUndecided, UnusedCalls
  <2>5. AuthorisedCallsFresh'
    BY <1>1, <2>1, <2>2, <2>3, AuthorisedIsNotDecided
       DEF ApprovalInv, AuthorisedCallsFresh, HeldCallsExist, HoldsCall
  <2>6. HeldCallsExist' /\ AuthorisedCallsOwned' /\ InvokedCallsFree' /\ DecisionsExist'
    BY <1>1, <2>1, <2>2, <2>3
       DEF ApprovalInv, HeldCallsExist, HoldsCall, AuthorisedCallsOwned, InvokedCallsFree,
           DecisionsExist
  <2>7. QED
    BY <2>4, <2>5, <2>6 DEF ApprovalInv
<1>2. CASE Approve(h)
  BY <1>1, <1>2 DEF MarkApproval, Approve, KeepLoop
<1>3. CASE Deny(h)
  BY <1>1, <1>3 DEF MarkApproval, Deny, KeepLoop
<1>4. CASE BuildResume(h)
  <2>1. /\ pc[h] = "build" /\ UNCHANGED <<call, approval, tool, executed>>
        /\ \A u \in Threads : pc'[u] = IF u = h THEN "invoke" ELSE pc[u]
    BY <1>4 DEF BuildResume, KeepLoop, dbVars, Goto, TypeInv, TypeOK, ThreadTypes
  <2>2. AuthorisedCallsOwned'
    BY <2>1, AuthorisedIsNotDecided DEF ApprovalInv, AuthorisedCallsOwned
  <2>3. NoToolRunsUndecided' /\ UnusedCalls' /\ HeldCallsExist' /\ AuthorisedCallsFresh'
    BY <2>1 DEF ApprovalInv, NoToolRunsUndecided, UnusedCalls, HeldCallsExist, HoldsCall,
                AuthorisedCallsFresh
  <2>4. InvokedCallsFree' /\ DecisionsExist'
    BY <2>1 DEF ApprovalInv, InvokedCallsFree, DecisionsExist
  <2>5. QED
    BY <2>2, <2>3, <2>4 DEF ApprovalInv
<1>5. CASE DenyCall(h)
  <2>1. /\ \A u \in Threads : u # h => pc'[u] = pc[u] /\ tool'[u] = tool[u]
        /\ pc'[h] = "denyRun"
    BY <1>5 DEF MarkCall, DenyCall, Goto, KeepLoop, TypeInv, TypeOK, ThreadTypes
  <2>2. \A c \in Calls : call'[c].status = "none" => call[c].status = "none"
    BY <1>5 DEF MarkCall, DenyCall, TypeInv, TypeOK, DatabaseTypes
  <2>3. UNCHANGED <<approval, executed>>
    BY <1>5 DEF MarkCall, DenyCall
  <2>4. QED
    BY <2>1, <2>2, <2>3, HandsEmptied
<1>6. CASE DenyRun(h)
  BY <1>6, FinishApproval DEF DenyRun, Settle
<1>7. QED
  BY <1>2, <1>3, <1>4, <1>5, <1>6 DEF DecisionStep

LEMMA WorkerStepApproval ==
  ASSUME TypeInv, ApprovalInv, NEW w \in Workers, WorkerStep(w)
  PROVE  ApprovalInv'
<1> w \in Threads
  BY DEF Threads
<1>1. CASE Claim(w) /\ run[job[w]] # "queued"
  BY <1>1, FinishApproval DEF Claim
<1>2. CASE SelectQueued(w) \/ Prepare(w) \/ (Claim(w) /\ run[job[w]] = "queued")
  <2>1. /\ \A u \in Threads : u # w => pc'[u] = pc[u] /\ tool'[u] = tool[u]
        /\ pc'[w] \in {"claim", "prepare", "chat"}
        /\ UNCHANGED <<call, approval, executed>>
    BY <1>2 DEF SelectQueued, Prepare, Claim, Begin, Goto, KeepLoop, dbVars, TypeInv, TypeOK,
                ThreadTypes
  <2>2. QED
    BY <2>1, HandsEmptied
<1>3. QED
  BY <1>1, <1>2 DEF WorkerStep

LEMMA ThreadRaisesApproval ==
  ASSUME TypeInv, ApprovalInv, NEW t \in Threads, ThreadRaises(t)
  PROVE  ApprovalInv'
<1>1. CASE Finish(t)
  BY <1>1, FinishApproval
     DEF ThreadRaises, PrepareRaises, KernelRaises, PersistRaises, BuildResumeRaises, dbVars
<1>2. CASE KernelRaises(t) /\ mode[t] = "execute"
  <2>1. /\ \A u \in Threads : u # t => pc'[u] = pc[u] /\ tool'[u] = tool[u]
        /\ pc'[t] = "fail"
        /\ UNCHANGED <<call, approval, executed>>
    BY <1>2 DEF KernelRaises, Goto, KeepLoop, dbVars, TypeInv, TypeOK, ThreadTypes
  <2>2. QED
    BY <2>1, HandsEmptied
<1>3. QED
  BY <1>1, <1>2 DEF ThreadRaises, PrepareRaises, KernelRaises, PersistRaises, BuildResumeRaises

LEMMA UserStepApproval ==
  ASSUME TypeInv, ApprovalInv, UserStep
  PROVE  ApprovalInv'
<1>1. ASSUME UNCHANGED <<call, approval, pc, tool, executed>>
      PROVE  ApprovalInv'
  BY <1>1 DEF ApprovalInv, NoToolRunsUndecided, UnusedCalls, HeldCallsExist, HoldsCall,
              AuthorisedCallsFresh, AuthorisedCallsOwned, InvokedCallsFree, DecisionsExist
<1>2. ASSUME NEW r \in Runs, EnqueueSimple(r)
      PROVE  ApprovalInv'
  BY <1>1, <1>2 DEF EnqueueSimple, threadVars
<1>3. ASSUME NEW l \in Levels, UpdatePermission(l)
      PROVE  ApprovalInv'
  BY <1>1, <1>3 DEF SavePermission, UpdatePermission, threadVars
<1>4. ASSUME NEW h \in Handlers, NEW r \in Runs, ExecuteSimple(h, r)
      PROVE  ApprovalInv'
  <2>1. /\ h \in Threads /\ pc'[h] = "chat"
        /\ \A u \in Threads : u # h => pc'[u] = pc[u] /\ tool'[u] = tool[u]
        /\ UNCHANGED <<call, approval, executed>>
    BY <1>4 DEF ExecuteSimple, Begin, Goto, Threads, TypeInv, TypeOK, ThreadTypes
  <2>2. QED
    BY <2>1, HandsEmptied
<1>5. ASSUME NEW h \in Handlers, NEW c \in Calls, NEW d \in {"approve", "deny"},
             Decide(h, c, d)
      PROVE  ApprovalInv'
  <2>1. /\ h \in Threads /\ pc'[h] = d /\ tool'[h] = c /\ approval[c] = "pending"
        /\ \A u \in Threads : u # h => pc'[u] = pc[u] /\ tool'[u] = tool[u]
        /\ UNCHANGED <<call, approval, executed>>
    BY <1>5 DEF Decide, Begin, Goto, dbVars, Threads, TypeInv, TypeOK, ThreadTypes
  <2>2. call[c].status # "none"
    BY <2>1 DEF ApprovalInv, UnusedCalls
  <2>3. NoToolRunsUndecided' /\ UnusedCalls'
    BY <2>1 DEF ApprovalInv, NoToolRunsUndecided, UnusedCalls
  <2>4. HeldCallsExist' /\ DecisionsExist'
    BY <2>1, <2>2 DEF ApprovalInv, HeldCallsExist, HoldsCall, DecisionsExist
  <2>5. AuthorisedCallsFresh' /\ AuthorisedCallsOwned' /\ InvokedCallsFree'
    BY <2>1 DEF ApprovalInv, AuthorisedCallsFresh, AuthorisedCallsOwned, InvokedCallsFree
  <2>6. QED
    BY <2>3, <2>4, <2>5 DEF ApprovalInv
<1>6. QED
  BY <1>2, <1>3, <1>4, <1>5 DEF UserStep

LEMMA CrashApproval ==
  ASSUME ApprovalInv, Crash
  PROVE  ApprovalInv'
<1>1. \A t \in Threads : pc'[t] = "idle"
  BY DEF Crash
<1>2. UNCHANGED <<call, approval, executed>>
  BY DEF Crash, dbVars
<1>3. QED
  BY <1>1, <1>2
     DEF ApprovalInv, NoToolRunsUndecided, UnusedCalls, HeldCallsExist, HoldsCall,
         AuthorisedCallsFresh, AuthorisedCallsOwned, InvokedCallsFree, DecisionsExist

LEMMA ApprovalInductive ==
  /\ Init => ApprovalInv
  /\ TypeInv /\ ApprovalInv /\ [Next]_vars => ApprovalInv'
<1>1. Init => ApprovalInv
  BY DEF Init, ApprovalInv, NoToolRunsUndecided, UnusedCalls, HeldCallsExist, HoldsCall,
         AuthorisedCallsFresh, AuthorisedCallsOwned, InvokedCallsFree, DecisionsExist
<1>2. ASSUME TypeInv, ApprovalInv, Next
      PROVE  ApprovalInv'
  BY <1>2, CrashApproval, UserStepApproval, WorkerStepApproval, DecisionStepApproval,
     KernelStepApproval, ThreadRaisesApproval DEF Next
<1>3. ASSUME ApprovalInv, UNCHANGED vars
      PROVE  ApprovalInv'
  BY <1>3 DEF vars, dbVars, threadVars, ApprovalInv, NoToolRunsUndecided, UnusedCalls,
              HeldCallsExist, HoldsCall, AuthorisedCallsFresh, AuthorisedCallsOwned,
              InvokedCallsFree, DecisionsExist
<1>4. QED
  BY <1>1, <1>2, <1>3

\* The tool behind a pending approval has not run: the approval is committed
\* before the loop goes on, and a handler commits its decision before it invokes
\* the tool, so that no interleaving, crash or exception runs an undecided tool.
THEOREM UndecidedToolsDoNotRun == Spec => []NoToolRunsUndecided
<1>1. Spec => []TypeInv
  BY InitTypes, NextTypes, PTL DEF Spec
<1>2. Spec => []ApprovalInv
  BY <1>1, ApprovalInductive, PTL DEF Spec
<1>3. ApprovalInv => NoToolRunsUndecided
  BY DEF ApprovalInv
<1>4. QED
  BY <1>2, <1>3, PTL

-----------------------------------------------------------------------------
(* Deciding one approval at a time.                                         *)
(*                                                                         *)
(* Two handlers may both find an approval pending and both act on it: that   *)
(* is what RacingDecisions shows.  With one handler the check and the write  *)
(* are not interleaved with another decision, and a tool has its effect at   *)
(* most once.  The workers, their kernels, failures and crashes interleave   *)
(* as before.                                                               *)

\* The condition of the two theorems: requests are served one after the other.
SingleHandler == \A g, h \in Handlers : g = h

\* The threads that may still run the tool of the call in their hands.
MayRun(t) == pc[t] \in {"authorise", "approve", "build", "invoke"}

\* Decisions are taken by handlers.
DecidersAreHandlers == \A t \in Threads : pc[t] \in DecisionSteps => t \in Handlers

\* A tool that may still run has not run, and there is one thread that may run it.
RunsAhead ==
  \A t \in Threads : MayRun(t) =>
    /\ executed[tool[t]] = 0
    /\ \A u \in Threads : MayRun(u) /\ tool[u] = tool[t] => u = t

\* The decision in a handler's hands is still open, then the one it committed.
DecidesOpenApproval(t) ==
  /\ pc[t] \in {"approve", "deny"} => approval[tool[t]] = "pending"
  /\ pc[t] = "build" => approval[tool[t]] = "approved"
  /\ pc[t] = "invoke" => approval[tool[t]] # "denied"

DecisionInv ==
  /\ DecidersAreHandlers
  /\ RunsAhead
  /\ \A t \in Threads : DecidesOpenApproval(t)
  /\ ToolRunsAtMostOnce
  /\ DeniedToolNotExecuted

-----------------------------------------------------------------------------

\* A step after which its thread may run no tool it could not run before, and
\* that changes neither approvals nor effects.
LEMMA DecisionKept ==
  ASSUME TypeInv, DecisionInv, NEW t \in Threads, UNCHANGED <<approval, executed>>,
         \A u \in Threads : u # t => pc'[u] = pc[u] /\ tool'[u] = tool[u],
         pc'[t] \notin DecisionSteps \cup {"authorise", "invoke"}
           \/ (pc'[t] \in {"denyCall", "denyRun"} /\ t \in Handlers)
  PROVE  DecisionInv'
<1>1. DecidersAreHandlers'
  BY DEF DecisionInv, DecidersAreHandlers
<1>2. ~MayRun(t)' /\ DecidesOpenApproval(t)'
  BY DEF MayRun, DecidesOpenApproval, DecisionSteps
<1>3. RunsAhead'
  BY <1>2 DEF DecisionInv, RunsAhead, MayRun
<1>4. \A u \in Threads : DecidesOpenApproval(u)'
  BY <1>2 DEF DecisionInv, DecidesOpenApproval
<1>5. ToolRunsAtMostOnce' /\ DeniedToolNotExecuted'
  BY DEF DecisionInv, ToolRunsAtMostOnce, DeniedToolNotExecuted
<1>6. QED
  BY <1>1, <1>3, <1>4, <1>5 DEF DecisionInv

LEMMA FinishDecision ==
  ASSUME TypeInv, DecisionInv, NEW t \in Threads, Finish(t), UNCHANGED <<approval, executed>>
  PROVE  DecisionInv'
<1>1. /\ \A u \in Threads : u # t => pc'[u] = pc[u] /\ tool'[u] = tool[u]
      /\ pc'[t] = "idle"
  BY DEF Finish, Begin, Goto, TypeInv, TypeOK, ThreadTypes
<1>2. QED
  BY <1>1, DecisionKept DEF DecisionSteps

\* A requested call is fresh: it has no effect and is in nobody's hands.
LEMMA RequestToolDecision ==
  ASSUME TypeInv, ApprovalInv, DecisionInv, NEW t \in Threads, NEW c \in Calls,
         NEW inScope \in BOOLEAN, RequestTool(t, c, inScope)
  PROVE  DecisionInv'
<1>1. /\ \A u \in Threads : u # t => pc'[u] = pc[u] /\ tool'[u] = tool[u]
      /\ pc'[t] \in {"authorise", "refuse"} /\ tool'[t] = c
      /\ UNCHANGED <<approval, executed>>
  BY DEF RequestTool, Goto, TypeInv, TypeOK, ThreadTypes
<1>2. /\ executed[c] = 0 /\ approval[c] = "none"
      /\ \A u \in Threads : MayRun(u) => tool[u] # c
  BY DEF RequestTool, ApprovalInv, UnusedCalls, HeldCallsExist, HoldsCall, MayRun
<1>3. DecidersAreHandlers'
  BY <1>1 DEF DecisionInv, DecidersAreHandlers, DecisionSteps
<1>4. RunsAhead'
  BY <1>1, <1>2 DEF DecisionInv, RunsAhead, MayRun
<1>5. \A u \in Threads : DecidesOpenApproval(u)'
  BY <1>1 DEF DecisionInv, DecidesOpenApproval
<1>6. ToolRunsAtMostOnce' /\ DeniedToolNotExecuted'
  BY <1>1 DEF DecisionInv, ToolRunsAtMostOnce, DeniedToolNotExecuted
<1>7. QED
  BY <1>3, <1>4, <1>5, <1>6 DEF DecisionInv

LEMMA AuthoriseDecision ==
  ASSUME TypeInv, ApprovalInv, DecisionInv, NEW t \in Threads, Authorise(t)
  PROVE  DecisionInv'
<1>1. /\ pc[t] = "authorise" /\ tool[t] \in Calls /\ approval[tool[t]] = "none"
      /\ executed[tool[t]] = 0 /\ UNCHANGED <<tool, executed>>
      /\ \A u \in Threads : u # t => pc'[u] = pc[u]
      /\ pc'[t] \in {"refuse", "invoke", "recordFailed", "mark"}
  BY DEF Authorise, Goto, KeepLoop, ApprovalInv, HeldCallsExist, HoldsCall,
         AuthorisedCallsFresh, TypeInv, TypeOK, ThreadTypes
<1>2. /\ \A c \in Calls \ {tool[t]} : approval'[c] = approval[c]
      /\ approval'[tool[t]] = "none" \/ (approval'[tool[t]] = "pending" /\ pc'[t] = "mark")
  BY <1>1 DEF Authorise, AskApproval, Goto, TypeInv, TypeOK, DatabaseTypes, ThreadTypes
<1>3. DecidersAreHandlers'
  BY <1>1 DEF DecisionInv, DecidersAreHandlers, DecisionSteps
<1>4. RunsAhead'
  BY <1>1 DEF DecisionInv, RunsAhead, MayRun
<1>5. ASSUME NEW u \in Threads
      PROVE  DecidesOpenApproval(u)'
  <2>1. CASE u = t
    BY <1>1, <1>2, <2>1 DEF DecidesOpenApproval
  <2>2. CASE u # t
    <3>1. pc[u] \in {"approve", "deny", "build"} => tool[u] # tool[t]
      BY <1>1 DEF DecisionInv, DecidesOpenApproval
    <3>2. pc[u] = "invoke" => tool[u] # tool[t]
      BY <1>1, <2>2 DEF DecisionInv, RunsAhead, MayRun
    <3>3. pc[u] \in {"approve", "deny", "build", "invoke"} => tool[u] \in Calls
      BY DEF ApprovalInv, HeldCallsExist, HoldsCall
    <3>4. QED
      BY <1>1, <1>2, <2>2, <3>1, <3>2, <3>3 DEF DecisionInv, DecidesOpenApproval
  <2>3. QED
    BY <2>1, <2>2
<1>6. ToolRunsAtMostOnce' /\ DeniedToolNotExecuted'
  BY <1>1, <1>2 DEF DecisionInv, ToolRunsAtMostOnce, DeniedToolNotExecuted
<1>7. QED
  BY <1>3, <1>4, <1>5, <1>6 DEF DecisionInv

\* The one run of the tool: nobody else may run it, and it was not denied.
LEMMA InvokeDecision ==
  ASSUME TypeInv, ApprovalInv, DecisionInv, NEW t \in Threads, Invoke(t)
  PROVE  DecisionInv'
<1>1. /\ pc[t] = "invoke" /\ tool[t] \in Calls /\ UNCHANGED <<approval, tool>>
      /\ \A u \in Threads : u # t => pc'[u] = pc[u]
      /\ pc'[t] \in {"recordCompleted", "recordFailed"}
  BY DEF Invoke, Goto, KeepLoop, dbVars, ApprovalInv, HeldCallsExist, HoldsCall, TypeInv,
         TypeOK, ThreadTypes
<1>2. executed[tool[t]] = 0 /\ approval[tool[t]] # "denied"
  BY <1>1 DEF DecisionInv, RunsAhead, MayRun, DecidesOpenApproval
<1>3. /\ \A c \in Calls \ {tool[t]} : executed'[c] = executed[c]
      /\ executed'[tool[t]] \in {0, 1}
  BY <1>1, <1>2 DEF Invoke, TypeInv, TypeOK
<1>4. \A u \in Threads : u # t /\ MayRun(u) => tool[u] # tool[t] /\ tool[u] \in Calls
  BY <1>1 DEF DecisionInv, RunsAhead, MayRun, ApprovalInv, HeldCallsExist, HoldsCall
<1>5. DecidersAreHandlers'
  BY <1>1 DEF DecisionInv, DecidersAreHandlers, DecisionSteps
<1>6. RunsAhead'
  BY <1>1, <1>3, <1>4 DEF DecisionInv, RunsAhead, MayRun
<1>7. \A u \in Threads : DecidesOpenApproval(u)'
  BY <1>1 DEF DecisionInv, DecidesOpenApproval
<1>8. ToolRunsAtMostOnce' /\ DeniedToolNotExecuted'
  BY <1>1, <1>2, <1>3 DEF DecisionInv, ToolRunsAtMostOnce, DeniedToolNotExecuted
<1>9. QED
  BY <1>5, <1>6, <1>7, <1>8 DEF DecisionInv

LEMMA KernelStepDecision ==
  ASSUME TypeInv, ApprovalInv, DecisionInv, NEW t \in Threads, KernelStep(t)
  PROVE  DecisionInv'
<1>1. CASE Authorise(t) \/ Invoke(t)
  BY <1>1, AuthoriseDecision, InvokeDecision
<1>2. ASSUME NEW c \in Calls, NEW inScope \in BOOLEAN, RequestTool(t, c, inScope)
      PROVE  DecisionInv'
  BY <1>2, RequestToolDecision
<1>3. CASE Persist(t) \/ PersistFailure(t)
  BY <1>3, FinishDecision DEF Persist, PersistFailure, Settle
<1>4. ASSUME NEW step \in {"tools", "chat", "persist"}, Goto(t, step),
             UNCHANGED <<approval, executed>>,
             tool' = tool \/ tool' = [tool EXCEPT ![t] = NoCall]
      PROVE  DecisionInv'
  <2>1. /\ \A u \in Threads : u # t => pc'[u] = pc[u] /\ tool'[u] = tool[u]
        /\ pc'[t] = step
    BY <1>4 DEF Goto, TypeInv, TypeOK, ThreadTypes
  <2>2. QED
    BY <1>4, <2>1, DecisionKept DEF DecisionSteps
<1>5. CASE Answer(t) \/ UseOtherTools(t) \/ EndTurn(t)
  BY <1>4, <1>5 DEF Answer, UseOtherTools, EndTurn, KeepLoop, dbVars
<1>6. CASE Refuse(t) \/ MarkAwaiting(t) \/ RecordCompleted(t) \/ RecordFailed(t)
  BY <1>4, <1>6 DEF Refuse, MarkAwaiting, RecordCompleted, RecordFailed
<1>7. QED
  BY <1>1, <1>2, <1>3, <1>5, <1>6 DEF KernelStep

\* The steps of the one handler that decides.
LEMMA DecisionStepDecision ==
  ASSUME TypeInv, ApprovalInv, DecisionInv, SingleHandler,
         NEW h \in Handlers, DecisionStep(h)
  PROVE  DecisionInv'
<1> h \in Threads
  BY DEF Threads
<1>1. \A u \in Threads : u # h => pc[u] \notin DecisionSteps
  BY DEF DecisionInv, DecidersAreHandlers, SingleHandler
<1>2. CASE Approve(h) \/ Deny(h)
  <2>1. /\ pc[h] \in {"approve", "deny"} /\ tool[h] \in Calls /\ approval[tool[h]] = "pending"
        /\ UNCHANGED <<tool, executed>>
    BY <1>2 DEF Approve, Deny, KeepLoop, DecisionInv, DecidesOpenApproval, ApprovalInv,
                HeldCallsExist, HoldsCall
  <2>2. /\ \A u \in Threads : u # h => pc'[u] = pc[u]
        /\ \A c \in Calls \ {tool[h]} : approval'[c] = approval[c]
        /\ \/ pc[h] = "approve" /\ pc'[h] = "build" /\ approval'[tool[h]] = "approved"
           \/ pc[h] = "deny" /\ pc'[h] = "denyCall" /\ approval'[tool[h]] = "denied"
    BY <1>2, <2>1 DEF Approve, Deny, MarkApproval, Goto, TypeInv, TypeOK, DatabaseTypes,
                      ThreadTypes
  <2>3. executed[tool[h]] = 0
    BY <2>1 DEF DecisionInv, ApprovalInv, NoToolRunsUndecided, TypeInv, TypeOK
  <2>4. DecidersAreHandlers'
    BY <2>2 DEF DecisionInv, DecidersAreHandlers
  <2>5. RunsAhead'
    BY <2>1, <2>2 DEF DecisionInv, RunsAhead, MayRun
  <2>6. ASSUME NEW u \in Threads
        PROVE  DecidesOpenApproval(u)'
    <3>1. CASE u = h
      BY <2>1, <2>2, <3>1 DEF DecidesOpenApproval
    <3>2. CASE u # h
      <4>1. pc'[u] = pc[u] /\ pc[u] \notin {"approve", "deny", "build"}
        BY <1>1, <2>2, <3>2 DEF DecisionSteps
      <4>2. pc[u] = "invoke" => tool[u] \in Calls \ {tool[h]}
        BY <2>1 DEF ApprovalInv, InvokedCallsFree, HeldCallsExist, HoldsCall
      <4>3. QED
        BY <2>1, <2>2, <4>1, <4>2 DEF DecisionInv, DecidesOpenApproval
    <3>3. QED
      BY <3>1, <3>2
  <2>7. ToolRunsAtMostOnce' /\ DeniedToolNotExecuted'
    BY <2>1, <2>2, <2>3 DEF DecisionInv, ToolRunsAtMostOnce, DeniedToolNotExecuted
  <2>8. QED
    BY <2>4, <2>5, <2>6, <2>7 DEF DecisionInv
<1>3. CASE BuildResume(h)
  <2>1. /\ pc[h] = "build" /\ UNCHANGED <<approval, tool, executed>> /\ pc'[h] = "invoke"
        /\ \A u \in Threads : u # h => pc'[u] = pc[u]
    BY <1>3 DEF BuildResume, KeepLoop, dbVars, Goto, TypeInv, TypeOK, ThreadTypes
  <2>2. DecidersAreHandlers'
    BY <2>1 DEF DecisionInv, DecidersAreHandlers
  <2>3. RunsAhead'
    BY <2>1 DEF DecisionInv, RunsAhead, MayRun
  <2>4. \A u \in Threads : DecidesOpenApproval(u)'
    BY <2>1 DEF DecisionInv, DecidesOpenApproval
  <2>5. ToolRunsAtMostOnce' /\ DeniedToolNotExecuted'
    BY <2>1 DEF DecisionInv, ToolRunsAtMostOnce, DeniedToolNotExecuted
  <2>6. QED
    BY <2>2, <2>3, <2>4, <2>5 DEF DecisionInv
<1>4. CASE DenyCall(h)
  <2>1. /\ \A u \in Threads : u # h => pc'[u] = pc[u] /\ tool'[u] = tool[u]
        /\ pc'[h] = "denyRun" /\ UNCHANGED <<approval, executed>>
    BY <1>4 DEF DenyCall, Goto, KeepLoop, TypeInv, TypeOK, ThreadTypes
  <2>2. QED
    BY <2>1, DecisionKept
<1>5. CASE DenyRun(h)
  BY <1>5, FinishDecision DEF DenyRun, Settle
<1>6. QED
  BY <1>2, <1>3, <1>4, <1>5 DEF DecisionStep

LEMMA WorkerStepDecision ==
  ASSUME TypeInv, DecisionInv, NEW w \in Workers, WorkerStep(w)
  PROVE  DecisionInv'
<1> w \in Threads
  BY DEF Threads
<1>1. CASE Claim(w) /\ run[job[w]] # "queued"
  BY <1>1, FinishDecision DEF Claim
<1>2. CASE SelectQueued(w) \/ Prepare(w) \/ (Claim(w) /\ run[job[w]] = "queued")
  <2>1. /\ \A u \in Threads : u # w => pc'[u] = pc[u] /\ tool'[u] = tool[u]
        /\ pc'[w] \in {"claim", "prepare", "chat"}
        /\ UNCHANGED <<approval, executed>>
    BY <1>2 DEF SelectQueued, Prepare, Claim, Begin, Goto, KeepLoop, dbVars, TypeInv, TypeOK,
                ThreadTypes
  <2>2. QED
    BY <2>1, DecisionKept DEF DecisionSteps
<1>3. QED
  BY <1>1, <1>2 DEF WorkerStep

LEMMA ThreadRaisesDecision ==
  ASSUME TypeInv, DecisionInv, NEW t \in Threads, ThreadRaises(t)
  PROVE  DecisionInv'
<1>1. CASE Finish(t)
  BY <1>1, FinishDecision
     DEF ThreadRaises, PrepareRaises, KernelRaises, PersistRaises, BuildResumeRaises, dbVars
<1>2. CASE KernelRaises(t) /\ mode[t] = "execute"
  <2>1. /\ \A u \in Threads : u # t => pc'[u] = pc[u] /\ tool'[u] = tool[u]
        /\ pc'[t] = "fail" /\ UNCHANGED <<approval, executed>>
    BY <1>2 DEF KernelRaises, Goto, KeepLoop, dbVars, TypeInv, TypeOK, ThreadTypes
  <2>2. QED
    BY <2>1, DecisionKept DEF DecisionSteps
<1>3. QED
  BY <1>1, <1>2 DEF ThreadRaises, PrepareRaises, KernelRaises, PersistRaises, BuildResumeRaises

LEMMA UserStepDecision ==
  ASSUME TypeInv, ApprovalInv, DecisionInv, SingleHandler, UserStep
  PROVE  DecisionInv'
<1>1. ASSUME UNCHANGED <<approval, pc, tool, executed>>
      PROVE  DecisionInv'
  BY <1>1 DEF DecisionInv, DecidersAreHandlers, RunsAhead, MayRun, DecidesOpenApproval,
              ToolRunsAtMostOnce, DeniedToolNotExecuted
<1>2. ASSUME NEW r \in Runs, EnqueueSimple(r)
      PROVE  DecisionInv'
  BY <1>1, <1>2 DEF EnqueueSimple, threadVars
<1>3. ASSUME NEW l \in Levels, UpdatePermission(l)
      PROVE  DecisionInv'
  BY <1>1, <1>3 DEF UpdatePermission, threadVars
<1>4. ASSUME NEW h \in Handlers, NEW r \in Runs, ExecuteSimple(h, r)
      PROVE  DecisionInv'
  <2>1. /\ h \in Threads /\ pc'[h] = "chat" /\ UNCHANGED <<approval, executed>>
        /\ \A u \in Threads : u # h => pc'[u] = pc[u] /\ tool'[u] = tool[u]
    BY <1>4 DEF ExecuteSimple, Begin, Goto, Threads, TypeInv, TypeOK, ThreadTypes
  <2>2. QED
    BY <2>1, DecisionKept DEF DecisionSteps
<1>5. ASSUME NEW h \in Handlers, NEW c \in Calls, NEW d \in {"approve", "deny"},
             Decide(h, c, d)
      PROVE  DecisionInv'
  <2>1. /\ h \in Threads /\ pc[h] = "idle" /\ pc'[h] = d /\ tool'[h] = c
        /\ approval[c] = "pending" /\ UNCHANGED <<approval, executed>>
        /\ \A u \in Threads : u # h => pc'[u] = pc[u] /\ tool'[u] = tool[u]
    BY <1>5 DEF Decide, Begin, Goto, dbVars, Threads, TypeInv, TypeOK, ThreadTypes
  <2>2. \A u \in Threads : pc[u] \notin DecisionSteps
    BY <2>1 DEF DecisionInv, DecidersAreHandlers, SingleHandler, DecisionSteps
  <2>3. executed[c] = 0
    BY <2>1 DEF ApprovalInv, NoToolRunsUndecided, TypeInv, TypeOK
  <2>4. \A u \in Threads : MayRun(u) => tool[u] # c
    BY <2>1, <2>2 DEF MayRun, DecisionSteps, ApprovalInv, AuthorisedCallsFresh,
                      InvokedCallsFree
  <2>5. DecidersAreHandlers'
    BY <2>1 DEF DecisionInv, DecidersAreHandlers
  <2>6. RunsAhead'
    BY <2>1, <2>3, <2>4 DEF DecisionInv, RunsAhead, MayRun
  <2>7. \A u \in Threads : DecidesOpenApproval(u)'
    BY <2>1 DEF DecisionInv, DecidesOpenApproval
  <2>8. ToolRunsAtMostOnce' /\ DeniedToolNotExecuted'
    BY <2>1 DEF DecisionInv, ToolRunsAtMostOnce, DeniedToolNotExecuted
  <2>9. QED
    BY <2>5, <2>6, <2>7, <2>8 DEF DecisionInv
<1>6. QED
  BY <1>2, <1>3, <1>4, <1>5 DEF UserStep

LEMMA CrashDecision ==
  ASSUME DecisionInv, Crash
  PROVE  DecisionInv'
<1>1. (\A t \in Threads : pc'[t] = "idle") /\ UNCHANGED <<approval, executed>>
  BY DEF Crash, dbVars
<1>2. QED
  BY <1>1 DEF DecisionInv, DecidersAreHandlers, RunsAhead, MayRun, DecidesOpenApproval,
              ToolRunsAtMostOnce, DeniedToolNotExecuted, DecisionSteps

LEMMA DecisionInductive ==
  ASSUME SingleHandler
  PROVE  /\ Init => DecisionInv
         /\ TypeInv /\ ApprovalInv /\ DecisionInv /\ [Next]_vars => DecisionInv'
<1>1. Init => DecisionInv
  BY DEF Init, DecisionInv, DecidersAreHandlers, RunsAhead, MayRun, DecidesOpenApproval,
         ToolRunsAtMostOnce, DeniedToolNotExecuted, DecisionSteps
<1>2. ASSUME TypeInv, ApprovalInv, DecisionInv, Next
      PROVE  DecisionInv'
  BY <1>2, CrashDecision, UserStepDecision, WorkerStepDecision, DecisionStepDecision,
     KernelStepDecision, ThreadRaisesDecision DEF Next
<1>3. ASSUME DecisionInv, UNCHANGED vars
      PROVE  DecisionInv'
  BY <1>3 DEF vars, dbVars, threadVars, DecisionInv, DecidersAreHandlers, RunsAhead, MayRun,
              DecidesOpenApproval, ToolRunsAtMostOnce, DeniedToolNotExecuted
<1>4. QED
  BY <1>1, <1>2, <1>3

LEMMA DecisionsHold ==
  ASSUME SingleHandler
  PROVE  Spec => []DecisionInv
<1>1. Spec => []TypeInv
  BY InitTypes, NextTypes, PTL DEF Spec
<1>2. Spec => []ApprovalInv
  BY <1>1, ApprovalInductive, PTL DEF Spec
<1>3. QED
  BY <1>1, <1>2, DecisionInductive, PTL DEF Spec

\* When requests are decided one after the other, a call has its effect at most
\* once, whatever workers, kernels, exceptions and crashes do in between.
THEOREM ToolsRunOnce ==
  ASSUME SingleHandler
  PROVE  Spec => []ToolRunsAtMostOnce
<1>1. DecisionInv => ToolRunsAtMostOnce
  BY DEF DecisionInv
<1>2. QED
  BY <1>1, DecisionsHold, PTL

\* Under the same condition the tool of a denied call never runs, before or
\* after the denial.
THEOREM DeniedToolsDoNotRun ==
  ASSUME SingleHandler
  PROVE  Spec => []DeniedToolNotExecuted
<1>1. DecisionInv => DeniedToolNotExecuted
  BY DEF DecisionInv
<1>2. QED
  BY <1>1, DecisionsHold, PTL

-----------------------------------------------------------------------------
(* Paused and settled runs: a paused run has asked somebody, and a settled   *)
(* one stays as it is unless an approval brings it back.                    *)
(*                                                                         *)
(* Both rest on the same strengthening: a loop that will pause its run, and  *)
(* a handler that will settle one, have an approval of that run behind them, *)
(* and whoever executes a run that has none finds it still running.          *)

\* An approval of one of the calls of r was asked for.
HasAsked(r) == \E c \in Calls : call[c].run = r /\ approval[c] # "none"

\* A loop pauses its run only after it has asked.
PausesAfterAsking(t) ==
  asked[t] \/ outcome[t] = "awaiting_approval" => HasAsked(job[t])

\* The call that is authorised and marked is a call of the thread's run.
OwnsHeldCall(t) ==
  pc[t] \in {"authorise", "mark"} => tool[t] \in Calls /\ call[tool[t]].run = job[t]

MarksAskedCall(t) == pc[t] = "mark" => approval[tool[t]] # "none"

\* A handler that decides works on a run that has asked.
DecidesAskedRun(t) == pc[t] # "idle" /\ mode[t] = "resume" => HasAsked(job[t])

\* The run of an executor is open, or somebody can bring it back.
ExecutesOpenRun(t) ==
  \A r \in Runs : Executes(t, r) => run[r] = "running" \/ HasAsked(r)

Known(t) ==
  /\ PausesAfterAsking(t)
  /\ OwnsHeldCall(t)
  /\ MarksAskedCall(t)
  /\ DecidesAskedRun(t)
  /\ ExecutesOpenRun(t)

PausedInv == PausedHasApproval /\ \A t \in Threads : Known(t)

Inv == TypeInv /\ OwnershipInv /\ ApprovalInv /\ PausedInv

-----------------------------------------------------------------------------
(* Approvals and the runs of calls are never taken back.                    *)

CallsKept ==
  /\ \A c \in Calls : approval[c] # "none" => approval'[c] # "none"
  /\ \A c \in Calls : call[c].status # "none" => call'[c].run = call[c].run

LEMMA KernelKeepsCalls ==
  ASSUME TypeInv, NEW t \in Threads, KernelStep(t)
  PROVE  CallsKept
<1>1. CASE UNCHANGED <<call, approval>>
  BY <1>1 DEF CallsKept
<1>2. ASSUME NEW c \in Calls, NEW inScope \in BOOLEAN, RequestTool(t, c, inScope)
      PROVE  CallsKept
  BY <1>2 DEF RequestTool, CreateCall, CallsKept, TypeInv, TypeOK, DatabaseTypes
<1>3. ASSUME NEW s, MarkCall(tool[t], s), UNCHANGED approval
      PROVE  CallsKept
  BY <1>3 DEF MarkCall, CallsKept, TypeInv, TypeOK, DatabaseTypes
<1>4. CASE Refuse(t) \/ MarkAwaiting(t) \/ RecordCompleted(t) \/ RecordFailed(t)
  BY <1>3, <1>4 DEF Refuse, MarkAwaiting, RecordCompleted, RecordFailed
<1>5. CASE Authorise(t)
  <2>1. UNCHANGED approval \/ approval' = [approval EXCEPT ![tool[t]] = "pending"]
    BY <1>5 DEF Authorise, AskApproval
  <2>2. UNCHANGED call
    BY <1>5 DEF Authorise
  <2>3. QED
    BY <2>1, <2>2 DEF CallsKept, TypeInv, TypeOK, DatabaseTypes
<1>6. CASE Answer(t) \/ UseOtherTools(t) \/ Invoke(t) \/ EndTurn(t)
  BY <1>1, <1>6 DEF Answer, UseOtherTools, Invoke, EndTurn, dbVars
<1>7. CASE Persist(t) \/ PersistFailure(t)
  BY <1>1, <1>7 DEF Persist, PersistFailure, Settle
<1>8. QED
  BY <1>2, <1>4, <1>5, <1>6, <1>7 DEF KernelStep

LEMMA DecisionKeepsCalls ==
  ASSUME TypeInv, NEW h \in Handlers, DecisionStep(h)
  PROVE  CallsKept
<1>1. CASE Approve(h) \/ Deny(h)
  <2>1. UNCHANGED call
    BY <1>1 DEF Approve, Deny
  <2>2. PICK s \in {"approved", "denied"} : approval' = [approval EXCEPT ![tool[h]] = s]
    BY <1>1 DEF Approve, Deny, MarkApproval
  <2>3. QED
    BY <2>1, <2>2 DEF CallsKept, TypeInv, TypeOK, DatabaseTypes
<1>2. CASE DenyCall(h)
  BY <1>2 DEF DenyCall, MarkCall, CallsKept, TypeInv, TypeOK, DatabaseTypes
<1>3. CASE BuildResume(h) \/ DenyRun(h)
  BY <1>3 DEF BuildResume, DenyRun, Settle, dbVars, CallsKept
<1>4. QED
  BY <1>1, <1>2, <1>3 DEF DecisionStep

LEMMA AskedStays ==
  ASSUME ApprovalInv, CallsKept, NEW r, HasAsked(r)
  PROVE  HasAsked(r)'
<1>1. PICK c \in Calls : call[c].run = r /\ approval[c] # "none"
  BY DEF HasAsked
<1>2. call[c].status # "none"
  BY <1>1 DEF ApprovalInv, UnusedCalls
<1>3. call'[c].run = r /\ approval'[c] # "none"
  BY <1>1, <1>2 DEF CallsKept
<1>4. QED
  BY <1>3 DEF HasAsked

-----------------------------------------------------------------------------
(* What the threads that do not step still know, and what the others must show. *)

\* The memory of a thread.
Memory(t) == <<pc[t], mode[t], job[t], tool[t], outcome[t], asked[t]>>

LEMMA StillKnown ==
  ASSUME ApprovalInv, CallsKept, NEW u \in Threads, Known(u), UNCHANGED Memory(u),
         \A r \in Runs : Executes(u, r) => run'[r] \in {run[r], "running"} \/ HasAsked(r)'
  PROVE  Known(u)'
<1> USE DEF Known, Memory
<1>1. PausesAfterAsking(u)' /\ DecidesAskedRun(u)'
  BY AskedStays DEF PausesAfterAsking, DecidesAskedRun, HasAsked
<1>2. pc[u] = "authorise" \/ pc[u] = "mark" => call[tool[u]].status # "none"
  BY DEF OwnsHeldCall, MarksAskedCall, ApprovalInv, HeldCallsExist, HoldsCall, UnusedCalls
<1>3. OwnsHeldCall(u)' /\ MarksAskedCall(u)'
  BY <1>2 DEF OwnsHeldCall, MarksAskedCall, CallsKept
<1>4. ExecutesOpenRun(u)'
  BY AskedStays DEF ExecutesOpenRun, Executes
<1>5. QED
  BY <1>1, <1>3, <1>4

\* No run is paused without an approval, nor taken out of another executor's hands.
RunsKept(t) ==
  /\ \A r \in Runs : run'[r] = "awaiting_approval" => run'[r] = run[r] \/ HasAsked(r)'
  /\ \A u \in Threads \ {t}, r \in Runs :
       Executes(u, r) => run'[r] \in {run[r], "running"} \/ HasAsked(r)'

OthersKept(t) == \A u \in Threads \ {t} : UNCHANGED Memory(u)

LEMMA PausedKept ==
  ASSUME ApprovalInv, PausedInv, CallsKept, NEW t \in Threads,
         OthersKept(t), RunsKept(t), Known(t)'
  PROVE  PausedInv'
<1>1. ASSUME NEW u \in Threads \ {t}
      PROVE  Known(u)'
  BY <1>1, StillKnown DEF PausedInv, OthersKept, RunsKept
<1>2. PausedHasApproval'
  <2>1. SUFFICES ASSUME NEW r \in Runs, run'[r] = "awaiting_approval"
                 PROVE  HasAsked(r)'
    BY DEF PausedHasApproval, HasAsked
  <2>2. run[r] = "awaiting_approval" => HasAsked(r)
    BY DEF PausedInv, PausedHasApproval, HasAsked
  <2>3. QED
    BY <2>1, <2>2, AskedStays DEF RunsKept
<1>3. QED
  BY <1>1, <1>2 DEF PausedInv

\* A thread that returns needs to know nothing.
LEMMA FinishPaused ==
  ASSUME TypeInv, ApprovalInv, PausedInv, CallsKept, NEW t \in Threads,
         Finish(t), RunsKept(t)
  PROVE  PausedInv'
<1>1. pc'[t] = "idle" /\ outcome'[t] = "completed" /\ asked'[t] = FALSE
  BY DEF Finish, Begin, Goto, TypeInv, TypeOK, ThreadTypes
<1>2. Known(t)'
  BY <1>1 DEF Known, PausesAfterAsking, OwnsHeldCall, MarksAskedCall, DecidesAskedRun,
              ExecutesOpenRun, Executes, LoopSteps
<1>3. OthersKept(t)
  BY DEF Finish, Begin, Goto, OthersKept, Memory, TypeInv, TypeOK, ThreadTypes
<1>4. QED
  BY <1>2, <1>3, PausedKept

\* Whoever settles a run is its executor, or has an approval of it in hand.
LEMMA SettlePaused ==
  ASSUME TypeInv, OwnershipInv, ApprovalInv, PausedInv, NEW t \in Threads, NEW s \in Outcomes,
         Settle(t, s), s = "awaiting_approval" => HasAsked(job[t]),
         \/ pc[t] \in LoopSteps /\ mode[t] = "execute"
         \/ HasAsked(job[t])
  PROVE  PausedInv'
<1>1. CallsKept
  BY DEF Settle, CallsKept
<1>2. \A r \in Runs : run'[r] = IF r = job[t] THEN s ELSE run[r]
  BY DEF Settle, TypeInv, TypeOK, DatabaseTypes
<1>3. RunsKept(t)
  <2>1. ASSUME NEW u \in Threads \ {t}, NEW r \in Runs, Executes(u, r), r = job[t]
        PROVE  HasAsked(r)
    BY <2>1 DEF Executes, OwnershipInv, OneExecutor
  <2>2. \A r \in Runs : HasAsked(r) => HasAsked(r)'
    BY <1>1, AskedStays
  <2>3. QED
    BY <1>2, <2>1, <2>2 DEF RunsKept
<1>4. QED
  BY <1>1, <1>3, FinishPaused DEF Settle

\* A step that keeps the thread's run and job leaves the loop's own facts to show.
LEMMA JobKept ==
  ASSUME ApprovalInv, PausedInv, CallsKept, NEW t \in Threads, OthersKept(t),
         UNCHANGED <<run, mode, job>>, pc[t] # "idle",
         pc'[t] \in LoopSteps => pc[t] \in LoopSteps \/ mode[t] = "resume",
         PausesAfterAsking(t)', OwnsHeldCall(t)', MarksAskedCall(t)'
  PROVE  PausedInv'
<1>1. RunsKept(t)
  BY DEF RunsKept
<1>2. DecidesAskedRun(t)'
  BY AskedStays DEF PausedInv, Known, DecidesAskedRun, HasAsked
<1>3. ExecutesOpenRun(t)'
  BY AskedStays DEF PausedInv, Known, ExecutesOpenRun, Executes
<1>4. QED
  BY <1>1, <1>2, <1>3, PausedKept DEF Known
-----------------------------------------------------------------------------
(* The steps.                                                               *)

LEMMA SettleStepsPaused ==
  ASSUME TypeInv, OwnershipInv, ApprovalInv, PausedInv, NEW t \in Threads,
         Persist(t) \/ PersistFailure(t)
  PROVE  PausedInv'
<1>1. Known(t) /\ mode[t] \in {"execute", "resume"} /\ pc[t] \in LoopSteps
  BY DEF PausedInv, Persist, PersistFailure, LoopSteps, TypeInv, TypeOK, ThreadTypes
<1>2. pc[t] # "idle" /\ (mode[t] = "execute" \/ HasAsked(job[t]))
  BY <1>1 DEF LoopSteps, Known, DecidesAskedRun
<1>3. CASE Persist(t)
  <2>1. outcome[t] \in Outcomes /\ Settle(t, outcome[t])
    BY <1>3 DEF Persist, TypeInv, TypeOK, ThreadTypes
  <2>2. outcome[t] = "awaiting_approval" => HasAsked(job[t])
    BY <1>1 DEF Known, PausesAfterAsking
  <2>3. QED
    BY <1>1, <1>2, <2>1, <2>2, SettlePaused
<1>4. CASE PersistFailure(t)
  BY <1>1, <1>2, <1>4, SettlePaused DEF PersistFailure, Outcomes
<1>5. QED
  BY <1>3, <1>4

LEMMA KernelStepPaused ==
  ASSUME TypeInv, OwnershipInv, ApprovalInv, PausedInv, NEW t \in Threads, KernelStep(t)
  PROVE  PausedInv'
<1>1. CASE Persist(t) \/ PersistFailure(t)
  BY <1>1, SettleStepsPaused
<1>2. CallsKept
  BY KernelKeepsCalls
<1>3. Known(t)
  BY DEF PausedInv
\* A loop step that pauses nothing it has not paused before and holds no call.
<1>4. ASSUME NEW step \in LoopSteps \ {"authorise", "mark"}, Goto(t, step), pc[t] \in LoopSteps,
             UNCHANGED <<run, mode, job, asked>>,
             outcome' = outcome \/ outcome' = [outcome EXCEPT ![t] = "failed"],
             tool' = tool \/ tool' = [tool EXCEPT ![t] = NoCall]
      PROVE  PausedInv'
  <2>1. OthersKept(t) /\ pc'[t] = step /\ outcome'[t] \in {outcome[t], "failed"}
    BY <1>4 DEF Goto, OthersKept, Memory, TypeInv, TypeOK, ThreadTypes
  <2>2. PausesAfterAsking(t)'
    BY <1>2, <1>3, <1>4, <2>1, AskedStays DEF Known, PausesAfterAsking, HasAsked
  <2>3. OwnsHeldCall(t)' /\ MarksAskedCall(t)'
    BY <2>1 DEF OwnsHeldCall, MarksAskedCall
  <2>4. QED
    BY <1>2, <1>4, <2>1, <2>2, <2>3, JobKept DEF LoopSteps
<1>5. ASSUME NEW c \in Calls, NEW inScope \in BOOLEAN, RequestTool(t, c, inScope)
      PROVE  PausedInv'
  <2>1. /\ OthersKept(t) /\ tool'[t] = c /\ pc'[t] \in {"authorise", "refuse"}
        /\ pc[t] \in {"chat", "tools"} /\ UNCHANGED <<run, mode, job, outcome, asked>>
    BY <1>5 DEF RequestTool, Goto, OthersKept, Memory, TypeInv, TypeOK, ThreadTypes
  <2>2. call'[c].run = job[t]
    BY <1>5 DEF RequestTool, CreateCall, TypeInv, TypeOK, DatabaseTypes
  <2>3. PausesAfterAsking(t)'
    BY <1>2, <1>3, <2>1, AskedStays DEF Known, PausesAfterAsking, HasAsked
  <2>4. OwnsHeldCall(t)' /\ MarksAskedCall(t)'
    BY <2>1, <2>2 DEF OwnsHeldCall, MarksAskedCall
  <2>5. QED
    BY <1>2, <2>1, <2>3, <2>4, JobKept DEF LoopSteps
<1>6. CASE Authorise(t)
  <2>1. /\ OthersKept(t) /\ pc[t] = "authorise" /\ pc'[t] # "authorise"
        /\ UNCHANGED <<run, call, mode, job, tool, outcome, asked>>
    BY <1>6 DEF Authorise, Goto, KeepLoop, OthersKept, Memory, TypeInv, TypeOK, ThreadTypes
  <2>2. tool[t] \in Calls /\ call[tool[t]].run = job[t]
    BY <1>3, <2>1 DEF Known, OwnsHeldCall
  <2>3. pc'[t] = "mark" => approval'[tool[t]] = "pending"
    BY <1>6, <2>2 DEF Authorise, AskApproval, Goto, TypeInv, TypeOK, DatabaseTypes, ThreadTypes
  <2>4. PausesAfterAsking(t)'
    BY <1>2, <1>3, <2>1, AskedStays DEF Known, PausesAfterAsking, HasAsked
  <2>5. OwnsHeldCall(t)' /\ MarksAskedCall(t)'
    BY <2>1, <2>2, <2>3 DEF OwnsHeldCall, MarksAskedCall
  <2>6. QED
    BY <1>2, <2>1, <2>4, <2>5, JobKept DEF LoopSteps
<1>7. CASE MarkAwaiting(t)
  <2>1. /\ OthersKept(t) /\ pc[t] = "mark" /\ pc'[t] = "tools"
        /\ UNCHANGED <<run, approval, mode, job>>
    BY <1>7 DEF MarkAwaiting, Goto, KeepJob, OthersKept, Memory, TypeInv, TypeOK, ThreadTypes
  <2>2. HasAsked(job[t])
    BY <1>3, <2>1 DEF Known, OwnsHeldCall, MarksAskedCall, HasAsked
  <2>3. PausesAfterAsking(t)'
    BY <1>2, <2>1, <2>2, AskedStays DEF PausesAfterAsking, HasAsked
  <2>4. OwnsHeldCall(t)' /\ MarksAskedCall(t)'
    BY <2>1 DEF OwnsHeldCall, MarksAskedCall
  <2>5. QED
    BY <1>2, <2>1, <2>3, <2>4, JobKept DEF LoopSteps
<1>8. CASE Refuse(t)
  BY <1>4, <1>8 DEF Refuse, KeepJob, LoopSteps
<1>9. CASE RecordCompleted(t) \/ RecordFailed(t)
  BY <1>4, <1>9 DEF RecordCompleted, RecordFailed, KeepJob, LoopSteps
<1>10. CASE Answer(t) \/ UseOtherTools(t) \/ Invoke(t) \/ EndTurn(t)
  BY <1>4, <1>10 DEF Answer, UseOtherTools, Invoke, EndTurn, KeepLoop, dbVars, LoopSteps
<1>11. QED
  BY <1>1, <1>5, <1>6, <1>7, <1>8, <1>9, <1>10 DEF KernelStep

LEMMA DecisionStepPaused ==
  ASSUME TypeInv, OwnershipInv, ApprovalInv, PausedInv, NEW h \in Handlers, DecisionStep(h)
  PROVE  PausedInv'
<1> h \in Threads
  BY DEF Threads
<1>1. CallsKept
  BY DecisionKeepsCalls
<1>2. Known(h) /\ mode[h] = "resume" /\ pc[h] \in DecisionSteps
  BY DEF PausedInv, DecisionStep, Approve, BuildResume, Deny, DenyCall, DenyRun,
         DecisionSteps, TypeInv, ModesAgree
<1>3. CASE DenyRun(h)
  <2>1. HasAsked(job[h])
    BY <1>2 DEF Known, DecidesAskedRun, DecisionSteps
  <2>2. QED
    BY <1>3, <2>1, SettlePaused DEF DenyRun, Outcomes
<1>4. CASE Approve(h) \/ BuildResume(h) \/ Deny(h) \/ DenyCall(h)
  <2>1. /\ OthersKept(h) /\ pc'[h] \in {"build", "invoke", "denyCall", "denyRun"}
        /\ UNCHANGED <<run, mode, job, tool, outcome, asked>>
    BY <1>4 DEF Approve, BuildResume, Deny, DenyCall, Goto, KeepLoop, dbVars, OthersKept,
                Memory, TypeInv, TypeOK, ThreadTypes
  <2>2. PausesAfterAsking(h)'
    BY <1>1, <1>2, <2>1, AskedStays DEF Known, PausesAfterAsking, HasAsked
  <2>3. OwnsHeldCall(h)' /\ MarksAskedCall(h)'
    BY <2>1 DEF OwnsHeldCall, MarksAskedCall
  <2>4. QED
    BY <1>1, <1>2, <2>1, <2>2, <2>3, JobKept DEF DecisionSteps
<1>5. QED
  BY <1>3, <1>4 DEF DecisionStep

LEMMA WorkerStepPaused ==
  ASSUME TypeInv, ApprovalInv, PausedInv, NEW w \in Workers, WorkerStep(w)
  PROVE  PausedInv'
<1> w \in Threads
  BY DEF Threads
<1>1. CallsKept /\ Known(w)
  BY DEF WorkerStep, SelectQueued, Claim, Prepare, dbVars, CallsKept, PausedInv
<1>2. CASE SelectQueued(w)
  <2>1. PICK r \in Runs : Begin(w, "claim", "execute", r, NoCall)
    BY <1>2 DEF SelectQueued
  <2>2. /\ OthersKept(w) /\ pc'[w] = "claim" /\ mode'[w] = "execute"
        /\ outcome'[w] = "completed" /\ asked'[w] = FALSE
    BY <2>1 DEF Begin, Goto, OthersKept, Memory, TypeInv, TypeOK, ThreadTypes
  <2>3. Known(w)'
    BY <2>2 DEF Known, PausesAfterAsking, OwnsHeldCall, MarksAskedCall, DecidesAskedRun,
                ExecutesOpenRun, Executes, LoopSteps
  <2>4. RunsKept(w)
    BY <1>2 DEF SelectQueued, dbVars, RunsKept
  <2>5. QED
    BY <1>1, <2>2, <2>3, <2>4, PausedKept
<1>3. CASE Claim(w) /\ run[job[w]] = "queued"
  <2>1. /\ OthersKept(w) /\ pc'[w] = "prepare" /\ mode[w] = "execute" /\ job[w] \in Runs
        /\ run' = [run EXCEPT ![job[w]] = "running"]
        /\ UNCHANGED <<mode, job, outcome, asked>>
    BY <1>3 DEF Claim, Goto, KeepLoop, OthersKept, Memory, TypeInv, TypeOK, ThreadTypes,
                JobsAreRuns, ModesAgree
  <2>2. \A r \in Runs : run'[r] = IF r = job[w] THEN "running" ELSE run[r]
    BY <2>1 DEF TypeInv, TypeOK, DatabaseTypes
  <2>3. PausesAfterAsking(w)'
    BY <1>1, <2>1, AskedStays DEF Known, PausesAfterAsking, HasAsked
  <2>4. /\ OwnsHeldCall(w)' /\ MarksAskedCall(w)' /\ DecidesAskedRun(w)'
        /\ ExecutesOpenRun(w)'
    BY <2>1, <2>2 DEF OwnsHeldCall, MarksAskedCall, DecidesAskedRun, ExecutesOpenRun, Executes
  <2>5. RunsKept(w)
    BY <2>2 DEF RunsKept
  <2>6. QED
    BY <1>1, <2>1, <2>3, <2>4, <2>5, PausedKept DEF Known
<1>4. CASE Claim(w) /\ run[job[w]] # "queued"
  <2>1. RunsKept(w)
    BY <1>4 DEF Claim, RunsKept
  <2>2. QED
    BY <1>1, <1>4, <2>1, FinishPaused DEF Claim
<1>5. CASE Prepare(w)
  <2>1. /\ OthersKept(w) /\ pc[w] = "prepare" /\ pc'[w] = "chat"
        /\ UNCHANGED <<run, mode, job, outcome, asked>>
    BY <1>5 DEF Prepare, Goto, KeepLoop, dbVars, OthersKept, Memory, TypeInv, TypeOK,
                ThreadTypes
  <2>2. PausesAfterAsking(w)'
    BY <1>1, <2>1, AskedStays DEF Known, PausesAfterAsking, HasAsked
  <2>3. OwnsHeldCall(w)' /\ MarksAskedCall(w)'
    BY <2>1 DEF OwnsHeldCall, MarksAskedCall
  <2>4. QED
    BY <1>1, <2>1, <2>2, <2>3, JobKept DEF LoopSteps
<1>6. QED
  BY <1>2, <1>3, <1>4, <1>5 DEF WorkerStep

LEMMA ThreadRaisesPaused ==
  ASSUME TypeInv, ApprovalInv, PausedInv, NEW t \in Threads, ThreadRaises(t)
  PROVE  PausedInv'
<1>1. CallsKept /\ Known(t) /\ UNCHANGED run
  BY DEF ThreadRaises, PrepareRaises, KernelRaises, PersistRaises, BuildResumeRaises, dbVars,
         CallsKept, PausedInv
<1>2. CASE Finish(t)
  <2>1. RunsKept(t)
    BY <1>1 DEF RunsKept
  <2>2. QED
    BY <1>1, <1>2, <2>1, FinishPaused
<1>3. CASE KernelRaises(t) /\ mode[t] = "execute"
  <2>1. /\ OthersKept(t) /\ pc[t] \in LoopSteps /\ pc'[t] = "fail"
        /\ UNCHANGED <<mode, job, outcome, asked>>
    BY <1>3 DEF KernelRaises, Goto, KeepLoop, OthersKept, Memory, LoopSteps, TypeInv, TypeOK,
                ThreadTypes
  <2>2. PausesAfterAsking(t)'
    BY <1>1, <2>1, AskedStays DEF Known, PausesAfterAsking, HasAsked
  <2>3. OwnsHeldCall(t)' /\ MarksAskedCall(t)'
    BY <2>1 DEF OwnsHeldCall, MarksAskedCall
  <2>4. QED
    BY <1>1, <2>1, <2>2, <2>3, JobKept DEF LoopSteps
<1>4. QED
  BY <1>2, <1>3 DEF ThreadRaises, PrepareRaises, KernelRaises, PersistRaises,
                    BuildResumeRaises

\* Between steps of threads: the memory of all is kept, runs may be accepted.
LEMMA AllStillKnown ==
  ASSUME OwnershipInv, ApprovalInv, PausedInv,
         UNCHANGED <<call, approval, pc, mode, job, tool, outcome, asked>>,
         \A r \in Runs : run'[r] = run[r] \/ (run[r] = "none" /\ run'[r] = "queued")
  PROVE  PausedInv'
<1>1. CallsKept
  BY DEF CallsKept
<1>2. ASSUME NEW u \in Threads
      PROVE  Known(u)'
  <2>1. UNCHANGED Memory(u)
    BY DEF Memory
  <2>2. \A r \in Runs : Executes(u, r) => run'[r] = run[r]
    BY DEF OwnershipInv, ExecutedRunIsStarted
  <2>3. QED
    BY <1>1, <2>1, <2>2, StillKnown DEF PausedInv
<1>3. PausedHasApproval'
  BY DEF PausedInv, PausedHasApproval
<1>4. QED
  BY <1>2, <1>3 DEF PausedInv

LEMMA UserStepPaused ==
  ASSUME TypeInv, OwnershipInv, ApprovalInv, PausedInv, UserStep
  PROVE  PausedInv'
<1>1. ASSUME NEW r \in Runs, EnqueueSimple(r)
      PROVE  PausedInv'
  BY <1>1, AllStillKnown DEF EnqueueSimple, threadVars, TypeInv, TypeOK, DatabaseTypes
<1>2. ASSUME NEW l \in Levels, UpdatePermission(l)
      PROVE  PausedInv'
  BY <1>2, AllStillKnown DEF UpdatePermission, threadVars
<1>3. ASSUME NEW h \in Handlers, NEW r \in Runs, ExecuteSimple(h, r)
      PROVE  PausedInv'
  <2>1. /\ h \in Threads /\ OthersKept(h) /\ pc'[h] = "chat" /\ mode'[h] = "execute"
        /\ job'[h] = r /\ outcome'[h] = "completed" /\ asked'[h] = FALSE
    BY <1>3 DEF ExecuteSimple, Begin, Goto, OthersKept, Memory, Threads, TypeInv, TypeOK,
                ThreadTypes
  <2>2. CallsKept
    BY <1>3 DEF ExecuteSimple, CallsKept
  <2>3. \A s \in Runs : run'[s] = IF s = r THEN "running" ELSE run[s]
    BY <1>3 DEF ExecuteSimple, TypeInv, TypeOK, DatabaseTypes
  <2>4. RunsKept(h)
    BY <2>3 DEF RunsKept
  <2>5. Known(h)'
    BY <2>1, <2>3 DEF Known, PausesAfterAsking, OwnsHeldCall, MarksAskedCall,
                      DecidesAskedRun, ExecutesOpenRun, Executes
  <2>6. QED
    BY <2>1, <2>2, <2>4, <2>5, PausedKept
<1>4. ASSUME NEW h \in Handlers, NEW c \in Calls, NEW d \in {"approve", "deny"},
             Decide(h, c, d)
      PROVE  PausedInv'
  <2>1. /\ h \in Threads /\ OthersKept(h) /\ pc'[h] = d /\ mode'[h] = "resume"
        /\ job'[h] = call[c].run /\ outcome'[h] = "completed" /\ asked'[h] = FALSE
    BY <1>4 DEF Decide, Begin, Goto, OthersKept, Memory, Threads, TypeInv, TypeOK, ThreadTypes
  <2>2. approval[c] = "pending" /\ UNCHANGED <<run, call, approval>>
    BY <1>4 DEF Decide, dbVars
  <2>3. CallsKept /\ RunsKept(h)
    BY <2>2 DEF CallsKept, RunsKept
  <2>4. DecidesAskedRun(h)'
    BY <2>1, <2>2 DEF DecidesAskedRun, HasAsked
  <2>5. Known(h)'
    BY <2>1, <2>4 DEF Known, PausesAfterAsking, OwnsHeldCall, MarksAskedCall,
                      ExecutesOpenRun, Executes, LoopSteps
  <2>6. QED
    BY <2>1, <2>3, <2>5, PausedKept
<1>5. QED
  BY <1>1, <1>2, <1>3, <1>4 DEF UserStep

LEMMA CrashPaused ==
  ASSUME PausedInv, Crash
  PROVE  PausedInv'
<1>1. \A t \in Threads : pc'[t] = "idle" /\ outcome'[t] = "completed" /\ asked'[t] = FALSE
  BY DEF Crash
<1>2. \A t \in Threads : Known(t)'
  BY <1>1 DEF Known, PausesAfterAsking, OwnsHeldCall, MarksAskedCall, DecidesAskedRun,
              ExecutesOpenRun, Executes, LoopSteps
<1>3. PausedHasApproval'
  BY DEF PausedInv, PausedHasApproval, Crash, dbVars
<1>4. QED
  BY <1>2, <1>3 DEF PausedInv

LEMMA PausedInductive ==
  /\ Init => PausedInv
  /\ TypeInv /\ OwnershipInv /\ ApprovalInv /\ PausedInv /\ [Next]_vars => PausedInv'
<1>1. Init => PausedInv
  BY DEF Init, PausedInv, PausedHasApproval, Known, PausesAfterAsking, OwnsHeldCall,
         MarksAskedCall, DecidesAskedRun, ExecutesOpenRun, Executes, LoopSteps
<1>2. ASSUME TypeInv, OwnershipInv, ApprovalInv, PausedInv, Next
      PROVE  PausedInv'
  BY <1>2, CrashPaused, UserStepPaused, WorkerStepPaused, DecisionStepPaused,
     KernelStepPaused, ThreadRaisesPaused DEF Next
<1>3. ASSUME OwnershipInv, ApprovalInv, PausedInv, UNCHANGED vars
      PROVE  PausedInv'
  BY <1>3, AllStillKnown DEF vars, dbVars, threadVars
<1>4. QED
  BY <1>1, <1>2, <1>3

LEMMA RunsInvariant == Spec => []Inv
<1>1. Spec => []TypeInv
  BY InitTypes, NextTypes, PTL DEF Spec
<1>2. Spec => []OwnershipInv
  BY <1>1, OwnershipInductive, PTL DEF Spec
<1>3. Spec => []ApprovalInv
  BY <1>1, ApprovalInductive, PTL DEF Spec
<1>4. Spec => []PausedInv
  BY <1>1, <1>2, <1>3, PausedInductive, PTL DEF Spec
<1>5. QED
  BY <1>1, <1>2, <1>3, <1>4, PTL DEF Inv

\* A run is paused only if somebody was asked: when services/agent_execution.py settles
\* a run as awaiting_approval, an approval of one of its calls is in the database, and no
\* later handler, crash or exception takes it away.  It may have been decided since: a
\* run whose approval was committed and whose kernel then failed stays paused.
THEOREM PausedRunsAsked == Spec => []PausedHasApproval
<1>1. Inv => PausedHasApproval
  BY DEF Inv, PausedInv
<1>2. QED
  BY <1>1, RunsInvariant, PTL

-----------------------------------------------------------------------------
(* Settled runs.                                                            *)

\* The only steps that change a run: it is accepted, claimed or settled.
LEMMA RunChanges ==
  ASSUME TypeInv, Next, NEW r \in Runs, run'[r] # run[r]
  PROVE  \/ run[r] \in {"none", "queued"}
         \/ \E t \in Threads : r = job[t] /\ pc[t] \in {"persist", "fail", "denyRun"}
<1> DEFINE Goal == \/ run[r] \in {"none", "queued"}
                   \/ \E t \in Threads : r = job[t] /\ pc[t] \in {"persist", "fail", "denyRun"}
<1>1. CASE UserStep
  BY <1>1 DEF UserStep, EnqueueSimple, ExecuteSimple, Decide, UpdatePermission, dbVars,
              TypeInv, TypeOK, DatabaseTypes
<1>2. ASSUME NEW w \in Workers, WorkerStep(w)
      PROVE  Goal
  BY <1>2 DEF WorkerStep, SelectQueued, Claim, Prepare, dbVars, TypeInv, TypeOK, DatabaseTypes
<1>3. ASSUME NEW h \in Handlers, DecisionStep(h)
      PROVE  Goal
  BY <1>3 DEF DecisionStep, Approve, BuildResume, Deny, DenyCall, DenyRun, Settle, dbVars,
              Threads, TypeInv, TypeOK, DatabaseTypes
<1>4. ASSUME NEW t \in Threads, KernelStep(t)
      PROVE  Goal
  BY <1>4 DEF KernelStep, Answer, RequestTool, UseOtherTools, Refuse, Authorise, MarkAwaiting, Invoke,
              RecordCompleted, RecordFailed, EndTurn, Persist, PersistFailure, Settle, dbVars,
              TypeInv, TypeOK, DatabaseTypes
<1>5. ASSUME NEW t \in Threads, ThreadRaises(t)
      PROVE  Goal
  BY <1>5 DEF ThreadRaises, PrepareRaises, KernelRaises, PersistRaises, BuildResumeRaises,
              dbVars
<1>6. CASE Crash
  BY <1>6 DEF Crash, dbVars
<1>7. QED
  BY <1>1, <1>2, <1>3, <1>4, <1>5, <1>6 DEF Next

LEMMA SettledStep ==
  ASSUME Inv, Next, NEW r \in Runs, SettledWithoutApproval(r)
  PROVE  run'[r] = run[r]
<1>1. run[r] \in Terminal /\ ~HasAsked(r)
  BY DEF SettledWithoutApproval, HasAsked
<1>2. ASSUME NEW t \in Threads, r = job[t], pc[t] \in {"persist", "fail", "denyRun"}
      PROVE  FALSE
  <2>1. Known(t) /\ mode[t] \in {"execute", "resume"} /\ (pc[t] = "denyRun" => mode[t] = "resume")
    BY <1>2 DEF Inv, PausedInv, TypeInv, TypeOK, ThreadTypes, ModesAgree, DecisionSteps
  <2>2. CASE mode[t] = "resume"
    BY <1>1, <1>2, <2>1, <2>2 DEF Known, DecidesAskedRun
  <2>3. CASE mode[t] = "execute"
    BY <1>1, <1>2, <2>1, <2>3 DEF Known, ExecutesOpenRun, Executes, LoopSteps, Terminal
  <2>4. QED
    BY <2>1, <2>2, <2>3
<1>3. QED
  BY <1>1, <1>2, RunChanges DEF Inv, Terminal

\* A completed or failed run that asked nobody is final: no late executor, lost
\* claim or decision on another run writes its status again.
THEOREM SettledRunsRemain == Spec => SettledRunsStay
<1>1. ASSUME Inv, [Next]_vars
      PROVE  [\A r \in Runs : SettledWithoutApproval(r) => run'[r] = run[r]]_vars
  BY <1>1, SettledStep
<1>2. QED
  BY <1>1, RunsInvariant, PTL DEF Spec, SettledRunsStay

=============================================================================
