--------------------------- MODULE SubagentProofs ---------------------------
(***************************************************************************)
(* Theorems about Subagents, for every number of workers, handlers, parents, *)
(* runs and faults.                                                          *)
(***************************************************************************)
EXTENDS Subagents, FiniteSetTheorems, TLAPS

-----------------------------------------------------------------------------
(* The inductive invariant. *)

\* Started runs stay started: what a thread remembers about them is monotone.
Started(r) == lifecycle[r] \in Terminal \cup {"running"}

\* What a thread may rely on of the run in its hands, however stale.
HandsOf(t) ==
  /\ pc[t] \in ExecutionSteps \cup {"cleanup", "requestCancel"} =>
       job[t] \in Runs /\ Started(job[t])
  /\ pc[t] \in {"map", "cancelQueued"} =>
       job[t] \in Runs /\ lifecycle[job[t]] # "none"
  /\ pc[t] = "map" => runtime[job[t]] = "acp"
  /\ pc[t] = "insert" => launcher[t] \in Parents
  /\ \A r \in sweep[t] : Started(r)

HandsAgree == \A t \in Threads : HandsOf(t)

\* The parent of a native run has been told once, when the run became terminal.
ToldAgrees ==
  \A r \in Runs :
    /\ lifecycle[r] \notin Terminal => told[r] = <<>>
    /\ runtime[r] = "subagent" /\ lifecycle[r] \in Terminal => Len(told[r]) = 1

SubagentInv == TypeOK /\ HandsAgree /\ OneWorkerPerRun /\ ToldAgrees

-----------------------------------------------------------------------------
(* Type correctness. *)

\* A thread that goes on with a typed job, or returns, keeps the types.
LEMMA WorkTypes ==
  ASSUME ThreadTypes, NEW t \in Threads, NEW step \in Steps,
         NEW r \in Runs \cup {NoRun}, NEW s \in Terminal, Work(t, step, r, s)
  PROVE  ThreadTypes'
BY DEF ThreadTypes, Work, Goto

LEMMA ContinueTypes ==
  ASSUME ThreadTypes, NEW t \in Threads, NEW step \in Steps, Continue(t, step)
  PROVE  ThreadTypes'
BY DEF ThreadTypes, Continue, Goto

LEMMA ReturnTypes ==
  ASSUME ThreadTypes, NEW t \in Threads, Return(t)
  PROVE  ThreadTypes'
BY DEF ThreadTypes, Return, Goto, Steps, Terminal

\* finalize_run keeps the tables well typed.
LEMMA FinalizeTypes ==
  ASSUME DatabaseTypes, NEW r \in Runs, NEW s \in Terminal, Finalize(r, s)
  PROVE  DatabaseTypes'
<1>1. ResolvedStatus(r, s) \in Terminal
  BY DEF ResolvedStatus, Terminal
<1>2. CASE lifecycle[r] \in Terminal
  BY <1>2 DEF Finalize, DatabaseTypes
<1>3. CASE lifecycle[r] \notin Terminal
  <2>1. WriteTerminal(r, s, ResolvedStatus(r, s))
        /\ UNCHANGED <<parent, runtime, created, cancelRequested, overdue, attached>>
    BY <1>3 DEF Finalize
  <2>2. Append(told[r], s) \in Seq(Terminal)
    BY DEF DatabaseTypes
  <2>3. QED
    BY <1>1, <2>1, <2>2 DEF WriteTerminal, SyncTaskRun, DatabaseTypes, Statuses
<1>4. QED
  BY <1>2, <1>3

LEMMA PositionType == NextPosition \in Nat
<1> DEFINE spawned == {r \in Runs : created[r] > 0}
<1>1. IsFiniteSet(spawned)
  BY ConstantsAssumption, FS_Subset
<1>2. Cardinality(spawned) \in Nat
  BY <1>1, FS_CardinalityType
<1>3. QED
  BY <1>2 DEF NextPosition

\* Every step of a worker keeps the types.
LEMMA WorkerStepTypes ==
  ASSUME SubagentInv, NEW w \in Workers, WorkerStep(w)
  PROVE  TypeOK'
<1> USE DEF SubagentInv, TypeOK, Threads
<1>0. "completed" \in Terminal /\ "cancelled" \in Terminal /\ "timed_out" \in Terminal
      /\ "failed" \in Terminal
  BY DEF Terminal
<1>j. pc[w] \in ExecutionSteps \cup {"cleanup"} => job[w] \in Runs
  BY DEF HandsAgree, HandsOf
<1>o. outcome[w] \in Terminal
  BY DEF ThreadTypes
<1>s. \A x \in {"idle", "sweep", "cleanup"} \cup ExecutionSteps : x \in Steps
  BY DEF Steps, WorkerSteps
<1>e. /\ "prepare" \in ExecutionSteps /\ "attach" \in ExecutionSteps
      /\ "probe" \in ExecutionSteps /\ "kernel" \in ExecutionSteps
      /\ "recheck" \in ExecutionSteps /\ "persist" \in ExecutionSteps
      /\ "review" \in ExecutionSteps /\ "finalize" \in ExecutionSteps
  BY DEF ExecutionSteps
<1>1. CASE Tick(w)
  BY <1>1, <1>s DEF Tick, ThreadTypes, DatabaseTypes, dbVars, Goto
<1>2. CASE Inspect(w)
  <2>1. DatabaseTypes' /\ faults' \in 0 .. MaxFaults
    BY <1>2 DEF Inspect, DatabaseTypes, dbVars
  <2>2. PICK r \in sweep[w] :
          /\ sweep' = [sweep EXCEPT ![w] = @ \ {r}]
          /\ launcher' = launcher
          /\ IF overdue[r]
               THEN /\ Goto(w, "cleanup")
                    /\ job' = [job EXCEPT ![w] = r]
                    /\ outcome' = [outcome EXCEPT ![w] =
                         IF cancelRequested[r] THEN "cancelled" ELSE "timed_out"]
               ELSE UNCHANGED <<pc, job, outcome>>
    BY <1>2 DEF Inspect
  <2>3. r \in Runs /\ sweep[w] \ {r} \in SUBSET Runs
    BY DEF ThreadTypes
  <2>4. ThreadTypes'
    BY <1>0, <1>s, <2>2, <2>3 DEF ThreadTypes, Goto
  <2>5. QED
    BY <2>1, <2>4
<1>3. CASE Cleanup(w)
  <2>1. DatabaseTypes'
    BY <1>3, <1>j, <1>o, FinalizeTypes DEF Cleanup
  <2>2. ThreadTypes'
    BY <1>0, <1>3, <1>s, WorkTypes DEF Cleanup
  <2>3. QED
    BY <1>3, <2>1, <2>2 DEF Cleanup
<1>4. CASE Claim(w)
  <2>1. ASSUME NEW r \in Runs, lifecycle' = [lifecycle EXCEPT ![r] = "running"],
               Work(w, "prepare", r, "completed")
        PROVE  TypeOK'
    <3>1. ThreadTypes'
      BY <1>0, <1>e, <1>s, <2>1, WorkTypes
    <3>2. DatabaseTypes' /\ faults' \in 0 .. MaxFaults
      BY <1>4, <2>1 DEF Claim, DatabaseTypes, Statuses, Active
    <3>3. QED
      BY <3>1, <3>2
  <2>2. CASE Return(w) /\ UNCHANGED lifecycle
    BY <1>4, <2>2, ReturnTypes DEF Claim, DatabaseTypes
  <2>3. QED
    BY <1>4, <2>1, <2>2 DEF Claim
<1>5. CASE Prepare(w)
  BY <1>5, <1>e, <1>s, ContinueTypes DEF Prepare, DatabaseTypes, Statuses, Active
<1>6. CASE Attach(w)
  BY <1>6, <1>e, <1>s, ContinueTypes DEF Attach, DatabaseTypes
<1>7. CASE Probe(w)
  <2>1. DatabaseTypes' /\ faults' \in 0 .. MaxFaults
    BY <1>7 DEF Probe, DatabaseTypes, dbVars
  <2>2. job[w] \in Runs
    BY <1>7, <1>e, <1>j DEF Probe
  <2>3. CASE Work(w, "persist", job[w], "cancelled")
    BY <1>0, <1>e, <1>s, <2>1, <2>2, <2>3, WorkTypes
  <2>4. CASE Continue(w, IF pc[w] = "probe" THEN "kernel" ELSE "persist")
    BY <1>e, <1>s, <2>1, <2>4, ContinueTypes
  <2>5. QED
    BY <1>7, <2>3, <2>4 DEF Probe
<1>8. CASE RunKernel(w)
  <2>1. DatabaseTypes' /\ faults' \in 0 .. MaxFaults
    BY <1>8 DEF RunKernel, KernelStatuses, Normalized, DatabaseTypes, dbVars
  <2>2. job[w] \in Runs
    BY <1>8, <1>e, <1>j DEF RunKernel
  <2>3. PICK step \in {"recheck", "persist"}, s \in Terminal : Work(w, step, job[w], s)
    BY <1>0, <1>8 DEF RunKernel, KernelStatuses, Normalized
  <2>4. ThreadTypes'
    BY <1>e, <1>s, <2>2, <2>3, WorkTypes
  <2>5. QED
    BY <2>1, <2>4
<1>9. CASE Persist(w)
  BY <1>9, <1>e, <1>o, <1>s, ContinueTypes DEF Persist, DatabaseTypes, Statuses
<1>10. CASE Review(w)
  <2>1. DatabaseTypes' /\ faults' \in 0 .. MaxFaults
    BY <1>10 DEF Review, DatabaseTypes, dbVars
  <2>2. job[w] \in Runs
    BY <1>10, <1>e, <1>j DEF Review
  <2>3. CASE Return(w)
    BY <2>1, <2>3, ReturnTypes
  <2>4. CASE Work(w, "finalize", job[w],
                  IF cancelRequested[job[w]] THEN "cancelled" ELSE outcome[w])
    BY <1>0, <1>e, <1>o, <1>s, <2>1, <2>2, <2>4, WorkTypes
  <2>5. QED
    BY <1>10, <2>3, <2>4 DEF Review
<1>11. CASE FinalizeRun(w)
  BY <1>11, <1>e, <1>j, <1>o, FinalizeTypes, ReturnTypes DEF FinalizeRun
<1>12. QED
  BY <1>1, <1>2, <1>3, <1>4, <1>5, <1>6, <1>7, <1>8, <1>9, <1>10, <1>11 DEF WorkerStep

\* Every step of a handler, of a user and of time keeps the types.
LEMMA HandlerStepTypes ==
  ASSUME SubagentInv, NEW h \in Handlers, HandlerStep(h)
  PROVE  TypeOK'
<1> USE DEF SubagentInv, TypeOK, Threads
<1>0. "map" \in Steps /\ "completed" \in Terminal /\ "cancelled" \in Terminal
  BY DEF Steps, HandlerSteps, Terminal
<1>1. HandsOf(h)
  BY DEF HandsAgree
<1>2. CASE MapAcp(h)
  BY <1>2, ReturnTypes DEF MapAcp, DatabaseTypes, Statuses, Terminal
<1>3. CASE CancelQueued(h)
  <2>1. job[h] \in Runs
    BY <1>1, <1>3 DEF CancelQueued, HandsOf
  <2>2. QED
    BY <1>0, <1>3, <2>1, FinalizeTypes, ReturnTypes DEF CancelQueued
<1>4. CASE RequestCancel(h)
  BY <1>4, ReturnTypes DEF RequestCancel, DatabaseTypes
<1>5. ASSUME NEW r \in Runs, NEW rt \in Runtimes, InsertSpawn(h, r, rt)
      PROVE  TypeOK'
  <2>1. launcher[h] \in Parents
    BY <1>1, <1>5 DEF InsertSpawn, HandsOf
  <2>2. ThreadTypes'
    BY <1>0, <1>5, WorkTypes, ReturnTypes DEF InsertSpawn
  <2>3. DatabaseTypes' /\ faults' \in 0 .. MaxFaults
    BY <1>5, <2>1, PositionType, ConstantsAssumption
       DEF InsertSpawn, DatabaseTypes, Statuses, Active
  <2>4. QED
    BY <2>2, <2>3
<1>6. QED
  BY <1>2, <1>3, <1>4, <1>5 DEF HandlerStep

LEMMA UserStepTypes ==
  ASSUME SubagentInv, NEW h \in Handlers, UserStep(h)
  PROVE  TypeOK'
<1> USE DEF SubagentInv, TypeOK, Threads
<1>0. /\ "map" \in Steps /\ "cancelQueued" \in Steps /\ "requestCancel" \in Steps
      /\ "completed" \in Terminal /\ "cancelled" \in Terminal
  BY DEF Steps, HandlerSteps, Terminal
<1>1. ASSUME NEW p \in Parents, BeginSpawn(h, p)
      PROVE  TypeOK'
  BY <1>1 DEF BeginSpawn, Begun, Goto, dbVars, DatabaseTypes, ThreadTypes, Steps, HandlerSteps
<1>2. ASSUME NEW r \in Runs, ReadForCancel(h, r)
      PROVE  TypeOK'
  BY <1>0, <1>2, WorkTypes DEF ReadForCancel, dbVars, DatabaseTypes
<1>3. QED
  BY <1>1, <1>2 DEF UserStep

LEMMA OtherStepTypes ==
  ASSUME SubagentInv,
         (\E r \in Runs : DeadlinePasses(r)) \/ (\E t \in Threads : Raise(t)) \/ Crash
  PROVE  TypeOK'
<1> USE DEF SubagentInv, TypeOK
<1>1. CASE \E r \in Runs : DeadlinePasses(r)
  BY <1>1 DEF DeadlinePasses, threadVars, DatabaseTypes, ThreadTypes
<1>2. ASSUME NEW t \in Threads, Raise(t)
      PROVE  TypeOK'
  BY <1>2, ReturnTypes, ConstantsAssumption DEF Raise, dbVars, DatabaseTypes
<1>3. CASE Crash
  BY <1>3, ConstantsAssumption DEF Crash, dbVars, DatabaseTypes, ThreadTypes, Steps, Terminal
<1>4. QED
  BY <1>1, <1>2, <1>3

-----------------------------------------------------------------------------
(* Lemmas about single changes. *)

\* What a step may do to the runs: nothing started is ever taken back.
Monotone ==
  \A r \in Runs :
    /\ Started(r) => Started(r)'
    /\ lifecycle[r] # "none" => lifecycle'[r] # "none" /\ runtime'[r] = runtime[r]

\* The other threads are where they were.
OnlyThread(t) ==
  \A u \in Threads \ {t} :
    /\ pc'[u] = pc[u] /\ job'[u] = job[u] /\ outcome'[u] = outcome[u]
    /\ sweep'[u] = sweep[u] /\ launcher'[u] = launcher[u]

LEMMA HandsKept ==
  ASSUME TypeOK, HandsAgree, Monotone, NEW t \in Threads, OnlyThread(t), HandsOf(t)'
  PROVE  HandsAgree'
<1> SUFFICES ASSUME NEW u \in Threads, u # t
             PROVE  HandsOf(u)'
  BY DEF HandsAgree
<1>1. /\ HandsOf(u) /\ pc'[u] = pc[u] /\ job'[u] = job[u] /\ sweep'[u] = sweep[u]
      /\ launcher'[u] = launcher[u]
  BY DEF HandsAgree, OnlyThread
<1>2. sweep[u] \subseteq Runs
  BY DEF TypeOK, ThreadTypes
<1>3. QED
  BY <1>1, <1>2 DEF HandsOf, Monotone

LEMMA WorkersKeptApart ==
  ASSUME OneWorkerPerRun,
         \A w \in Workers, r \in Runs : Executes(w, r)' => Executes(w, r)
  PROVE  OneWorkerPerRun'
BY DEF OneWorkerPerRun

\* finalize_run takes no run back and reports exactly the ones it ends.
LEMMA FinalizeKeeps ==
  ASSUME TypeOK, ToldAgrees, NEW r \in Runs, NEW s \in Terminal,
         lifecycle[r] # "none", Finalize(r, s)
  PROVE  Monotone /\ ToldAgrees'
<1> USE DEF TypeOK, DatabaseTypes
<1>1. ResolvedStatus(r, s) \in Terminal
  BY DEF ResolvedStatus, Terminal
<1>2. CASE lifecycle[r] \in Terminal
  <2>1. UNCHANGED <<lifecycle, told, runtime>>
    BY <1>2 DEF Finalize
  <2>2. QED
    BY <2>1 DEF Monotone, Started, ToldAgrees
<1>3. CASE lifecycle[r] \notin Terminal
  <2>1. /\ lifecycle' = [lifecycle EXCEPT ![r] = ResolvedStatus(r, s)]
        /\ told' = [told EXCEPT ![r] = Append(@, s)]
        /\ runtime' = runtime
    BY <1>3 DEF Finalize, WriteTerminal, SyncTaskRun
  <2>2. Monotone
    BY <1>1, <2>1 DEF Monotone, Started, Terminal
  <2>3. told'[r] = Append(<<>>, s)
    BY <1>3, <2>1 DEF ToldAgrees
  <2>4. Len(told'[r]) = 1
    BY <2>3
  <2>5. \A q \in Runs \ {r} : told'[q] = told[q] /\ lifecycle'[q] = lifecycle[q]
    BY <2>1
  <2>6. lifecycle'[r] \in Terminal
    BY <1>1, <2>1
  <2>7. QED
    BY <2>1, <2>2, <2>4, <2>5, <2>6 DEF ToldAgrees
<1>4. QED
  BY <1>2, <1>3

-----------------------------------------------------------------------------
(* The invariant is kept. *)

\* A step that changes neither the runs nor what the parents were told.
LEMMA QuietStep ==
  ASSUME SubagentInv, UNCHANGED <<lifecycle, runtime, told>>
  PROVE  Monotone /\ ToldAgrees'
BY DEF SubagentInv, Monotone, Started, ToldAgrees

\* A worker that goes on with its run keeps hold of a started run.
LEMMA WorkKeeps ==
  ASSUME SubagentInv, TypeOK', Monotone, ToldAgrees', NEW w \in Workers,
         pc[w] \in ExecutionSteps,
         NEW step \in ExecutionSteps,
         pc' = [pc EXCEPT ![w] = step], job'[w] = job[w], OnlyThread(w), sweep' = sweep
  PROVE  SubagentInv'
<1> USE DEF SubagentInv, Threads
<1>1. pc'[w] = step
  BY DEF TypeOK, ThreadTypes
<1>2. HandsOf(w)'
  <2>1. HandsOf(w) /\ sweep'[w] = sweep[w] /\ sweep[w] \subseteq Runs
    BY DEF HandsAgree, TypeOK, ThreadTypes
  <2>2. step \notin {"map", "cancelQueued", "insert"}
    BY DEF ExecutionSteps
  <2>3. QED
    BY <1>1, <2>1, <2>2 DEF HandsOf, Monotone
<1>3. HandsAgree'
  BY <1>2, HandsKept
<1>4. \A v \in Workers, r \in Runs : Executes(v, r)' => Executes(v, r)
  BY DEF Executes, OnlyThread
<1>5. QED
  BY <1>3, <1>4, WorkersKeptApart

\* A thread that returns has nothing in its hands.
LEMMA ReturnKeeps ==
  ASSUME SubagentInv, TypeOK', Monotone, ToldAgrees', NEW t \in Threads, Return(t)
  PROVE  SubagentInv'
<1> USE DEF SubagentInv
<1>1. pc'[t] = "idle" /\ sweep'[t] = {} /\ OnlyThread(t)
  BY DEF Return, Goto, TypeOK, ThreadTypes, OnlyThread
<1>2. HandsOf(t)'
  BY <1>1 DEF HandsOf, ExecutionSteps
<1>3. HandsAgree'
  BY <1>1, <1>2, HandsKept
<1>4. \A v \in Workers, r \in Runs : Executes(v, r)' => Executes(v, r)
  BY <1>1 DEF Executes, OnlyThread, ExecutionSteps, Threads
<1>5. QED
  BY <1>3, <1>4, WorkersKeptApart

\* A worker between two runs: it executes nothing.
LEMMA SweepKeeps ==
  ASSUME SubagentInv, TypeOK', Monotone, ToldAgrees', NEW w \in Workers,
         OnlyThread(w), HandsOf(w)', pc'[w] \in {"sweep", "cleanup"}
  PROVE  SubagentInv'
<1> USE DEF SubagentInv, Threads
<1>1. HandsAgree'
  BY HandsKept
<1>2. \A v \in Workers, r \in Runs : Executes(v, r)' => Executes(v, r)
  BY DEF Executes, OnlyThread, ExecutionSteps
<1>3. QED
  BY <1>1, <1>2, WorkersKeptApart

LEMMA TickKeeps ==
  ASSUME SubagentInv, TypeOK', NEW w \in Workers, Tick(w)
  PROVE  SubagentInv'
<1> USE DEF SubagentInv, Threads
<1>1. Monotone /\ ToldAgrees'
  BY QuietStep DEF Tick, dbVars
<1>2. /\ pc'[w] = "sweep" /\ OnlyThread(w)
      /\ sweep'[w] = {r \in Runs : lifecycle[r] = "running"}
  BY DEF Tick, Goto, TypeOK, ThreadTypes, OnlyThread
<1>3. HandsOf(w)'
  BY <1>1, <1>2 DEF HandsOf, Started, Monotone, ExecutionSteps
<1>4. QED
  BY <1>1, <1>2, <1>3, SweepKeeps

LEMMA InspectKeeps ==
  ASSUME SubagentInv, TypeOK', NEW w \in Workers, Inspect(w)
  PROVE  SubagentInv'
<1> USE DEF SubagentInv, Threads
<1>1. Monotone /\ ToldAgrees' /\ UNCHANGED lifecycle
  BY QuietStep DEF Inspect, dbVars
<1>2. PICK r \in sweep[w] :
        /\ sweep' = [sweep EXCEPT ![w] = @ \ {r}]
        /\ launcher' = launcher
        /\ IF overdue[r]
             THEN /\ Goto(w, "cleanup")
                  /\ job' = [job EXCEPT ![w] = r]
                  /\ outcome' = [outcome EXCEPT ![w] =
                       IF cancelRequested[r] THEN "cancelled" ELSE "timed_out"]
             ELSE UNCHANGED <<pc, job, outcome>>
  BY DEF Inspect
<1>3. r \in Runs /\ Started(r) /\ \A q \in sweep[w] : Started(q)
  BY DEF HandsAgree, HandsOf, TypeOK, ThreadTypes
<1>4. OnlyThread(w) /\ sweep'[w] \subseteq sweep[w]
  BY <1>2 DEF OnlyThread, Goto, TypeOK, ThreadTypes
<1>5. \/ pc'[w] = "cleanup" /\ job'[w] = r
      \/ pc'[w] = "sweep"
  BY <1>2 DEF Inspect, Goto, TypeOK, ThreadTypes
<1>6. HandsOf(w)'
  BY <1>1, <1>3, <1>4, <1>5 DEF HandsOf, Started, ExecutionSteps
<1>7. QED
  BY <1>1, <1>4, <1>5, <1>6, SweepKeeps

LEMMA CleanupKeeps ==
  ASSUME SubagentInv, TypeOK', NEW w \in Workers, Cleanup(w)
  PROVE  SubagentInv'
<1> USE DEF SubagentInv, Threads
<1>1. HandsOf(w) /\ outcome[w] \in Terminal /\ sweep[w] \subseteq Runs
  BY DEF HandsAgree, TypeOK, ThreadTypes
<1>2. job[w] \in Runs /\ lifecycle[job[w]] # "none"
  BY <1>1 DEF Cleanup, HandsOf, Started, Terminal
<1>3. Monotone /\ ToldAgrees'
  BY <1>1, <1>2, FinalizeKeeps DEF Cleanup
<1>4. pc'[w] = "sweep" /\ sweep' = sweep /\ OnlyThread(w)
  BY DEF Cleanup, Work, Goto, TypeOK, ThreadTypes, OnlyThread
<1>5. HandsOf(w)'
  BY <1>1, <1>3, <1>4 DEF HandsOf, Monotone, ExecutionSteps
<1>6. QED
  BY <1>3, <1>4, <1>5, SweepKeeps

LEMMA ClaimKeeps ==
  ASSUME SubagentInv, TypeOK', NEW w \in Workers, Claim(w)
  PROVE  SubagentInv'
<1> USE DEF SubagentInv, Threads
<1>1. CASE Return(w) /\ UNCHANGED lifecycle
  BY <1>1, QuietStep, ReturnKeeps DEF Claim
<1>2. ASSUME NEW r \in Runs, OldestQueued(r), lifecycle' = [lifecycle EXCEPT ![r] = "running"],
             Work(w, "prepare", r, "completed"), told' = told, runtime' = runtime
      PROVE  SubagentInv'
  <2>1. lifecycle[r] = "queued" /\ lifecycle'[r] = "running"
        /\ \A q \in Runs \ {r} : lifecycle'[q] = lifecycle[q]
    BY <1>2 DEF OldestQueued, TypeOK, DatabaseTypes
  <2>2. Monotone /\ ToldAgrees'
    BY <1>2, <2>1 DEF Monotone, Started, ToldAgrees, Terminal
  <2>3. pc'[w] = "prepare" /\ job'[w] = r /\ sweep' = sweep /\ OnlyThread(w)
    BY <1>2 DEF Work, Goto, TypeOK, ThreadTypes, OnlyThread
  <2>4. HandsOf(w)'
    <3>1. \A q \in sweep[w] : q \in Runs /\ Started(q)
      BY DEF HandsAgree, HandsOf, TypeOK, ThreadTypes
    <3>2. Started(r)'
      BY <2>1 DEF Started
    <3>3. QED
      BY <2>2, <2>3, <3>1, <3>2 DEF HandsOf, Monotone
  <2>5. HandsAgree'
    BY <2>2, <2>3, <2>4, HandsKept
  <2>6. \A v \in Workers : ~Executes(v, r)
    BY <2>1 DEF HandsAgree, HandsOf, Executes, Started, Terminal
  <2>7. \A v \in Workers, q \in Runs : Executes(v, q)' => Executes(v, q) \/ (v = w /\ q = r)
    BY <2>3 DEF Executes, OnlyThread
  <2>8. OneWorkerPerRun'
    BY <2>6, <2>7 DEF OneWorkerPerRun
  <2>9. QED
    BY <2>2, <2>5, <2>8
<1>3. QED
  BY <1>1, <1>2 DEF Claim

\* The steps of an execution, from the claim to the finalization.
LEMMA ExecutionKeeps ==
  ASSUME SubagentInv, TypeOK', NEW w \in Workers,
         \/ Prepare(w) \/ Attach(w) \/ Probe(w) \/ RunKernel(w) \/ Persist(w)
         \/ Review(w) \/ FinalizeRun(w)
  PROVE  SubagentInv'
<1> USE DEF SubagentInv, Threads
<1>e. /\ "prepare" \in ExecutionSteps /\ "attach" \in ExecutionSteps
      /\ "probe" \in ExecutionSteps /\ "kernel" \in ExecutionSteps
      /\ "recheck" \in ExecutionSteps /\ "persist" \in ExecutionSteps
      /\ "review" \in ExecutionSteps /\ "finalize" \in ExecutionSteps
  BY DEF ExecutionSteps
<1>c. ASSUME NEW step \in ExecutionSteps, Continue(w, step), pc[w] \in ExecutionSteps,
             UNCHANGED <<lifecycle, runtime, told>>
      PROVE  SubagentInv'
  <2>1. pc' = [pc EXCEPT ![w] = step] /\ job'[w] = job[w] /\ OnlyThread(w) /\ sweep' = sweep
    BY <1>c DEF Continue, Goto, OnlyThread, TypeOK, ThreadTypes
  <2>2. QED
    BY <1>c, <2>1, QuietStep, WorkKeeps
<1>w. ASSUME NEW step \in ExecutionSteps, NEW s, Work(w, step, job[w], s),
             pc[w] \in ExecutionSteps, UNCHANGED <<lifecycle, runtime, told>>
      PROVE  SubagentInv'
  <2>1. pc' = [pc EXCEPT ![w] = step] /\ job'[w] = job[w] /\ OnlyThread(w) /\ sweep' = sweep
    BY <1>w DEF Work, Goto, OnlyThread, TypeOK, ThreadTypes
  <2>2. QED
    BY <1>w, <2>1, QuietStep, WorkKeeps
<1>1. CASE Prepare(w)
  BY <1>1, <1>c, <1>e DEF Prepare
<1>2. CASE Attach(w)
  BY <1>2, <1>c, <1>e DEF Attach
<1>3. CASE Probe(w)
  BY <1>3, <1>c, <1>w, <1>e DEF Probe, dbVars
<1>4. CASE RunKernel(w)
  BY <1>4, <1>w, <1>e DEF RunKernel, KernelStatuses, Normalized, dbVars
<1>5. CASE Persist(w)
  BY <1>5, <1>c, <1>e DEF Persist
<1>6. CASE Review(w)
  <2>1. CASE Return(w)
    BY <1>6, <2>1, QuietStep, ReturnKeeps DEF Review, dbVars
  <2>2. CASE Work(w, "finalize", job[w],
                  IF cancelRequested[job[w]] THEN "cancelled" ELSE outcome[w])
    BY <1>6, <2>2, <1>w, <1>e DEF Review, dbVars
  <2>3. QED
    BY <1>6, <2>1, <2>2 DEF Review
<1>7. CASE FinalizeRun(w)
  <2>1. job[w] \in Runs /\ lifecycle[job[w]] # "none" /\ outcome[w] \in Terminal
    BY <1>7, <1>e DEF FinalizeRun, HandsAgree, HandsOf, Started, Terminal, TypeOK, ThreadTypes
  <2>2. QED
    BY <1>7, <2>1, FinalizeKeeps, ReturnKeeps DEF FinalizeRun
<1>8. QED
  BY <1>1, <1>2, <1>3, <1>4, <1>5, <1>6, <1>7

LEMMA HandlerStepKeeps ==
  ASSUME SubagentInv, TypeOK', NEW h \in Handlers, HandlerStep(h)
  PROVE  SubagentInv'
<1> USE DEF SubagentInv, Threads
<1>1. HandsOf(h)
  BY DEF HandsAgree
<1>2. CASE MapAcp(h)
  <2>1. /\ job[h] \in Runs /\ runtime[job[h]] = "acp" /\ lifecycle[job[h]] # "none"
        /\ lifecycle'[job[h]] = "completed" /\ UNCHANGED <<runtime, told>>
        /\ \A q \in Runs \ {job[h]} : lifecycle'[q] = lifecycle[q]
    BY <1>1, <1>2 DEF MapAcp, HandsOf, TypeOK, DatabaseTypes
  <2>2. Monotone /\ ToldAgrees'
    BY <2>1 DEF Monotone, Started, ToldAgrees, Terminal
  <2>3. QED
    BY <1>2, <2>2, ReturnKeeps DEF MapAcp
<1>3. CASE CancelQueued(h)
  <2>1. job[h] \in Runs /\ lifecycle[job[h]] # "none" /\ "cancelled" \in Terminal
    BY <1>1, <1>3 DEF CancelQueued, HandsOf, Terminal
  <2>2. QED
    BY <1>3, <2>1, FinalizeKeeps, ReturnKeeps DEF CancelQueued
<1>4. CASE RequestCancel(h)
  BY <1>4, QuietStep, ReturnKeeps DEF RequestCancel
<1>5. ASSUME NEW r \in Runs, NEW rt \in Runtimes, InsertSpawn(h, r, rt)
      PROVE  SubagentInv'
  <2>1. /\ lifecycle[r] = "none" /\ lifecycle'[r] = "queued"
        /\ runtime'[r] = rt /\ told' = told
        /\ \A q \in Runs \ {r} : lifecycle'[q] = lifecycle[q] /\ runtime'[q] = runtime[q]
    BY <1>5 DEF InsertSpawn, TypeOK, DatabaseTypes
  <2>2. Monotone /\ ToldAgrees'
    BY <2>1 DEF Monotone, Started, ToldAgrees, Terminal
  <2>3. CASE Return(h)
    BY <2>2, <2>3, ReturnKeeps
  <2>4. CASE rt = "acp" /\ Work(h, "map", r, "completed")
    <3>1. OnlyThread(h) /\ sweep' = sweep /\ pc'[h] = "map" /\ job'[h] = r
      BY <2>4 DEF Work, Goto, OnlyThread, TypeOK, ThreadTypes
    <3>2. sweep[h] \subseteq Runs /\ h \notin Workers
      BY ConstantsAssumption DEF TypeOK, ThreadTypes
    <3>3. HandsOf(h)'
      BY <1>1, <2>1, <2>2, <2>4, <3>1, <3>2 DEF HandsOf, Monotone, ExecutionSteps
    <3>4. \A v \in Workers, q \in Runs : Executes(v, q)' => Executes(v, q)
      BY <3>1, <3>2 DEF Executes, OnlyThread
    <3>5. QED
      BY <2>2, <3>1, <3>3, <3>4, HandsKept, WorkersKeptApart
  <2>5. QED
    BY <1>5, <2>3, <2>4 DEF InsertSpawn
<1>6. QED
  BY <1>2, <1>3, <1>4, <1>5 DEF HandlerStep

LEMMA UserStepKeeps ==
  ASSUME SubagentInv, TypeOK', NEW h \in Handlers, UserStep(h)
  PROVE  SubagentInv'
<1> USE DEF SubagentInv, Threads
<1>h. HandsOf(h) /\ sweep[h] \subseteq Runs /\ h \notin Workers
  BY ConstantsAssumption DEF HandsAgree, TypeOK, ThreadTypes
<1>x. ASSUME OnlyThread(h)
      PROVE  \A v \in Workers, q \in Runs : Executes(v, q)' => Executes(v, q)
  BY <1>h, <1>x DEF Executes, OnlyThread
<1>1. ASSUME NEW p \in Parents, BeginSpawn(h, p)
      PROVE  SubagentInv'
  <2>1. Monotone /\ ToldAgrees' /\ UNCHANGED lifecycle
    BY <1>1, QuietStep DEF BeginSpawn, Begun, dbVars
  <2>2. OnlyThread(h) /\ sweep' = sweep /\ pc'[h] = "insert" /\ launcher'[h] = p
    BY <1>1 DEF BeginSpawn, Begun, Goto, OnlyThread, TypeOK, ThreadTypes
  <2>3. HandsOf(h)'
    BY <1>h, <2>1, <2>2 DEF HandsOf, Started, ExecutionSteps
  <2>4. QED
    BY <1>x, <2>1, <2>2, <2>3, HandsKept, WorkersKeptApart
<1>2. ASSUME NEW r \in Runs, ReadForCancel(h, r)
      PROVE  SubagentInv'
  <2>1. Monotone /\ ToldAgrees' /\ UNCHANGED lifecycle
    BY <1>2, QuietStep DEF ReadForCancel, dbVars
  <2>2. /\ OnlyThread(h) /\ sweep' = sweep /\ job'[h] = r
        /\ \/ pc'[h] = "cancelQueued" /\ lifecycle[r] = "queued"
           \/ pc'[h] = "requestCancel" /\ lifecycle[r] = "running"
    BY <1>2 DEF ReadForCancel, Work, Goto, OnlyThread, TypeOK, ThreadTypes
  <2>3. HandsOf(h)'
    BY <1>h, <2>1, <2>2 DEF HandsOf, Started, ExecutionSteps
  <2>4. QED
    BY <1>x, <2>1, <2>2, <2>3, HandsKept, WorkersKeptApart
<1>3. QED
  BY <1>1, <1>2 DEF UserStep

LEMMA OtherStepKeeps ==
  ASSUME SubagentInv, TypeOK',
         (\E r \in Runs : DeadlinePasses(r)) \/ (\E t \in Threads : Raise(t)) \/ Crash
  PROVE  SubagentInv'
<1> USE DEF SubagentInv
<1>1. CASE \E r \in Runs : DeadlinePasses(r)
  BY <1>1, QuietStep
     DEF DeadlinePasses, threadVars, HandsAgree, HandsOf, Started, OneWorkerPerRun, Executes
<1>2. ASSUME NEW t \in Threads, Raise(t)
      PROVE  SubagentInv'
  BY <1>2, QuietStep, ReturnKeeps DEF Raise, dbVars
<1>3. CASE Crash
  <2>1. \A t \in Threads : pc'[t] = "idle" /\ sweep'[t] = {}
    BY <1>3 DEF Crash
  <2>2. HandsAgree'
    BY <2>1 DEF HandsAgree, HandsOf, ExecutionSteps
  <2>3. OneWorkerPerRun'
    BY <2>1 DEF OneWorkerPerRun, Executes, ExecutionSteps, Threads
  <2>4. QED
    BY <1>3, <2>2, <2>3, QuietStep DEF Crash, dbVars
<1>4. QED
  BY <1>1, <1>2, <1>3

LEMMA InvariantInit == Init => SubagentInv
<1> SUFFICES ASSUME Init PROVE SubagentInv
  OBVIOUS
<1>1. TypeOK
  BY ConstantsAssumption DEF Init, TypeOK, DatabaseTypes, ThreadTypes, Statuses, Steps, Terminal
<1>2. HandsAgree /\ OneWorkerPerRun /\ ToldAgrees
  BY DEF Init, HandsAgree, HandsOf, OneWorkerPerRun, Executes, ToldAgrees, ExecutionSteps,
         Terminal, Threads
<1>3. QED
  BY <1>1, <1>2 DEF SubagentInv

LEMMA InvariantNext == SubagentInv /\ [Next]_vars => SubagentInv'
<1> SUFFICES ASSUME SubagentInv, [Next]_vars PROVE SubagentInv'
  OBVIOUS
<1>1. ASSUME NEW w \in Workers, WorkerStep(w)
      PROVE  SubagentInv'
  BY <1>1, WorkerStepTypes, TickKeeps, InspectKeeps, CleanupKeeps, ClaimKeeps, ExecutionKeeps
     DEF WorkerStep
<1>2. ASSUME NEW h \in Handlers, HandlerStep(h)
      PROVE  SubagentInv'
  BY <1>2, HandlerStepTypes, HandlerStepKeeps
<1>3. ASSUME NEW h \in Handlers, UserStep(h)
      PROVE  SubagentInv'
  BY <1>3, UserStepTypes, UserStepKeeps
<1>4. CASE (\E r \in Runs : DeadlinePasses(r)) \/ (\E t \in Threads : Raise(t)) \/ Crash
  BY <1>4, OtherStepTypes, OtherStepKeeps
<1>5. CASE UNCHANGED vars
  BY <1>5 DEF vars, dbVars, threadVars, SubagentInv, TypeOK, DatabaseTypes, ThreadTypes,
              HandsAgree, HandsOf, Started, OneWorkerPerRun, Executes, ToldAgrees
<1>6. QED
  BY <1>1, <1>2, <1>3, <1>4, <1>5 DEF Next

-----------------------------------------------------------------------------
(* The theorems. *)

LEMMA InvariantHolds == Spec => []SubagentInv
<1>1. QED
  BY InvariantInit, InvariantNext, PTL DEF Spec

\* The tables and the threads of the subagent runtime stay well typed.
THEOREM SubagentTypes == Spec => []TypeOK
<1>1. SubagentInv => TypeOK
  BY DEF SubagentInv
<1>2. QED
  BY <1>1, InvariantHolds, PTL

\* From its claim to its finalization a delegated run has at most one worker,
\* however many workers poll the queue.
THEOREM NoSecondWorker == Spec => []OneWorkerPerRun
<1>1. SubagentInv => OneWorkerPerRun
  BY DEF SubagentInv
<1>2. QED
  BY <1>1, InvariantHolds, PTL

\* The parent of a native run gets one summary, exactly when the run ends.
THEOREM ToldExactlyOnce == Spec => []ToldOnceWhenTerminal
<1>1. SubagentInv => ToldOnceWhenTerminal
  <2>1. Len(<<>>) = 0
    OBVIOUS
  <2>2. QED
    BY <2>1 DEF SubagentInv, ToldAgrees, ToldOnceWhenTerminal
<1>2. QED
  BY <1>1, InvariantHolds, PTL

-----------------------------------------------------------------------------
(* What a worker and its run know of the outcome. *)

\* The result a worker carries is the one it has committed to the task run, as
\* long as nobody else has ended the run.
ResultOf(w) ==
  /\ pc[w] = "cleanup" => outcome[w] \in {"cancelled", "timed_out"}
  /\ pc[w] \in {"review", "finalize"} =>
       /\ taskRun[job[w]] # "running"
       /\ /\ outcome[w] \in {"completed", "failed"}
          /\ lifecycle[job[w]] \notin Terminal
          => taskRun[job[w]] = outcome[w]

\* A run shown as completed or failed is backed by its task run and is nobody's
\* work any more; a task run that is running is somebody's work.
Backed(r) ==
  /\ runtime[r] = "subagent" /\ lifecycle[r] \in {"completed", "failed"} =>
       taskRun[r] = lifecycle[r] /\ \A w \in Workers : ~Executes(w, r)
  /\ faults = 0 /\ taskRun[r] = "running" => \E w \in Workers : Executes(w, r)

Outcomes == (\A w \in Workers : ResultOf(w)) /\ (\A r \in Runs : Backed(r))

OutcomeInv == SubagentInv /\ Outcomes

\* A step that leaves the runs and their task runs alone.
LEMMA QuietOutcomes ==
  ASSUME OutcomeInv, NEW t \in Threads, OnlyThread(t),
         UNCHANGED <<lifecycle, runtime, taskRun>>,
         t \in Workers => ResultOf(t)',
         \A r \in Runs : Executes(t, r)' => Executes(t, r),
         faults' = 0 => /\ faults = 0
                        /\ \A r \in Runs : taskRun[r] = "running" /\ Executes(t, r)
                                             => Executes(t, r)'
  PROVE  Outcomes'
<1> USE DEF OutcomeInv, Outcomes
<1>1. ASSUME NEW v \in Workers
      PROVE  ResultOf(v)'
  BY DEF ResultOf, OnlyThread, Threads
<1>2. ASSUME NEW r \in Runs
      PROVE  Backed(r)'
  <2>1. Backed(r) /\ lifecycle'[r] = lifecycle[r] /\ runtime'[r] = runtime[r]
        /\ taskRun'[r] = taskRun[r]
    OBVIOUS
  <2>2. \A v \in Workers : v # t => (Executes(v, r)' <=> Executes(v, r))
    BY DEF Executes, OnlyThread, Threads
  <2>3. QED
    BY <2>1, <2>2 DEF Backed
<1>3. QED
  BY <1>1, <1>2

\* A worker that commits a status to the task run of the run it executes.
LEMMA CommitOutcomes ==
  ASSUME OutcomeInv, NEW w \in Workers, OnlyThread(w),
         UNCHANGED <<lifecycle, runtime, faults>>, job[w] \in Runs, job'[w] = job[w],
         pc[w] \in ExecutionSteps, pc'[w] \in ExecutionSteps,
         NEW s, taskRun' = [taskRun EXCEPT ![job[w]] = s],
         pc'[w] \in {"review", "finalize"} => s # "running" /\ outcome'[w] = s
  PROVE  Outcomes'
<1> USE DEF OutcomeInv, Outcomes, SubagentInv
<1> DEFINE r == job[w]
<1>1. /\ Executes(w, r) /\ Executes(w, r)' /\ taskRun'[r] = s
      /\ \A q \in Runs \ {r} : taskRun'[q] = taskRun[q]
      /\ \A v \in Workers \ {w} : ~Executes(v, r)
  BY DEF Executes, TypeOK, DatabaseTypes, OneWorkerPerRun
<1>2. ASSUME NEW v \in Workers
      PROVE  ResultOf(v)'
  <2>1. CASE v = w
    BY <1>1, <2>1 DEF ResultOf, ExecutionSteps
  <2>2. CASE v # w
    <3>1. /\ pc'[v] = pc[v] /\ job'[v] = job[v] /\ outcome'[v] = outcome[v]
          /\ ResultOf(v)
      BY <2>2 DEF OnlyThread, Threads
    <3>2. pc[v] \in {"review", "finalize"} => job[v] \in Runs \ {r}
      BY <1>1, <2>2 DEF HandsAgree, HandsOf, Executes, ExecutionSteps, Threads
    <3>3. QED
      BY <1>1, <3>1, <3>2 DEF ResultOf
  <2>3. QED
    BY <2>1, <2>2
<1>3. ASSUME NEW q \in Runs
      PROVE  Backed(q)'
  <2>1. CASE q = r
    BY <1>1, <2>1 DEF Backed
  <2>2. CASE q # r
    <3>1. \A v \in Workers : Executes(v, q)' <=> Executes(v, q)
      BY <2>2 DEF Executes, OnlyThread, Threads
    <3>2. QED
      BY <1>1, <2>2, <3>1 DEF Backed
  <2>3. QED
    BY <2>1, <2>2
<1>4. QED
  BY <1>2, <1>3

\* finalize_run ends a run as completed or failed only for the worker that has
\* committed that very status to the task run.
LEMMA FinalizeOutcomes ==
  ASSUME OutcomeInv, NEW t \in Threads, OnlyThread(t), UNCHANGED faults,
         NEW r \in Runs, NEW s \in Terminal, Finalize(r, s),
         pc'[t] \in {"idle", "sweep"},
         \A q \in Runs : Executes(t, q) => taskRun[q] # "running",
         \/ s \in {"cancelled", "timed_out"}
         \/ t \in Workers /\ pc[t] = "finalize" /\ job[t] = r /\ outcome[t] = s
  PROVE  Outcomes'
<1> USE DEF OutcomeInv, Outcomes, SubagentInv
<1>1. \A v \in Workers, q \in Runs : Executes(v, q)' <=> Executes(v, q) /\ v # t
  BY DEF Executes, OnlyThread, Threads, ExecutionSteps
<1>2. t \in Workers => ResultOf(t)'
  BY DEF ResultOf
<1>3. CASE lifecycle[r] \in Terminal
  <2>1. UNCHANGED <<lifecycle, taskRun, runtime>>
    BY <1>3 DEF Finalize
  <2>2. ASSUME NEW v \in Workers PROVE ResultOf(v)'
    BY <1>2, <2>1 DEF ResultOf, OnlyThread, Threads
  <2>3. ASSUME NEW q \in Runs PROVE Backed(q)'
    BY <1>1, <2>1 DEF Backed
  <2>4. QED
    BY <2>2, <2>3
<1>4. CASE lifecycle[r] \notin Terminal
  <2> DEFINE resolved == ResolvedStatus(r, s)
  <2>1. /\ lifecycle' = [lifecycle EXCEPT ![r] = resolved]
        /\ taskRun' = [taskRun EXCEPT ![r] = IF attached[r] THEN resolved ELSE @]
        /\ runtime' = runtime
    BY <1>4 DEF Finalize, WriteTerminal, SyncTaskRun
  <2>2. resolved \in Terminal /\ (resolved = s \/ resolved = "cancelled")
    BY DEF ResolvedStatus, Terminal
  <2> HIDE DEF resolved
  <2>3. /\ lifecycle'[r] = resolved /\ taskRun'[r] \in {resolved, taskRun[r]}
        /\ \A q \in Runs \ {r} : lifecycle'[q] = lifecycle[q] /\ taskRun'[q] = taskRun[q]
    BY <2>1 DEF TypeOK, DatabaseTypes
  <2>4. ASSUME NEW v \in Workers PROVE ResultOf(v)'
    <3>1. CASE v # t
      <4>1. /\ pc'[v] = pc[v] /\ job'[v] = job[v] /\ outcome'[v] = outcome[v]
            /\ ResultOf(v)
        BY <3>1 DEF OnlyThread, Threads
      <4>2. pc[v] \in {"review", "finalize"} => job[v] \in Runs
        BY DEF HandsAgree, HandsOf, ExecutionSteps, Threads
      <4>3. resolved # "running"
        BY <2>2 DEF Terminal
      <4>4. QED
        BY <2>2, <2>3, <4>1, <4>2, <4>3 DEF ResultOf
    <3>2. QED
      BY <1>2, <3>1
  <2>5. ASSUME NEW q \in Runs PROVE Backed(q)'
    <3>1. CASE q # r
      BY <1>1, <2>1, <2>3, <3>1 DEF Backed
    <3>2. CASE q = r
      <4>1. ASSUME resolved \in {"completed", "failed"}
            PROVE  /\ taskRun'[r] = resolved
                   /\ \A v \in Workers : ~Executes(v, r)'
        <5>1. t \in Workers /\ pc[t] = "finalize" /\ job[t] = r /\ outcome[t] = resolved
          BY <2>2, <4>1
        <5>2. taskRun[r] = resolved
          BY <1>4, <4>1, <5>1 DEF ResultOf
        <5>3. Executes(t, r)
          BY <5>1 DEF Executes, ExecutionSteps
        <5>4. QED
          BY <1>1, <2>3, <5>1, <5>2, <5>3 DEF OneWorkerPerRun
      <4>2. ASSUME faults' = 0, taskRun'[r] = "running"
            PROVE  \E v \in Workers : Executes(v, r)'
        <5>1. taskRun[r] = "running" /\ faults = 0
          BY <2>2, <2>3, <4>2 DEF Terminal
        <5>2. PICK v \in Workers : Executes(v, r)
          BY <5>1 DEF Backed
        <5>3. QED
          BY <1>1, <5>1, <5>2
      <4>3. QED
        BY <2>3, <3>2, <4>1, <4>2 DEF Backed
    <3>3. QED
      BY <3>1, <3>2
  <2>6. QED
    BY <2>4, <2>5
<1>5. QED
  BY <1>3, <1>4

\* The steps of a worker around and in an execution.
LEMMA WorkerOutcomes ==
  ASSUME OutcomeInv, NEW w \in Workers, WorkerStep(w)
  PROVE  Outcomes'
<1> USE DEF OutcomeInv, SubagentInv, Threads
<1>t. w \in Threads /\ HandsOf(w) /\ ResultOf(w) /\ outcome[w] \in Terminal
  BY DEF HandsAgree, Outcomes, TypeOK, ThreadTypes
<1>j. pc[w] \in ExecutionSteps \cup {"cleanup"} => job[w] \in Runs
  BY <1>t DEF HandsOf
<1>1. CASE Tick(w)
  <2>1. pc'[w] = "sweep" /\ pc[w] = "idle" /\ OnlyThread(w)
    BY <1>1 DEF Tick, Goto, OnlyThread, TypeOK, ThreadTypes
  <2>2. UNCHANGED <<lifecycle, runtime, taskRun, faults>>
    BY <1>1 DEF Tick, dbVars
  <2>3. QED
    BY <2>1, <2>2, QuietOutcomes DEF ResultOf, Executes, ExecutionSteps
<1>2. CASE Inspect(w)
  <2>1. PICK r \in sweep[w] :
          /\ sweep' = [sweep EXCEPT ![w] = @ \ {r}]
          /\ launcher' = launcher
          /\ IF overdue[r]
               THEN /\ Goto(w, "cleanup")
                    /\ job' = [job EXCEPT ![w] = r]
                    /\ outcome' = [outcome EXCEPT ![w] =
                         IF cancelRequested[r] THEN "cancelled" ELSE "timed_out"]
               ELSE UNCHANGED <<pc, job, outcome>>
    BY <1>2 DEF Inspect
  <2>2. /\ OnlyThread(w) /\ pc[w] = "sweep" /\ pc'[w] \in {"sweep", "cleanup"}
        /\ pc'[w] = "cleanup" => outcome'[w] \in {"cancelled", "timed_out"}
    BY <1>2, <2>1 DEF Inspect, Goto, OnlyThread, TypeOK, ThreadTypes
  <2>3. UNCHANGED <<lifecycle, runtime, taskRun, faults>>
    BY <1>2 DEF Inspect, dbVars
  <2>4. QED
    BY <2>2, <2>3, QuietOutcomes DEF ResultOf, Executes, ExecutionSteps
<1>3. CASE Cleanup(w)
  <2>1. /\ pc[w] = "cleanup" /\ pc'[w] = "sweep" /\ OnlyThread(w) /\ UNCHANGED faults
        /\ Finalize(job[w], outcome[w])
    BY <1>3 DEF Cleanup, Work, Goto, OnlyThread, TypeOK, ThreadTypes
  <2>2. outcome[w] \in {"cancelled", "timed_out"} /\ job[w] \in Runs
    BY <1>t, <1>j, <2>1 DEF ResultOf
  <2>3. QED
    BY <1>t, <2>1, <2>2, FinalizeOutcomes DEF Executes, ExecutionSteps
<1>4. CASE Claim(w)
  <2>0. pc[w] = "sweep" /\ UNCHANGED <<runtime, taskRun, faults>>
    BY <1>4 DEF Claim
  <2>1. CASE Return(w) /\ UNCHANGED lifecycle
    <3>1. pc'[w] = "idle" /\ OnlyThread(w)
      BY <2>1 DEF Return, Goto, OnlyThread, TypeOK, ThreadTypes
    <3>2. QED
      BY <2>0, <2>1, <3>1, QuietOutcomes DEF ResultOf, Executes, ExecutionSteps
  <2>2. ASSUME NEW r \in Runs, OldestQueued(r),
               lifecycle' = [lifecycle EXCEPT ![r] = "running"],
               Work(w, "prepare", r, "completed")
        PROVE  Outcomes'
    <3>1. /\ lifecycle[r] = "queued" /\ lifecycle'[r] = "running"
          /\ \A q \in Runs \ {r} : lifecycle'[q] = lifecycle[q]
      BY <2>2 DEF OldestQueued, TypeOK, DatabaseTypes
    <3>2. OnlyThread(w) /\ pc'[w] = "prepare"
      BY <2>2 DEF Work, Goto, OnlyThread, TypeOK, ThreadTypes
    <3>3. \A v \in Workers : ~Executes(v, r)
      BY <3>1 DEF HandsAgree, HandsOf, Executes, Started, Terminal
    <3>4. ASSUME NEW v \in Workers PROVE ResultOf(v)'
      <4>1. CASE v # w
        <5>1. /\ pc'[v] = pc[v] /\ job'[v] = job[v] /\ outcome'[v] = outcome[v]
              /\ ResultOf(v)
          BY <3>2, <4>1 DEF OnlyThread, Outcomes
        <5>2. pc[v] \in {"review", "finalize"} => job[v] \in Runs \ {r}
          BY <3>3 DEF HandsAgree, HandsOf, Executes, ExecutionSteps
        <5>3. QED
          BY <2>0, <3>1, <5>1, <5>2 DEF ResultOf
      <4>2. QED
        BY <3>2, <4>1 DEF ResultOf
    <3>5. ASSUME NEW q \in Runs PROVE Backed(q)'
      <4>0. \A v \in Workers : Executes(v, q) => Executes(v, q)'
        BY <2>0, <3>2 DEF Executes, OnlyThread, ExecutionSteps
      <4>1. CASE q = r
        BY <2>0, <3>1, <4>0, <4>1 DEF Outcomes, Backed
      <4>2. CASE q # r
        <5>1. \A v \in Workers : Executes(v, q)' => Executes(v, q)
          BY <2>2, <3>2, <4>2 DEF Executes, OnlyThread, Work, TypeOK, ThreadTypes
        <5>2. QED
          BY <2>0, <3>1, <4>0, <4>2, <5>1 DEF Outcomes, Backed
      <4>3. QED
        BY <4>1, <4>2
    <3>6. QED
      BY <3>4, <3>5 DEF Outcomes
  <2>3. QED
    BY <1>4, <2>1, <2>2 DEF Claim
<1>5. CASE Prepare(w)
  <2>1. /\ pc[w] = "prepare" /\ pc'[w] = "attach" /\ job'[w] = job[w] /\ OnlyThread(w)
        /\ taskRun' = [taskRun EXCEPT ![job[w]] = "running"]
        /\ UNCHANGED <<lifecycle, runtime, faults>>
    BY <1>5 DEF Prepare, Continue, Goto, OnlyThread, TypeOK, ThreadTypes
  <2>2. QED
    BY <1>j, <2>1, CommitOutcomes DEF ExecutionSteps
<1>6. CASE Persist(w)
  <2>1. /\ pc[w] = "persist" /\ pc'[w] = "review" /\ job'[w] = job[w] /\ OnlyThread(w)
        /\ taskRun' = [taskRun EXCEPT ![job[w]] = outcome[w]] /\ outcome'[w] = outcome[w]
        /\ UNCHANGED <<lifecycle, runtime, faults>>
    BY <1>6 DEF Persist, Continue, Goto, OnlyThread, TypeOK, ThreadTypes
  <2>2. outcome[w] # "running"
    BY <1>t DEF Terminal
  <2>3. QED
    BY <1>j, <2>1, <2>2, CommitOutcomes DEF ExecutionSteps
<1>7. CASE Attach(w) \/ Probe(w) \/ RunKernel(w)
  <2>1. UNCHANGED <<lifecycle, runtime, taskRun, faults>>
    BY <1>7 DEF Attach, Probe, RunKernel, dbVars
  <2>2. /\ OnlyThread(w) /\ pc[w] \in ExecutionSteps /\ job'[w] = job[w]
        /\ pc'[w] \in ExecutionSteps \ {"review", "finalize"}
    BY <1>7 DEF Attach, Probe, RunKernel, KernelStatuses, Normalized, Continue, Work, Goto,
                OnlyThread, TypeOK, ThreadTypes, ExecutionSteps
  <2>3. ResultOf(w)' /\ \A r \in Runs : Executes(w, r)' <=> Executes(w, r)
    BY <2>2 DEF ResultOf, Executes, ExecutionSteps
  <2>4. QED
    BY <2>1, <2>2, <2>3, QuietOutcomes
<1>8. CASE Review(w)
  <2>1. /\ UNCHANGED <<lifecycle, runtime, taskRun, faults>> /\ pc[w] = "review"
        /\ taskRun[job[w]] # "running" /\ job[w] \in Runs
    BY <1>8, <1>t, <1>j DEF Review, dbVars, ResultOf, ExecutionSteps
  <2>2. CASE Return(w)
    <3>1. pc'[w] = "idle" /\ OnlyThread(w)
      BY <2>2 DEF Return, Goto, OnlyThread, TypeOK, ThreadTypes
    <3>2. QED
      BY <2>1, <3>1, QuietOutcomes DEF ResultOf, Executes, ExecutionSteps
  <2>3. CASE Work(w, "finalize", job[w],
                  IF cancelRequested[job[w]] THEN "cancelled" ELSE outcome[w])
    <3>1. /\ OnlyThread(w) /\ pc'[w] = "finalize" /\ job'[w] = job[w]
          /\ outcome'[w] \in {"cancelled", outcome[w]}
      BY <2>3 DEF Work, Goto, OnlyThread, TypeOK, ThreadTypes
    <3>2. ResultOf(w)' /\ \A r \in Runs : Executes(w, r)' <=> Executes(w, r)
      BY <1>t, <2>1, <3>1 DEF ResultOf, Executes, ExecutionSteps
    <3>3. QED
      BY <2>1, <3>1, <3>2, QuietOutcomes
  <2>4. QED
    BY <1>8, <2>2, <2>3 DEF Review
<1>9. CASE FinalizeRun(w)
  <2>1. /\ pc[w] = "finalize" /\ pc'[w] = "idle" /\ OnlyThread(w) /\ UNCHANGED faults
        /\ Finalize(job[w], outcome[w])
    BY <1>9 DEF FinalizeRun, Return, Goto, OnlyThread, TypeOK, ThreadTypes
  <2>2. job[w] \in Runs /\ \A q \in Runs : Executes(w, q) => taskRun[q] # "running"
    BY <1>j, <1>t, <2>1 DEF ResultOf, Executes, ExecutionSteps
  <2>3. QED
    BY <1>t, <2>1, <2>2, FinalizeOutcomes
<1>10. QED
  BY <1>1, <1>2, <1>3, <1>4, <1>5, <1>6, <1>7, <1>8, <1>9 DEF WorkerStep

\* Handlers never write completed or failed to a native run.
LEMMA HandlerOutcomes ==
  ASSUME OutcomeInv, NEW h \in Handlers, HandlerStep(h) \/ UserStep(h)
  PROVE  Outcomes'
<1> USE DEF OutcomeInv, SubagentInv, Threads
<1>h. h \in Threads /\ h \notin Workers /\ HandsOf(h)
  BY ConstantsAssumption DEF HandsAgree
<1>1. CASE MapAcp(h)
  <2>1. /\ job[h] \in Runs /\ runtime[job[h]] = "acp" /\ lifecycle'[job[h]] = "completed"
        /\ \A q \in Runs \ {job[h]} : lifecycle'[q] = lifecycle[q]
        /\ UNCHANGED <<runtime, taskRun, faults>>
    BY <1>h, <1>1 DEF MapAcp, HandsOf, TypeOK, DatabaseTypes
  <2>2. \A v \in Workers : pc'[v] = pc[v] /\ job'[v] = job[v] /\ outcome'[v] = outcome[v]
    BY <1>h, <1>1 DEF MapAcp, Return, Goto, TypeOK, ThreadTypes
  <2>3. ASSUME NEW v \in Workers PROVE ResultOf(v)'
    <3>1. pc[v] \in {"review", "finalize"} => job[v] \in Runs
      BY DEF HandsAgree, HandsOf, ExecutionSteps
    <3>2. ResultOf(v)
      BY DEF Outcomes
    <3>3. QED
      BY <2>1, <2>2, <3>1, <3>2 DEF ResultOf, Terminal
  <2>4. ASSUME NEW q \in Runs PROVE Backed(q)'
    <3>1. \A v \in Workers : Executes(v, q)' <=> Executes(v, q)
      BY <2>2 DEF Executes
    <3>2. QED
      BY <2>1, <3>1 DEF Outcomes, Backed
  <2>5. QED
    BY <2>3, <2>4 DEF Outcomes
<1>2. CASE CancelQueued(h)
  <2>1. /\ pc[h] = "cancelQueued" /\ pc'[h] = "idle" /\ OnlyThread(h) /\ UNCHANGED faults
        /\ Finalize(job[h], "cancelled") /\ job[h] \in Runs
    BY <1>h, <1>2 DEF CancelQueued, Return, Goto, OnlyThread, TypeOK, ThreadTypes, HandsOf
  <2>2. "cancelled" \in Terminal /\ \A q \in Runs : ~Executes(h, q)
    BY <2>1 DEF Terminal, Executes, ExecutionSteps
  <2>3. QED
    BY <1>h, <2>1, <2>2, FinalizeOutcomes
<1>3. ASSUME RequestCancel(h) \/ (\E r \in Runs : ReadForCancel(h, r))
             \/ (\E p \in Parents : BeginSpawn(h, p))
      PROVE  Outcomes'
  <2>1. UNCHANGED <<lifecycle, runtime, taskRun, faults>> /\ OnlyThread(h)
    BY <1>3 DEF RequestCancel, ReadForCancel, BeginSpawn, Begun, dbVars, Return, Work, Goto,
                OnlyThread, TypeOK, ThreadTypes
  <2>2. \A q \in Runs : ~Executes(h, q) /\ ~Executes(h, q)'
    BY <1>3 DEF RequestCancel, ReadForCancel, BeginSpawn, Begun, Return, Work, Goto,
                Executes, ExecutionSteps, TypeOK, ThreadTypes
  <2>3. QED
    BY <1>h, <2>1, <2>2, QuietOutcomes
<1>4. ASSUME NEW r \in Runs, NEW rt \in Runtimes, InsertSpawn(h, r, rt)
      PROVE  Outcomes'
  <2>1. /\ lifecycle[r] = "none" /\ lifecycle'[r] = "queued"
        /\ \A q \in Runs \ {r} : lifecycle'[q] = lifecycle[q] /\ runtime'[q] = runtime[q]
        /\ UNCHANGED <<taskRun, faults>>
    BY <1>4 DEF InsertSpawn, TypeOK, DatabaseTypes
  <2>2. \A v \in Workers : pc'[v] = pc[v] /\ job'[v] = job[v] /\ outcome'[v] = outcome[v]
    BY <1>h, <1>4 DEF InsertSpawn, Work, Return, Goto, TypeOK, ThreadTypes
  <2>3. ASSUME NEW v \in Workers PROVE ResultOf(v)'
    <3>1. pc[v] \in {"review", "finalize"} => job[v] \in Runs \ {r}
      BY <2>1 DEF HandsAgree, HandsOf, ExecutionSteps, Started, Terminal
    <3>2. ResultOf(v)
      BY DEF Outcomes
    <3>3. QED
      BY <2>1, <2>2, <3>1, <3>2 DEF ResultOf
  <2>4. ASSUME NEW q \in Runs PROVE Backed(q)'
    <3>1. \A v \in Workers : Executes(v, q)' <=> Executes(v, q)
      BY <2>2 DEF Executes
    <3>2. QED
      BY <2>1, <3>1 DEF Outcomes, Backed
  <2>5. QED
    BY <2>3, <2>4 DEF Outcomes
<1>5. QED
  BY <1>1, <1>2, <1>3, <1>4 DEF HandlerStep, UserStep

\* Time and failures: what is lost is lost with a fault counted.
LEMMA OtherOutcomes ==
  ASSUME OutcomeInv,
         (\E r \in Runs : DeadlinePasses(r)) \/ (\E t \in Threads : Raise(t)) \/ Crash
  PROVE  Outcomes'
<1> USE DEF OutcomeInv, SubagentInv
<1>1. CASE \E r \in Runs : DeadlinePasses(r)
  BY <1>1 DEF DeadlinePasses, threadVars, Outcomes, ResultOf, Backed, Executes
<1>2. ASSUME NEW t \in Threads, Raise(t)
      PROVE  Outcomes'
  <2>1. /\ UNCHANGED <<lifecycle, runtime, taskRun>> /\ OnlyThread(t)
        /\ pc'[t] = "idle" /\ faults' # 0
    BY <1>2 DEF Raise, dbVars, Return, Goto, OnlyThread, TypeOK, ThreadTypes
  <2>2. QED
    BY <2>1, QuietOutcomes DEF ResultOf, Executes, ExecutionSteps
<1>3. CASE Crash
  <2>1. /\ UNCHANGED <<lifecycle, runtime, taskRun>> /\ faults' # 0
        /\ \A t \in Threads : pc'[t] = "idle"
    BY <1>3 DEF Crash, dbVars, TypeOK
  <2>2. QED
    BY <2>1 DEF Outcomes, ResultOf, Backed, Executes, ExecutionSteps, Threads
<1>4. QED
  BY <1>1, <1>2, <1>3

LEMMA OutcomesHold == Spec => []OutcomeInv
<1>1. Init => Outcomes
  BY DEF Init, Outcomes, ResultOf, Backed, Threads
<1>2. OutcomeInv /\ [Next]_vars => Outcomes'
  <2> SUFFICES ASSUME OutcomeInv, [Next]_vars PROVE Outcomes'
    OBVIOUS
  <2>1. CASE UNCHANGED vars
    BY <2>1 DEF vars, dbVars, threadVars, OutcomeInv, Outcomes, ResultOf, Backed, Executes
  <2>2. QED
    BY <2>1, WorkerOutcomes, HandlerOutcomes, OtherOutcomes DEF Next
<1>3. QED
  BY <1>1, <1>2, InvariantHolds, InvariantInit, InvariantNext, PTL DEF Spec, OutcomeInv

\* A delegated run that is shown as completed or failed has a task run that says
\* the same, although two transactions write them and sweep and cancel race both.
THEOREM ShownOutcomesAreReal == Spec => []OutcomeIsBacked
<1>1. OutcomeInv => OutcomeIsBacked
  BY DEF OutcomeInv, Outcomes, Backed, OutcomeIsBacked
<1>2. QED
  BY <1>1, OutcomesHold, PTL

\* As long as nothing raises or crashes, no task run stays running behind a run
\* that is over, unless a worker is still at it.
THEOREM NoTaskRunLeftRunning == Spec => []TaskRunIsOver
<1>1. OutcomeInv => TaskRunIsOver
  BY DEF OutcomeInv, Outcomes, Backed, TaskRunIsOver
<1>2. QED
  BY <1>1, OutcomesHold, PTL

-----------------------------------------------------------------------------
(* The implementation of the lifecycle. *)

\* A step that leaves the abstract variables alone is a stutter.
LEMMA Stutter ==
  ASSUME UNCHANGED <<runtime, lifecycle, cancelRequested, told>>
  PROVE  [Lifecycle!Next]_(Lifecycle!vars)
BY DEF Lifecycle!vars, NativeStatus, NativeCancelling, NativeReport

\* So is a step that only touches a run for the ACP bridge.
LEMMA AcpStutter ==
  ASSUME NEW q \in Runs, runtime[q] # "subagent", UNCHANGED runtime,
         \A r \in Runs \ {q} : /\ lifecycle'[r] = lifecycle[r]
                              /\ cancelRequested'[r] = cancelRequested[r]
                              /\ told'[r] = told[r]
  PROVE  [Lifecycle!Next]_(Lifecycle!vars)
<1>1. NativeStatus' = NativeStatus
  BY DEF NativeStatus
<1>2. NativeCancelling' = NativeCancelling
  BY DEF NativeCancelling
<1>3. NativeReport' = NativeReport
  BY DEF NativeReport
<1>4. QED
  BY <1>1, <1>2, <1>3 DEF Lifecycle!vars

\* finalize_run ends the run as the lifecycle allows, or does nothing.
LEMMA FinalizeImplements ==
  ASSUME TypeOK, NEW r \in Runs, NEW s \in Terminal, Finalize(r, s),
         lifecycle[r] # "none", lifecycle[r] = "queued" => s = "cancelled"
  PROVE  [Lifecycle!Next]_(Lifecycle!vars)
<1> USE DEF TypeOK, DatabaseTypes
<1>1. CASE lifecycle[r] \in Terminal
  BY <1>1, Stutter DEF Finalize
<1>2. CASE lifecycle[r] \notin Terminal
  <2> DEFINE resolved == ResolvedStatus(r, s)
  <2>1. /\ lifecycle' = [lifecycle EXCEPT ![r] = resolved]
        /\ told' = [told EXCEPT ![r] = Append(@, s)]
        /\ UNCHANGED <<cancelRequested, runtime>>
    BY <1>2 DEF Finalize, WriteTerminal, SyncTaskRun
  <2>2. CASE runtime[r] # "subagent"
    BY <2>1, <2>2, AcpStutter
  <2>3. CASE runtime[r] = "subagent"
    <3>1. NativeStatus[r] \in {"queued", "running"}
          /\ (NativeStatus[r] = "queued" => s = "cancelled")
      BY <1>2, <2>3 DEF Statuses, Active, NativeStatus
    <3>2. /\ resolved \in Lifecycle!Final
          /\ s \in Lifecycle!Final
          /\ NativeCancelling[r] => resolved \in {"cancelled", "timed_out"}
          /\ s = resolved \/ NativeCancelling[r]
          /\ s = "cancelled" => resolved = "cancelled"
      BY <2>3 DEF ResolvedStatus, Lifecycle!Final, Terminal, NativeCancelling
    <3> HIDE DEF resolved
    <3>3. NativeStatus' = [NativeStatus EXCEPT ![r] = resolved]
      BY <2>1, <2>3 DEF NativeStatus
    <3>4. NativeReport' = [NativeReport EXCEPT ![r] = Append(@, s)]
      BY <2>1, <2>3 DEF NativeReport
    <3>5. NativeCancelling' = NativeCancelling
      BY <2>1 DEF NativeCancelling
    <3>6. Lifecycle!Finish(r, resolved)
      BY <3>1, <3>2, <3>3, <3>4, <3>5 DEF Lifecycle!Finish
    <3>7. QED
      BY <3>2, <3>6 DEF Lifecycle!Next
  <2>4. QED
    BY <2>2, <2>3
<1>3. QED
  BY <1>1, <1>2

LEMMA WorkerStepImplements ==
  ASSUME SubagentInv, NEW w \in Workers, WorkerStep(w)
  PROVE  [Lifecycle!Next]_(Lifecycle!vars)
<1> USE DEF SubagentInv, Threads
<1>1. HandsOf(w) /\ outcome[w] \in Terminal
  BY DEF HandsAgree, TypeOK, ThreadTypes
<1>2. CASE Cleanup(w) \/ FinalizeRun(w)
  <2>1. job[w] \in Runs /\ Started(job[w]) /\ Finalize(job[w], outcome[w])
    BY <1>1, <1>2 DEF Cleanup, FinalizeRun, HandsOf, ExecutionSteps
  <2>2. lifecycle[job[w]] # "none" /\ lifecycle[job[w]] # "queued"
    BY <2>1 DEF Started, Terminal
  <2>3. QED
    BY <1>1, <2>1, <2>2, FinalizeImplements
<1>3. CASE Claim(w)
  <2>1. ASSUME NEW r \in Runs, OldestQueued(r), lifecycle' = [lifecycle EXCEPT ![r] = "running"],
               UNCHANGED <<runtime, cancelRequested, told>>
        PROVE  [Lifecycle!Next]_(Lifecycle!vars)
    <3>1. CASE runtime[r] # "subagent"
      BY <2>1, <3>1, AcpStutter DEF TypeOK, DatabaseTypes
    <3>2. CASE runtime[r] = "subagent"
      <4>1. /\ NativeStatus[r] = "queued"
            /\ NativeStatus' = [NativeStatus EXCEPT ![r] = "running"]
            /\ UNCHANGED <<NativeCancelling, NativeReport>>
        BY <2>1, <3>2
           DEF OldestQueued, NativeStatus, NativeCancelling, NativeReport, TypeOK, DatabaseTypes
      <4>2. QED
        BY <4>1 DEF Lifecycle!Next, Lifecycle!Start
    <3>3. QED
      BY <3>1, <3>2
  <2>2. QED
    BY <1>3, <2>1, Stutter DEF Claim
<1>4. CASE Tick(w) \/ Inspect(w) \/ Prepare(w) \/ Attach(w) \/ Probe(w) \/ RunKernel(w)
           \/ Persist(w) \/ Review(w)
  BY <1>4, Stutter DEF Tick, Inspect, Prepare, Attach, Probe, RunKernel, KernelStatuses, Normalized, Persist, Review, dbVars
<1>5. QED
  BY <1>2, <1>3, <1>4 DEF WorkerStep

\* The cancellation of a run that was never spawned is not requested.
Unheard == \A r \in Runs : lifecycle[r] = "none" => ~cancelRequested[r]

LEMMA UnheardKept ==
  ASSUME Unheard, UNCHANGED cancelRequested,
         \A r \in Runs : lifecycle'[r] = "none" => lifecycle[r] = "none"
  PROVE  Unheard'
BY DEF Unheard

LEMMA UnheardFinalize ==
  ASSUME TypeOK, Unheard, NEW r \in Runs, NEW s \in Terminal, Finalize(r, s)
  PROVE  Unheard'
<1>1. \A q \in Runs : lifecycle'[q] = "none" => lifecycle[q] = "none"
  BY DEF Finalize, WriteTerminal, SyncTaskRun, ResolvedStatus, TypeOK, DatabaseTypes, Terminal
<1>2. QED
  BY <1>1, UnheardKept DEF Finalize, WriteTerminal, SyncTaskRun

LEMMA UnheardNext ==
  ASSUME SubagentInv, Unheard, [Next]_vars
  PROVE  Unheard'
<1> USE DEF SubagentInv, Threads
<1>1. CASE UNCHANGED <<lifecycle, cancelRequested>>
  BY <1>1, UnheardKept
<1>2. ASSUME NEW w \in Workers, WorkerStep(w) PROVE Unheard'
  <2>1. HandsOf(w) /\ outcome[w] \in Terminal
    BY DEF HandsAgree, TypeOK, ThreadTypes
  <2>2. CASE Cleanup(w) \/ FinalizeRun(w)
    BY <2>1, <2>2, UnheardFinalize DEF Cleanup, FinalizeRun, HandsOf, ExecutionSteps
  <2>3. CASE Claim(w)
    <3>1. \A q \in Runs : lifecycle'[q] = "none" => lifecycle[q] = "none"
      BY <2>3 DEF Claim, OldestQueued, TypeOK, DatabaseTypes
    <3>2. QED
      BY <2>3, <3>1, UnheardKept DEF Claim
  <2>4. CASE Tick(w) \/ Inspect(w) \/ Prepare(w) \/ Attach(w) \/ Probe(w) \/ RunKernel(w)
             \/ Persist(w) \/ Review(w)
    BY <1>1, <2>4 DEF Tick, Inspect, Prepare, Attach, Probe, RunKernel, KernelStatuses, Normalized, Persist, Review, dbVars
  <2>5. QED
    BY <1>2, <2>2, <2>3, <2>4 DEF WorkerStep
<1>3. ASSUME NEW h \in Handlers, HandlerStep(h) PROVE Unheard'
  <2>1. HandsOf(h)
    BY DEF HandsAgree
  <2>2. CASE MapAcp(h)
    <3>1. \A q \in Runs : lifecycle'[q] = "none" => lifecycle[q] = "none"
      BY <2>2 DEF MapAcp, TypeOK, DatabaseTypes
    <3>2. QED
      BY <2>2, <3>1, UnheardKept DEF MapAcp
  <2>3. CASE CancelQueued(h)
    BY <2>1, <2>3, UnheardFinalize DEF CancelQueued, HandsOf, Terminal
  <2>4. CASE RequestCancel(h)
    BY <2>1, <2>4 DEF RequestCancel, HandsOf, Started, Unheard, Terminal, TypeOK, DatabaseTypes
  <2>5. ASSUME NEW r \in Runs, NEW rt \in Runtimes, InsertSpawn(h, r, rt) PROVE Unheard'
    BY <2>5 DEF InsertSpawn, Unheard, TypeOK, DatabaseTypes
  <2>6. QED
    BY <1>3, <2>2, <2>3, <2>4, <2>5 DEF HandlerStep
<1>4. ASSUME NEW h \in Handlers, UserStep(h) PROVE Unheard'
  BY <1>1, <1>4 DEF UserStep, BeginSpawn, Begun, ReadForCancel, dbVars
<1>5. CASE (\E r \in Runs : DeadlinePasses(r)) \/ (\E t \in Threads : Raise(t)) \/ Crash
           \/ UNCHANGED vars
  BY <1>1, <1>5 DEF DeadlinePasses, Raise, Crash, dbVars, vars
<1>6. QED
  BY <1>2, <1>3, <1>4, <1>5 DEF Next

\* A spawned native run is accepted; a run for the ACP bridge stays unseen.
LEMMA SpawnImplements ==
  ASSUME SubagentInv, Unheard, NEW h \in Handlers, NEW r \in Runs, NEW rt \in Runtimes,
         InsertSpawn(h, r, rt)
  PROVE  [Lifecycle!Next]_(Lifecycle!vars)
<1> USE DEF SubagentInv, TypeOK, DatabaseTypes
<1>1. /\ lifecycle[r] = "none" /\ ~cancelRequested[r] /\ told[r] = <<>>
      /\ lifecycle' = [lifecycle EXCEPT ![r] = "queued"]
      /\ runtime' = [runtime EXCEPT ![r] = rt]
      /\ UNCHANGED <<cancelRequested, told>>
  BY DEF InsertSpawn, Unheard, ToldAgrees, Terminal
<1>2. NativeCancelling' = NativeCancelling
  BY <1>1 DEF NativeCancelling
<1>3. NativeReport' = NativeReport
  BY <1>1 DEF NativeReport
<1>4. CASE rt = "subagent"
  <2>1. NativeStatus[r] = "none" /\ NativeStatus' = [NativeStatus EXCEPT ![r] = "queued"]
    BY <1>1, <1>4 DEF NativeStatus
  <2>2. QED
    BY <1>2, <1>3, <2>1 DEF Lifecycle!Accept, Lifecycle!Next
<1>5. CASE rt # "subagent"
  <2>1. NativeStatus' = NativeStatus
    BY <1>1, <1>5 DEF NativeStatus
  <2>2. QED
    BY <1>2, <1>3, <2>1 DEF Lifecycle!vars
<1>6. QED
  BY <1>4, <1>5

LEMMA HandlerStepImplements ==
  ASSUME SubagentInv, Unheard, NEW h \in Handlers, HandlerStep(h) \/ UserStep(h)
  PROVE  [Lifecycle!Next]_(Lifecycle!vars)
<1> USE DEF SubagentInv, Threads
<1>1. HandsOf(h)
  BY DEF HandsAgree
<1>2. CASE MapAcp(h)
  <2>1. job[h] \in Runs /\ runtime[job[h]] # "subagent" /\ UNCHANGED <<runtime, cancelRequested, told>>
        /\ lifecycle' = [lifecycle EXCEPT ![job[h]] = "completed"]
    BY <1>1, <1>2 DEF MapAcp, HandsOf
  <2>2. QED
    BY <2>1, AcpStutter DEF TypeOK, DatabaseTypes
<1>3. CASE CancelQueued(h)
  BY <1>1, <1>3, FinalizeImplements DEF CancelQueued, HandsOf, Terminal
<1>4. CASE RequestCancel(h)
  <2>1. job[h] \in Runs /\ lifecycle[job[h]] \in Lifecycle!Final \cup {"running"}
        /\ cancelRequested' = [cancelRequested EXCEPT ![job[h]] = TRUE]
        /\ UNCHANGED <<runtime, lifecycle, told>>
    BY <1>1, <1>4 DEF RequestCancel, HandsOf, Started, Terminal, Lifecycle!Final
  <2>2. CASE runtime[job[h]] # "subagent"
    BY <2>1, <2>2, AcpStutter DEF TypeOK, DatabaseTypes
  <2>3. CASE runtime[job[h]] = "subagent"
    <3>1. /\ NativeStatus[job[h]] \in Lifecycle!Final \cup {"running"}
          /\ NativeCancelling' = [NativeCancelling EXCEPT ![job[h]] = TRUE]
          /\ UNCHANGED <<NativeStatus, NativeReport>>
      BY <2>1, <2>3
         DEF NativeStatus, NativeCancelling, NativeReport, TypeOK, DatabaseTypes
    <3>2. QED
      BY <2>1, <3>1 DEF Lifecycle!RequestCancel, Lifecycle!Next
  <2>4. QED
    BY <2>2, <2>3
<1>5. ASSUME NEW r \in Runs, NEW rt \in Runtimes, InsertSpawn(h, r, rt)
      PROVE  [Lifecycle!Next]_(Lifecycle!vars)
  BY <1>5, SpawnImplements
<1>6. CASE UserStep(h)
  BY <1>6, Stutter DEF UserStep, BeginSpawn, Begun, ReadForCancel, dbVars
<1>7. QED
  BY <1>2, <1>3, <1>4, <1>5, <1>6 DEF HandlerStep

LEMMA InitImplements == Init => Unheard /\ Lifecycle!Init
BY DEF Init, Unheard, Lifecycle!Init, NativeStatus, NativeCancelling, NativeReport

LEMMA NextImplements ==
  ASSUME SubagentInv, Unheard, [Next]_vars
  PROVE  [Lifecycle!Next]_(Lifecycle!vars)
<1>1. CASE (\E r \in Runs : DeadlinePasses(r)) \/ (\E t \in Threads : Raise(t)) \/ Crash
           \/ UNCHANGED vars
  BY <1>1, Stutter DEF DeadlinePasses, Raise, Crash, dbVars, vars
<1>2. QED
  BY <1>1, WorkerStepImplements, HandlerStepImplements DEF Next

\* Workers, sweeps and handlers that race over the delegated runs implement the
\* lifecycle the runtime promises: accepted, started, ended and told once, and
\* never completed once a cancellation is requested.
THEOREM ImplementsLifecycle == Spec => LifecycleSpec
<1>1. Init => Unheard /\ Lifecycle!Init
  BY InitImplements
<1>2. SubagentInv /\ Unheard /\ [Next]_vars => Unheard'
  BY UnheardNext
<1>3. SubagentInv /\ Unheard /\ [Next]_vars => [Lifecycle!Next]_(Lifecycle!vars)
  BY NextImplements
<1>4. QED
  BY <1>1, <1>2, <1>3, InvariantHolds, PTL DEF Spec, LifecycleSpec, Lifecycle!Spec

-----------------------------------------------------------------------------
(* The limit of active children. *)

LEMMA SmallerSet ==
  ASSUME NEW S, NEW T, IsFiniteSet(S), T \subseteq S, Cardinality(S) <= MaxConcurrency
  PROVE  Cardinality(T) <= MaxConcurrency
<1>1. IsFiniteSet(T) /\ Cardinality(T) <= Cardinality(S)
  BY FS_Subset
<1>2. Cardinality(S) \in Nat /\ Cardinality(T) \in Nat
  BY <1>1, FS_CardinalityType
<1>3. QED
  BY <1>1, <1>2, ConstantsAssumption

LEMMA ActiveRunsFinite == ASSUME NEW p PROVE IsFiniteSet(ActiveRuns(p))
BY ConstantsAssumption, FS_Subset DEF ActiveRuns

\* The spawn whose transaction is open has counted, nobody else has one open, and
\* what it counted still holds.
CountStands(h) ==
  pc[h] = "insert" =>
    /\ Cardinality(ActiveRuns(launcher[h])) < MaxConcurrency
    /\ \A g \in Handlers : pc[g] = "insert" => g = h

LimitInv == ActiveWithinLimit /\ \A h \in Handlers : CountStands(h)

\* Nobody's active children grow but by a spawn, and no spawn begins.
LEMMA LimitKept ==
  ASSUME LimitInv, parent' = parent,
         \A r \in Runs : lifecycle'[r] \in Active => lifecycle[r] \in Active,
         \A h \in Handlers : pc'[h] = "insert" =>
           pc[h] = "insert" /\ launcher'[h] = launcher[h]
  PROVE  LimitInv'
<1>1. ActiveWithinLimit'
  <2> SUFFICES ASSUME NEW p \in Parents PROVE Cardinality(ActiveRuns(p)') <= MaxConcurrency
    BY DEF ActiveWithinLimit
  <2>1. ActiveRuns(p)' \subseteq ActiveRuns(p)
    BY DEF ActiveRuns
  <2>2. QED
    BY <2>1, ActiveRunsFinite, SmallerSet DEF LimitInv, ActiveWithinLimit
<1>2. ASSUME NEW h \in Handlers, pc'[h] = "insert"
      PROVE  /\ Cardinality(ActiveRuns(launcher[h])') < MaxConcurrency
             /\ launcher'[h] = launcher[h]
             /\ \A g \in Handlers : pc'[g] = "insert" => g = h
  <2> DEFINE before == ActiveRuns(launcher[h])
             after == ActiveRuns(launcher[h])'
  <2>1. /\ Cardinality(before) < MaxConcurrency /\ launcher'[h] = launcher[h]
        /\ \A g \in Handlers : pc'[g] = "insert" => g = h
    BY <1>2 DEF LimitInv, CountStands
  <2>2. IsFiniteSet(before) /\ after \subseteq before
    <3>1. after \subseteq before
      BY <2>1 DEF ActiveRuns
    <3>2. IsFiniteSet(before)
      BY ActiveRunsFinite
    <3>3. QED
      BY <3>1, <3>2
  <2> HIDE DEF before, after
  <2>3. /\ IsFiniteSet(after) /\ Cardinality(after) <= Cardinality(before)
        /\ Cardinality(after) \in Nat /\ Cardinality(before) \in Nat
    BY <2>2, FS_Subset, FS_CardinalityType
  <2>4. Cardinality(after) < MaxConcurrency
    BY <2>1, <2>3, ConstantsAssumption
  <2>5. QED
    BY <2>1, <2>4 DEF after
<1>3. ASSUME NEW h \in Handlers
      PROVE  CountStands(h)'
  BY <1>2 DEF CountStands, ActiveRuns
<1>4. QED
  BY <1>1, <1>3 DEF LimitInv

LEMMA FinalizeShrinks ==
  ASSUME TypeOK, NEW r \in Runs, NEW s \in Terminal, Finalize(r, s)
  PROVE  parent' = parent /\ \A q \in Runs : lifecycle'[q] \in Active => lifecycle[q] \in Active
BY DEF Finalize, WriteTerminal, SyncTaskRun, ResolvedStatus, TypeOK, DatabaseTypes, Active, Terminal

\* A spawn begins when no other is under way, and has counted.
LEMMA BeginSpawnLimit ==
  ASSUME TypeOK, LimitInv, NEW h \in Handlers, NEW p \in Parents, BeginSpawn(h, p)
  PROVE  LimitInv'
<1> USE DEF TypeOK, ThreadTypes, Threads
<1>1. /\ UNCHANGED <<lifecycle, parent>> /\ pc'[h] = "insert" /\ launcher'[h] = p
      /\ Cardinality(ActiveRuns(p)) < MaxConcurrency
      /\ \A g \in Handlers \ {h} : pc'[g] # "insert"
  BY DEF BeginSpawn, Begun, Unlocked, Goto, dbVars
<1>2. ActiveWithinLimit'
  BY <1>1 DEF LimitInv, ActiveWithinLimit, ActiveRuns
<1>3. ASSUME NEW g \in Handlers
      PROVE  CountStands(g)'
  BY <1>1 DEF CountStands, ActiveRuns
<1>4. QED
  BY <1>2, <1>3 DEF LimitInv

\* The insert adds one run to the children that were counted.
LEMMA InsertSpawnLimit ==
  ASSUME TypeOK, LimitInv, NEW h \in Handlers, NEW r \in Runs, NEW rt \in Runtimes,
         InsertSpawn(h, r, rt)
  PROVE  LimitInv'
<1> DEFINE p == launcher[h]
<1>1. /\ parent' = [parent EXCEPT ![r] = p]
      /\ lifecycle' = [lifecycle EXCEPT ![r] = "queued"]
      /\ pc[h] = "insert" /\ pc'[h] # "insert"
      /\ \A g \in Handlers \ {h} : pc'[g] = pc[g]
  BY DEF InsertSpawn, Work, Return, Goto, TypeOK, ThreadTypes, Threads
<1>2. /\ Cardinality(ActiveRuns(p)) < MaxConcurrency
      /\ \A g \in Handlers : pc[g] = "insert" => g = h
  BY <1>1 DEF LimitInv, CountStands
<1>3. \A g \in Handlers : pc'[g] # "insert"
  BY <1>1, <1>2
<1>4. ActiveWithinLimit'
  <2> SUFFICES ASSUME NEW q \in Parents PROVE Cardinality(ActiveRuns(q)') <= MaxConcurrency
    BY DEF ActiveWithinLimit
  <2> HIDE DEF p
  <2>1. CASE q = p
    <3>1. ActiveRuns(q)' \subseteq ActiveRuns(p) \cup {r}
      BY <1>1, <2>1 DEF ActiveRuns, TypeOK, DatabaseTypes
    <3>2. IsFiniteSet(ActiveRuns(p)) /\ Cardinality(ActiveRuns(p)) \in Nat
      BY ActiveRunsFinite, FS_CardinalityType
    <3>3. /\ IsFiniteSet(ActiveRuns(p) \cup {r})
          /\ Cardinality(ActiveRuns(p) \cup {r}) =
               IF r \in ActiveRuns(p) THEN Cardinality(ActiveRuns(p))
                                      ELSE Cardinality(ActiveRuns(p)) + 1
      BY <3>2, FS_AddElement
    <3>4. Cardinality(ActiveRuns(p) \cup {r}) <= MaxConcurrency
      BY <1>2, <3>2, <3>3, ConstantsAssumption
    <3>5. QED
      BY <3>1, <3>3, <3>4, SmallerSet
  <2>2. CASE q # p
    <3>1. ActiveRuns(q)' \subseteq ActiveRuns(q)
      BY <1>1, <2>2 DEF ActiveRuns, TypeOK, DatabaseTypes
    <3>2. QED
      BY <3>1, ActiveRunsFinite, SmallerSet DEF LimitInv, ActiveWithinLimit
  <2>3. QED
    BY <2>1, <2>2
<1>5. QED
  BY <1>3, <1>4 DEF LimitInv, CountStands

LEMMA LimitInit == Init => LimitInv
<1> SUFFICES ASSUME Init PROVE LimitInv
  OBVIOUS
<1>1. ASSUME NEW p \in Parents
      PROVE  Cardinality(ActiveRuns(p)) <= MaxConcurrency
  <2>1. ActiveRuns(p) = {}
    BY DEF Init, ActiveRuns, Active
  <2>2. QED
    BY <2>1, FS_EmptySet, ConstantsAssumption
<1>2. \A h \in Handlers : CountStands(h)
  BY DEF Init, CountStands, Threads
<1>3. QED
  BY <1>1, <1>2 DEF LimitInv, ActiveWithinLimit

\* The step of a thread that begins no spawn: the others are where they were.
LEMMA ThreadLimit ==
  ASSUME TypeOK, LimitInv, NEW t \in Threads, OnlyThread(t), pc'[t] # "insert",
         parent' = parent,
         \A r \in Runs : lifecycle'[r] \in Active => lifecycle[r] \in Active
  PROVE  LimitInv'
<1>1. \A h \in Handlers : pc'[h] = "insert" => pc[h] = "insert" /\ launcher'[h] = launcher[h]
  BY DEF OnlyThread, Threads
<1>2. QED
  BY <1>1, LimitKept

LEMMA WorkerLimit ==
  ASSUME SubagentInv, LimitInv, NEW w \in Workers, WorkerStep(w)
  PROVE  LimitInv'
<1> USE DEF SubagentInv, Threads
<1>1. HandsOf(w) /\ outcome[w] \in Terminal
  BY DEF HandsAgree, TypeOK, ThreadTypes
<1>2. OnlyThread(w) /\ pc'[w] # "insert"
  BY DEF WorkerStep, Tick, Inspect, Cleanup, Claim, Prepare, Attach, Probe, RunKernel, Persist,
         Review, FinalizeRun, Work, Continue, Return, Goto, OnlyThread, TypeOK, ThreadTypes
<1>3. parent' = parent /\ \A r \in Runs : lifecycle'[r] \in Active => lifecycle[r] \in Active
  <2>1. CASE Cleanup(w) \/ FinalizeRun(w)
    BY <1>1, <2>1, FinalizeShrinks DEF Cleanup, FinalizeRun, HandsOf, ExecutionSteps
  <2>2. CASE Claim(w)
    BY <2>2 DEF Claim, OldestQueued, Active, TypeOK, DatabaseTypes
  <2>3. CASE Tick(w) \/ Inspect(w) \/ Prepare(w) \/ Attach(w) \/ Probe(w) \/ RunKernel(w)
             \/ Persist(w) \/ Review(w)
    BY <2>3 DEF Tick, Inspect, Prepare, Attach, Probe, RunKernel, KernelStatuses, Normalized,
                Persist, Review, dbVars
  <2>4. QED
    BY <2>1, <2>2, <2>3 DEF WorkerStep
<1>4. QED
  BY <1>2, <1>3, ThreadLimit

LEMMA HandlerLimit ==
  ASSUME SubagentInv, LimitInv, NEW h \in Handlers, HandlerStep(h) \/ UserStep(h)
  PROVE  LimitInv'
<1> USE DEF SubagentInv, Threads
<1>1. CASE \E r \in Runs, rt \in Runtimes : InsertSpawn(h, r, rt)
  BY <1>1, InsertSpawnLimit
<1>2. CASE \E p \in Parents : BeginSpawn(h, p)
  BY <1>2, BeginSpawnLimit
<1>3. CASE MapAcp(h) \/ CancelQueued(h) \/ RequestCancel(h) \/ (\E r \in Runs : ReadForCancel(h, r))
  <2>1. HandsOf(h)
    BY DEF HandsAgree
  <2>2. OnlyThread(h) /\ pc'[h] # "insert"
    BY <1>3 DEF MapAcp, CancelQueued, RequestCancel, ReadForCancel, Work, Return, Goto,
                OnlyThread, TypeOK, ThreadTypes
  <2>3. parent' = parent /\ \A r \in Runs : lifecycle'[r] \in Active => lifecycle[r] \in Active
    <3>1. CASE MapAcp(h)
      BY <3>1 DEF MapAcp, Active, TypeOK, DatabaseTypes
    <3>2. CASE CancelQueued(h)
      BY <2>1, <3>2, FinalizeShrinks DEF CancelQueued, HandsOf, Terminal
    <3>3. CASE RequestCancel(h) \/ (\E r \in Runs : ReadForCancel(h, r))
      BY <3>3 DEF RequestCancel, ReadForCancel, dbVars
    <3>4. QED
      BY <1>3, <3>1, <3>2, <3>3
  <2>4. QED
    BY <2>2, <2>3, ThreadLimit
<1>4. QED
  BY <1>1, <1>2, <1>3 DEF HandlerStep, UserStep

LEMMA LimitNext ==
  ASSUME SubagentInv, LimitInv, [Next]_vars
  PROVE  LimitInv'
<1> USE DEF SubagentInv
<1>1. CASE UNCHANGED <<lifecycle, parent, pc, launcher>>
  BY <1>1, LimitKept
<1>2. ASSUME NEW t \in Threads, Raise(t) PROVE LimitInv'
  <2>1. OnlyThread(t) /\ pc'[t] # "insert" /\ UNCHANGED <<lifecycle, parent>>
    BY <1>2 DEF Raise, Return, Goto, dbVars, OnlyThread, TypeOK, ThreadTypes
  <2>2. QED
    BY <2>1, ThreadLimit
<1>3. CASE Crash
  <2>1. UNCHANGED <<lifecycle, parent>> /\ \A h \in Handlers : pc'[h] # "insert"
    BY <1>3 DEF Crash, dbVars, Threads
  <2>2. QED
    BY <2>1, LimitKept
<1>4. CASE (\E r \in Runs : DeadlinePasses(r)) \/ UNCHANGED vars
  BY <1>1, <1>4 DEF DeadlinePasses, threadVars, dbVars, vars
<1>5. QED
  BY <1>2, <1>3, <1>4, WorkerLimit, HandlerLimit DEF Next

\* However many spawns race, a parent never has more active children than the
\* limit: a spawn counts only once it holds the write lock, nobody else writes before
\* it has inserted, and no other step makes a run active.
THEOREM ActiveChildrenLimited == Spec => []ActiveWithinLimit
<1>1. LimitInv => ActiveWithinLimit
  BY DEF LimitInv
<1>2. QED
  BY <1>1, LimitInit, LimitNext, InvariantHolds, PTL DEF Spec

=============================================================================
