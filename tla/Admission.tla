------------------------------ MODULE Admission ------------------------------
(***************************************************************************)
(* What lets an execution start: the budgets of the operational settings,    *)
(* and for a prompt of the ACP bridge the status of its mapping.  Both are   *)
(* read before the execution is created and what it cost is known only when  *)
(* it finishes, so requests, edits and cancellations interleave with them.   *)
(* The execution itself is the subject of AgentExecution.                    *)
(***************************************************************************)
EXTENDS Integers, FiniteSets

CONSTANTS
  Runs,       \* executions that may be asked for
  Keys,       \* session keys of the ACP bridge
  Editors,    \* handlers of PUT /settings/operational
  Budgets,    \* values of a budget
  MaxCost,    \* most that one execution may cost
  MaxDays,    \* bound on the days that pass
  MaxCrashes,
  None

Windows == {"daily", "monthly"}

ASSUME ConstantsAssumption ==
  /\ IsFiniteSet(Runs)
  /\ Budgets \subseteq Nat /\ Budgets # {}
  /\ MaxCost \in Nat \ {0} /\ MaxDays \in Nat /\ MaxCrashes \in Nat
  /\ None \notin Keys

VARIABLES
  \* ---- SQLite
  budget,  \* Setting budget/daily_usd and budget/monthly_usd
  spent,   \* the cost of the runs finished in the current day and month
  enabled, \* Setting features/acp_bridge_enabled
  mapping, \* AcpSession.status
  \* ---- handlers
  phase,   \* where the request for a run, and the run, stand
  key,     \* the mapping a run was prompted through
  prompt,  \* where the handler of the prompt stands
  loaded,  \* AcpSession.status as it read it
  limits,  \* the budgets as the request read them
  edit,    \* what an editor saves, and what of it it has saved
  \* ---- the rest
  day,
  peak,    \* observer: the highest budgets there were
  crowd,   \* observer: the most executions that were ever under way together
  crashes

settingVars == <<budget, spent, enabled, mapping>>
promptVars == <<key, prompt, loaded>>
requestVars == <<phase, promptVars, limits>>
NoLimits == [w \in Windows |-> 0]
NoEdit == [left |-> {}, daily |-> 0, monthly |-> 0]
vars == <<settingVars, requestVars, edit, day, peak, crowd, crashes>>

Phases == {"new", "prompted", "asked", "read", "admitted", "open", "paused", "over"}
Statuses == {"none", "active", "cancelled"}

\* An execution that passed the check and has not finished.
UnderWay == {r \in Runs : phase[r] \in {"admitted", "open", "paused"}}

MaxOf(a, b) == IF a < b THEN b ELSE a

TypeOK ==
  /\ budget \in [Windows -> Nat]
  /\ spent \in [Windows -> Nat]
  /\ enabled \in BOOLEAN
  /\ mapping \in [Keys -> Statuses]
  /\ phase \in [Runs -> Phases]
  /\ key \in [Runs -> Keys \cup {None}]
  /\ prompt \in [Runs -> {"none", "executing", "returning"}]
  /\ loaded \in [Runs -> Statuses]
  /\ limits \in [Runs -> [Windows -> Nat]]
  /\ edit \in [Editors -> [left : SUBSET Windows, daily : Nat, monthly : Nat]]
  /\ day \in Nat
  /\ peak \in [Windows -> Nat]
  /\ crowd \in Nat
  /\ crashes \in Nat

Init ==
  /\ \E d, m \in Budgets : d <= m /\ budget = [w \in Windows |-> IF w = "daily" THEN d ELSE m]
  /\ spent = [w \in Windows |-> 0]
  /\ enabled = FALSE
  /\ mapping = [k \in Keys |-> "none"]
  /\ phase = [r \in Runs |-> "new"]
  /\ key = [r \in Runs |-> None]
  /\ prompt = [r \in Runs |-> "none"]
  /\ loaded = [r \in Runs |-> "none"]
  /\ limits = [r \in Runs |-> NoLimits]
  /\ edit = [e \in Editors |-> NoEdit]
  /\ day = 0
  /\ peak = budget
  /\ crowd = 0
  /\ crashes = 0

-----------------------------------------------------------------------------
(* The operational settings. *)

\* update_operational_settings: validates the payload.  What it saves besides the
\* budgets is not looked at here.
Edit(e) ==
  /\ edit[e].left = {}
  /\ \E d, m \in Budgets : d <= m /\ edit' = [edit EXCEPT ![e] = [left |-> Windows, daily |-> d, monthly |-> m]]
  /\ UNCHANGED <<settingVars, requestVars, day, peak, crowd, crashes>>

\* upsert_setting, with a commit of its own.
Upsert(w, value) ==
  /\ budget' = [budget EXCEPT ![w] = value]
  /\ peak' = [peak EXCEPT ![w] = MaxOf(@, value)]

\* One value is saved after the other, the daily budget first.
Save(e) ==
  LET w == IF "daily" \in edit[e].left THEN "daily" ELSE "monthly"
      value == IF w = "daily" THEN edit[e].daily ELSE edit[e].monthly
  IN  /\ edit[e].left # {}
      /\ Upsert(w, value)
      /\ edit' = [edit EXCEPT ![e] =
                    [left |-> @.left \ {w}, daily |-> @.daily, monthly |-> @.monthly]]
      /\ UNCHANGED <<spent, enabled, mapping, requestVars, day, crowd, crashes>>

-----------------------------------------------------------------------------
(* The ACP bridge. *)

SetEnabled(on) ==
  /\ enabled' = on
  /\ UNCHANGED <<budget, spent, mapping, requestVars, edit, day, peak, crowd, crashes>>

CreateSession(k) ==
  /\ enabled
  /\ mapping[k] = "none"
  /\ mapping' = [mapping EXCEPT ![k] = "active"]
  /\ UNCHANGED <<budget, spent, enabled, requestVars, edit, day, peak, crowd, crashes>>

Cancel(k) ==
  /\ enabled
  /\ mapping[k] # "none"
  /\ mapping' = [mapping EXCEPT ![k] = "cancelled"]
  /\ UNCHANGED <<budget, spent, enabled, requestVars, edit, day, peak, crowd, crashes>>

\* prompt reads the setting and then the mapping.
BeginPrompt(r, k) ==
  /\ phase[r] = "new"
  /\ enabled
  /\ phase' = [phase EXCEPT ![r] = "prompted"]
  /\ key' = [key EXCEPT ![r] = k]
  /\ UNCHANGED <<settingVars, prompt, loaded, limits, edit, day, peak, crowd, crashes>>

Prompt(r) ==
  /\ phase[r] = "prompted"
  /\ IF mapping[key[r]] = "active"
       THEN /\ phase' = [phase EXCEPT ![r] = "asked"]
            /\ prompt' = [prompt EXCEPT ![r] = "executing"]
            /\ loaded' = [loaded EXCEPT ![r] = mapping[key[r]]]
       ELSE /\ phase' = [phase EXCEPT ![r] = "over"]
            /\ UNCHANGED <<prompt, loaded>>
  /\ UNCHANGED <<settingVars, key, limits, edit, day, peak, crowd, crashes>>

\* Faulty Touch: the whole row is written as it was read.
TouchWholeRow(r) ==
  /\ prompt[r] = "returning"
  /\ prompt' = [prompt EXCEPT ![r] = "none"]
  /\ loaded' = [loaded EXCEPT ![r] = "none"]
  /\ mapping' = [mapping EXCEPT ![key[r]] = loaded[r]]
  /\ UNCHANGED <<budget, spent, enabled, phase, key, limits, edit, day, peak, crowd, crashes>>

\* touch_prompt writes the times of the mapping: the row is read again after the
\* commits of the execution, and only the columns that changed are written.
Touch(r) ==
  /\ prompt[r] = "returning"
  /\ prompt' = [prompt EXCEPT ![r] = "none"]
  /\ loaded' = [loaded EXCEPT ![r] = "none"]
  /\ UNCHANGED <<settingVars, phase, key, limits, edit, day, peak, crowd, crashes>>

-----------------------------------------------------------------------------
(* Executions. *)

\* A chat message, or a delegated execution.
Ask(r) ==
  /\ phase[r] = "new"
  /\ phase' = [phase EXCEPT ![r] = "asked"]
  /\ UNCHANGED <<settingVars, promptVars, limits, edit, day, peak, crowd, crashes>>

\* enforce_budget_limits reads the budgets ...
ReadLimits(r) ==
  /\ phase[r] = "asked"
  /\ limits' = [limits EXCEPT ![r] = budget]
  /\ phase' = [phase EXCEPT ![r] = "read"]
  /\ UNCHANGED <<settingVars, promptVars, edit, day, peak, crowd, crashes>>

Within(r, w, projected) == spent[w] + projected <= limits[r][w]

\* The execution is let in, or the request fails.
Decide(r, admitted) ==
  /\ phase[r] = "read"
  /\ phase' = [phase EXCEPT ![r] = IF admitted THEN "admitted" ELSE "over"]
  /\ prompt' = [prompt EXCEPT ![r] = IF admitted THEN @ ELSE "none"]
  /\ limits' = [limits EXCEPT ![r] = NoLimits]
  /\ crowd' = MaxOf(crowd, Cardinality(UnderWay'))
  /\ UNCHANGED <<settingVars, key, loaded, edit, day, peak, crashes>>

\* Faulty Check: the monthly budget is not looked at.
CheckDaily(r) == \E projected \in 1 .. MaxCost : Decide(r, Within(r, "daily", projected))

\* ... and compares them with what was spent and what the message is projected to cost.
Check(r) ==
  \E projected \in 1 .. MaxCost : Decide(r, \A w \in Windows : Within(r, w, projected))

\* The task run is committed, queued or running.
Create(r) ==
  /\ phase[r] = "admitted"
  /\ phase' = [phase EXCEPT ![r] = "open"]
  /\ UNCHANGED <<settingVars, promptVars, limits, edit, day, peak, crowd, crashes>>

\* The handler of the prompt returns once the run is settled or paused.
Return(r) == prompt' = [prompt EXCEPT ![r] = IF @ = "executing" THEN "returning" ELSE @]

\* A run that waits for an approval is not finished: its cost does not count yet,
\* and the one of the resumed execution replaces it.
Pause(r) ==
  /\ phase[r] = "open"
  /\ phase' = [phase EXCEPT ![r] = "paused"]
  /\ Return(r)
  /\ UNCHANGED <<settingVars, key, loaded, limits, edit, day, peak, crowd, crashes>>

\* approve: no budget is checked again.
Resume(r) ==
  /\ phase[r] = "paused"
  /\ phase' = [phase EXCEPT ![r] = "open"]
  /\ UNCHANGED <<settingVars, promptVars, limits, edit, day, peak, crowd, crashes>>

\* What the provider reports, or an estimate from the length of the texts.
Costs == 1 .. MaxCost

\* persist_result: the run is finished, completed or failed, with what it cost.
Finish(r) ==
  /\ phase[r] = "open"
  /\ \E cost \in Costs : spent' = [w \in Windows |-> spent[w] + cost]
  /\ phase' = [phase EXCEPT ![r] = "over"]
  /\ Return(r)
  /\ UNCHANGED <<budget, enabled, mapping, key, loaded, limits, edit, day, peak, crowd, crashes>>

\* An exception, a denial or a cancellation ends it without a cost.
Raise(r) ==
  /\ phase[r] \notin {"new", "over"}
  /\ phase' = [phase EXCEPT ![r] = "over"]
  /\ limits' = [limits EXCEPT ![r] = NoLimits]
  /\ prompt' = [prompt EXCEPT ![r] = IF @ = "executing" THEN "none" ELSE @]
  /\ UNCHANGED <<settingVars, key, loaded, edit, day, peak, crowd, crashes>>

-----------------------------------------------------------------------------
(* The environment. *)

\* A day begins, and a month perhaps.
NewDay ==
  /\ day < MaxDays
  /\ day' = day + 1
  /\ \E over \in {{"daily"}, Windows} :
       spent' = [w \in Windows |-> IF w \in over THEN 0 ELSE spent[w]]
  /\ UNCHANGED <<budget, enabled, mapping, requestVars, edit, peak, crowd, crashes>>

\* The handlers are gone; queued and paused runs are taken up again.
Crash ==
  /\ crashes < MaxCrashes
  /\ crashes' = crashes + 1
  /\ edit' = [e \in Editors |-> NoEdit]
  /\ \E lost \in SUBSET {r \in Runs : phase[r] = "open"} :
       phase' = [r \in Runs |->
                   IF phase[r] \in {"new", "paused"} \/ (phase[r] = "open" /\ r \notin lost)
                     THEN phase[r] ELSE "over"]
  /\ prompt' = [r \in Runs |-> "none"]
  /\ limits' = [r \in Runs |-> NoLimits]
  /\ UNCHANGED <<settingVars, key, loaded, day, peak, crowd>>

BridgeStep ==
  \/ \E on \in BOOLEAN : SetEnabled(on)
  \/ \E k \in Keys : CreateSession(k) \/ Cancel(k)

ExecutionStep(r) ==
  \/ \E k \in Keys : BeginPrompt(r, k)
  \/ Prompt(r) \/ Touch(r)
  \/ Ask(r) \/ ReadLimits(r) \/ Check(r) \/ Create(r)
  \/ Pause(r) \/ Resume(r) \/ Finish(r) \/ Raise(r)

Next ==
  \/ \E e \in Editors : Edit(e) \/ Save(e)
  \/ BridgeStep
  \/ \E r \in Runs : ExecutionStep(r)
  \/ NewDay
  \/ Crash

Spec == Init /\ [][Next]_vars

-----------------------------------------------------------------------------
(* Properties. *)

(* The budget is checked before an execution and spent by it, so it may be      *)
(* exceeded: by no more than what the executions that were ever under way        *)
(* together can cost, whatever is edited, paused or resumed meanwhile            *)
(* (enforce_budget_limits).                                                       *)
OverspendIsBounded == \A w \in Windows : spent[w] <= peak[w] + crowd * MaxCost

(* A cancelled mapping stays cancelled, also when a prompt that was let in       *)
(* before it returns after it (AcpService.prompt, touch_prompt).                  *)
CancelledStays == [][\A k \in Keys : mapping[k] = "cancelled" => mapping'[k] = "cancelled"]_vars

=============================================================================
