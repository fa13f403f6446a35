----------------------------- MODULE ToolPolicy -----------------------------
(***************************************************************************)
(* The policy of the tools.  The user chooses a profile and overrides it for  *)
(* single tools; what decides a tool call is the row of the tool in           *)
(* tool_permissions, which every ToolService materialises from the policy     *)
(* before its first use: one read of the profile, one of the overrides, then  *)
(* one transaction per tool of the catalog.  Requests and executions each     *)
(* have a service of their own and do so at the same time.                    *)
(***************************************************************************)
EXTENDS Naturals, Sequences, FiniteSets

CONSTANTS
  Services, \* instances of ToolService, each with its own database session
  Catalog,  \* the sequence of the tools
  Group,    \* the group of each tool
  Profiles, \* the level each profile gives to each group
  MaxEdits, \* bound on the changes of the policy
  MaxCrashes

VARIABLES
  \* ---- database
  profile,    \* the setting tools.policy_profile
  overrides,  \* tool_policy_overrides
  permission, \* permission_level in tool_permissions
  \* ---- process
  up,         \* it is started and has seeded the database
  service,    \* what each ToolService is at
  \* ---- observer
  sure,       \* services whose reading no change and no outdated writer disturbed
  enforced,   \* one of them has finished since the last change
  edits,
  crashes

dbVars == <<profile, overrides, permission>>
vars == <<dbVars, up, service, sure, enforced, edits, crashes>>

Levels == {"deny", "ask", "allow"}
Tools == {Catalog[k] : k \in DOMAIN Catalog}
Names == DOMAIN Profiles

\* No setting, no permission; an override that is not there.
None == "none"
NoRow == [id |-> 0, level |-> None]
OverrideRows == [id : Nat, level : Levels] \cup {NoRow}

\* A service only reads (list_permissions, get_policy, list_tool_calls, the first tool
\* call of an execution), or it is there for a change.
Read == [kind |-> "read"]
Changes == [kind : {"profile"}, to : Names] \cup [kind : {"permission"}, tool : Tools, to : Levels]

ASSUME ConstantsAssumption ==
  /\ Catalog \in Seq(STRING) /\ Catalog # <<>>
  /\ "minimal" \in Names /\ None \notin Names
  /\ \A p \in Names, t \in Tools : Profiles[p][Group[t]] \in Levels
  /\ MaxEdits \in Nat /\ MaxCrashes \in Nat

-----------------------------------------------------------------------------
(* The policy. *)

\* resolve_effective_permission_level: the override wins over the profile.
Effective(p, rows, t) ==
  IF rows[t].level # None THEN rows[t].level ELSE Profiles[p][Group[t]]

Levelled(p, rows) == [t \in Tools |-> Effective(p, rows, t)]

InForce == Levelled(profile, overrides)

\* A ToolService that is made for a task.
New(where, task) ==
  [step |-> where, task |-> task,
   known |-> "minimal",                   \* the profile as last read
   plan |-> [t \in Tools |-> "deny"],     \* the levels it is materialising ...
   next |-> 1,                            \* ... the next tool to write
   found |-> NoRow,                       \* the override it holds, as last read
   saved |-> FALSE]                       \* its own change is committed

Init ==
  /\ profile = None /\ overrides = [t \in Tools |-> NoRow]
  /\ permission \in [Tools -> Levels \cup {None}]
  /\ up = FALSE
  /\ service = [s \in Services |-> New("idle", Read)]
  /\ sure = {} /\ enforced = FALSE
  /\ edits = 0 /\ crashes = 0

-----------------------------------------------------------------------------
(* The start of the process. *)

\* A database older than the profiles: the levels the user had set become overrides.
Inherited(t) ==
  /\ profile = None
  /\ permission[t] # None
  /\ overrides[t] = NoRow
  /\ permission[t] # Profiles["minimal"][Group[t]]

\* seed_default_data, in one transaction before the first request.
Seed ==
  /\ ~up
  /\ up' = TRUE
  /\ profile' = IF profile = None THEN "minimal" ELSE profile
  /\ overrides' =
       [t \in Tools |-> IF Inherited(t) THEN [id |-> 0, level |-> permission[t]] ELSE overrides[t]]
  /\ permission' = Levelled(profile', overrides')
  /\ enforced' = TRUE
  /\ UNCHANGED <<service, sure, edits, crashes>>

Crash ==
  /\ up
  /\ crashes < MaxCrashes
  /\ up' = FALSE
  /\ service' = [s \in Services |-> New("idle", Read)]
  /\ sure' = {} /\ enforced' = FALSE
  /\ crashes' = crashes + 1
  /\ UNCHANGED <<dbVars, edits>>

-----------------------------------------------------------------------------
(* What the observer knows. *)

\* The row it found is still there.
StillThere(s) ==
  overrides[service[s].task.tool] # NoRow /\ overrides[service[s].task.tool].id = service[s].found.id

\* What a query of the overrides gives s: a row whose object s holds comes back with
\* the level the object was loaded with (the identity map of its database session).
Seen(s) ==
  IF service[s].found # NoRow /\ StillThere(s)
    THEN [overrides EXCEPT ![service[s].task.tool] = service[s].found]
    ELSE overrides

\* s is about to write levels that are not those of the policy any more.
Outdated(s) ==
  \/ service[s].step \in {"profile", "overrides"} /\ Seen(s) # overrides
  \/ service[s].step = "overrides" /\ service[s].known # profile
  \/ service[s].step = "rows" /\ service[s].plan # InForce

\* The policy is changed by s.
Edit(s) ==
  /\ edits' = edits + 1
  /\ enforced' = FALSE
  /\ sure' = IF \E u \in Services \ {s} : Outdated(u)' THEN {} ELSE {s}
  /\ UNCHANGED <<permission, up, crashes>>

ObservedAlike == UNCHANGED <<up, sure, enforced, edits, crashes>>

-----------------------------------------------------------------------------
(* One service. *)

At(s, where) == service[s].step = where
Goto(s, where) == service' = [service EXCEPT ![s].step = where]

\* Changes that may still be committed count against the bound.
UnderWay ==
  {s \in Services : ~At(s, "idle") /\ service[s].task # Read /\ ~service[s].saved}

\* A request or an execution makes its service.
Begin(s, task) ==
  /\ up
  /\ At(s, "idle")
  /\ task # Read => edits + Cardinality(UnderWay) < MaxEdits
  /\ service' = [service EXCEPT ![s] = New(IF task.kind = "profile" THEN "setting" ELSE "profile", task)]
  /\ ObservedAlike
  /\ UNCHANGED dbVars

\* _materialize_permissions: the profile is read ...
ReadProfile(s) ==
  /\ At(s, "profile")
  /\ service' = [service EXCEPT ![s].known = profile, ![s].step = "overrides"]
  /\ sure' = IF \E u \in Services : Outdated(u) THEN {} ELSE sure \cup {s}
  /\ UNCHANGED <<dbVars, up, enforced, edits, crashes>>

\* ... then the overrides ...
ReadOverrides(s) ==
  /\ At(s, "overrides")
  /\ service' = [service EXCEPT ![s].plan = Levelled(service[s].known, Seen(s)),
                                ![s].next = 1, ![s].found = NoRow, ![s].step = "rows"]
  /\ ObservedAlike
  /\ UNCHANGED dbVars

\* Faulty Upsert: what exists is left as it is.
UpsertMissing(t, planned) ==
  permission' = [permission EXCEPT ![t] = IF @ = None THEN planned ELSE @]

\* upsert_permission.  A level that is found as planned is not written, which is the
\* same as to have written it when it was found.
Upsert(t, planned) == permission' = [permission EXCEPT ![t] = planned]

\* update_permission has materialised the policy before its own change.
ChangeIsDue(s) == service[s].task.kind = "permission" /\ ~service[s].saved

\* ... and the rows are written, one by one.
WriteRow(s) ==
  LET n == service[s].next  t == Catalog[n] IN
  /\ At(s, "rows")
  /\ Upsert(t, service[s].plan[t])
  /\ service' = [service EXCEPT
       ![s].next = n + 1,
       ![s].step = IF n < Len(Catalog) THEN "rows"
                   ELSE IF ChangeIsDue(s) THEN "default" ELSE "answer"]
  /\ ObservedAlike
  /\ UNCHANGED <<profile, overrides>>

\* The change is made, and the policy materialised again: the agent is taken out of
\* _materialized_agents.
Saved(s) ==
  service' = [service EXCEPT ![s].saved = TRUE, ![s].found = NoRow, ![s].step = "profile"]

\* save_override keeps the object of the row, to be refreshed after the commit.
SavedRow(s, row) ==
  service' = [service EXCEPT ![s].saved = TRUE, ![s].found = row, ![s].step = "refresh"]

UpsertSetting(p) == profile' = p

\* update_policy_profile.
SaveProfile(s) ==
  /\ At(s, "setting")
  /\ UpsertSetting(service[s].task.to)
  /\ UNCHANGED overrides
  /\ Saved(s)
  /\ Edit(s)

\* update_permission: what the profile gives the tool ...
ReadDefault(s) ==
  /\ At(s, "default")
  /\ service' = [service EXCEPT ![s].known = profile, ![s].step = "override"]
  /\ ObservedAlike
  /\ UNCHANGED dbVars

\* ... and the override there is.
FindOverride(s) ==
  /\ At(s, "override")
  /\ service' = [service EXCEPT ![s].found = overrides[service[s].task.tool], ![s].step = "save"]
  /\ ObservedAlike
  /\ UNCHANGED dbVars

IsDefault(s) ==
  service[s].task.to = Profiles[service[s].known][Group[service[s].task.tool]]

\* No other level than the profile gives, and no override: nothing to save.
KeepDefault(s) ==
  /\ At(s, "save")
  /\ IsDefault(s) /\ service[s].found = NoRow
  /\ Saved(s)
  /\ ObservedAlike
  /\ UNCHANGED dbVars

\* delete_override; the row may be gone already.
DeleteOverride(s) ==
  /\ At(s, "save")
  /\ IsDefault(s) /\ service[s].found # NoRow
  /\ overrides' =
       IF StillThere(s) THEN [overrides EXCEPT ![service[s].task.tool] = NoRow] ELSE overrides
  /\ UNCHANGED profile
  /\ Saved(s)
  /\ Edit(s)

\* save_override of a new row.
InsertOverride(s) ==
  LET row == [id |-> edits + 1, level |-> service[s].task.to] IN
  /\ At(s, "save")
  /\ ~IsDefault(s) /\ service[s].found = NoRow
  /\ overrides[service[s].task.tool] = NoRow
  /\ overrides' = [overrides EXCEPT ![service[s].task.tool] = row]
  /\ UNCHANGED profile
  /\ SavedRow(s, row)
  /\ Edit(s)

\* save_override of the row it found: a level that is the same is not written.
UpdateOverride(s) ==
  /\ At(s, "save")
  /\ ~IsDefault(s) /\ service[s].found # NoRow
  /\ StillThere(s)
  /\ overrides' = IF service[s].found.level = service[s].task.to THEN overrides
                  ELSE [overrides EXCEPT ![service[s].task.tool].level = service[s].task.to]
  /\ UNCHANGED profile
  /\ SavedRow(s, service[s].found)
  /\ Edit(s)

\* session.refresh: the object holds what the row says now, until the next commit.
Refresh(s) ==
  /\ At(s, "refresh")
  /\ StillThere(s)
  /\ service' = [service EXCEPT ![s].found = overrides[service[s].task.tool],
                                ![s].step = "profile"]
  /\ ObservedAlike
  /\ UNCHANGED dbVars

\* The unique key of the overrides, or the row that is gone, fails the request.
SaveRaises(s) ==
  /\ \/ At(s, "save") /\ ~IsDefault(s) /\ service[s].found = NoRow
        /\ overrides[service[s].task.tool] # NoRow
     \/ At(s, "save") /\ ~IsDefault(s) /\ service[s].found # NoRow /\ ~StillThere(s)
     \/ At(s, "refresh") /\ ~StillThere(s)
  /\ service' = [service EXCEPT ![s] = New("idle", Read)]
  /\ ObservedAlike
  /\ UNCHANGED dbVars

\* The request is answered, or the execution goes on to be decided by the rows.
Answer(s) ==
  /\ At(s, "answer")
  /\ service' = [service EXCEPT ![s] = New("idle", Read)]
  /\ enforced' = (enforced \/ s \in sure)
  /\ sure' = sure \ {s}
  /\ UNCHANGED <<dbVars, up, edits, crashes>>

Save(s) ==
  SaveProfile(s) \/ KeepDefault(s) \/ DeleteOverride(s) \/ InsertOverride(s) \/ UpdateOverride(s)

Next ==
  \/ Seed
  \/ Crash
  \/ \E s \in Services :
       \/ \E task \in Changes \cup {Read} : Begin(s, task)
       \/ ReadProfile(s) \/ ReadOverrides(s) \/ WriteRow(s)
       \/ ReadDefault(s) \/ FindOverride(s) \/ Save(s) \/ Refresh(s) \/ SaveRaises(s)
       \/ Answer(s)

Spec == Init /\ [][Next]_vars

-----------------------------------------------------------------------------
(* Properties. *)

(* Once a request or an execution has materialised a policy that did not change      *)
(* meanwhile, and nobody was still materialising an older one, the rows that decide   *)
(* the tool calls are those of the policy, until the policy is changed: whoever       *)
(* materialises it again, and whichever changes fail (_materialize_permissions,       *)
(* update_permission).                                                                *)
PolicyIsEnforced == enforced => permission = InForce

=============================================================================
