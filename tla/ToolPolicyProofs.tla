-------------------------- MODULE ToolPolicyProofs --------------------------
(***************************************************************************)
(* Theorems about ToolPolicy, for any services, catalog, profiles and bounds. *)
(***************************************************************************)
EXTENDS ToolPolicy, TLAPS

-----------------------------------------------------------------------------
(* The inductive invariant. *)

Steps == {"idle", "setting", "profile", "overrides", "rows", "default", "override", "save", "refresh",
          "answer"}

ServiceStates ==
  [step : Steps, task : Changes \cup {Read}, known : Names, plan : [Tools -> Levels],
   next : Nat \ {0}, found : OverrideRows, saved : BOOLEAN]

PolicyTypes ==
  /\ profile \in Names \cup {None}
  /\ overrides \in [Tools -> OverrideRows]
  /\ permission \in [Tools -> Levels \cup {None}]
  /\ service \in [Services -> ServiceStates]
  /\ sure \subseteq Services /\ enforced \in BOOLEAN
  /\ edits \in Nat

\* A service knows what its step needs, and nobody works before the seed.
StepsAgree ==
  /\ up => profile # None
  /\ \A s \in Services :
    /\ ~At(s, "idle") => up
    /\ At(s, "rows") => service[s].next <= Len(Catalog)
    /\ At(s, "setting") => service[s].task.kind = "profile"
    /\ service[s].step \in {"default", "override", "save", "refresh"} =>
         service[s].task.kind = "permission"

\* While somebody is sure, or the policy enforced, nobody is about to write an older one.
NobodyOutdated == sure # {} \/ enforced => \A u \in Services : ~Outdated(u)

\* The rows a sure service has written are those of the policy.
SureRows ==
  \A s \in sure :
    /\ At(s, "rows") =>
         \A k \in DOMAIN Catalog :
           k < service[s].next => permission[Catalog[k]] = InForce[Catalog[k]]
    /\ At(s, "answer") => permission = InForce

PolicyInv == PolicyTypes /\ StepsAgree /\ NobodyOutdated /\ SureRows /\ PolicyIsEnforced

-----------------------------------------------------------------------------
(* Types. *)

LEMMA CatalogFacts ==
  /\ Len(Catalog) \in Nat \ {0}
  /\ DOMAIN Catalog = 1 .. Len(Catalog)
  /\ \A k \in DOMAIN Catalog : Catalog[k] \in Tools
  /\ "minimal" \in Names /\ None \notin Names /\ None \notin Levels
  /\ NoRow \in OverrideRows
BY ConstantsAssumption DEF Tools, None, Levels, OverrideRows

LEMMA LevelledType ==
  ASSUME NEW p \in Names, NEW rows \in [Tools -> OverrideRows]
  PROVE  Levelled(p, rows) \in [Tools -> Levels]
<1> SUFFICES ASSUME NEW t \in Tools PROVE Effective(p, rows, t) \in Levels
  BY DEF Levelled
<1>1. Profiles[p][Group[t]] \in Levels
  BY ConstantsAssumption
<1>2. rows[t].level # None => rows[t].level \in Levels
  BY DEF OverrideRows, NoRow
<1> QED BY <1>1, <1>2 DEF Effective

LEMMA NewType ==
  ASSUME NEW where \in Steps, NEW task \in Changes \cup {Read}
  PROVE  /\ New(where, task) \in ServiceStates
         /\ New(where, task).step = where /\ New(where, task).task = task
         /\ New(where, task).found = NoRow
BY CatalogFacts DEF New, ServiceStates, Levels

\* Only the step and the reading of a service, and the policy, make it outdated.
LEMMA OutdatedFrame ==
  ASSUME UNCHANGED <<profile, overrides>>, NEW u \in Services, service'[u] = service[u]
  PROVE  Outdated(u)' <=> Outdated(u)
BY DEF Outdated, InForce, Seen, StillThere

-----------------------------------------------------------------------------
(* Every step preserves it. *)

\* A step of one service that writes nothing to the database and does not complete
\* its rows.
LEMMA LocalStep ==
  ASSUME PolicyInv, NEW s \in Services, NEW x \in ServiceStates,
         service' = [service EXCEPT ![s] = x],
         UNCHANGED <<profile, overrides, permission, up, sure, enforced, edits>>,
         x.step # "idle" => up,
         x.step = "setting" => x.task.kind = "profile",
         x.step \in {"default", "override", "save", "refresh"} => x.task.kind = "permission",
         x.step = "profile" => x.found = NoRow \/ x.found = overrides[x.task.tool],
         x.step = "rows" => x.next = 1 /\ (sure # {} \/ enforced => x.plan = InForce),
         x.step \notin {"overrides", "answer"}
  PROVE  PolicyInv'
<1>1. PolicyTypes'
  BY DEF PolicyInv, PolicyTypes
<1>2. service'[s] = x /\ \A u \in Services \ {s} : service'[u] = service[u]
  BY DEF PolicyInv, PolicyTypes
<1>3. InForce' = InForce
  BY DEF InForce
<1>4. StepsAgree'
  BY <1>2, CatalogFacts DEF PolicyInv, StepsAgree, At
<1>5. NobodyOutdated'
  <2> SUFFICES ASSUME sure # {} \/ enforced, NEW u \in Services
               PROVE  ~Outdated(u)'
    BY DEF NobodyOutdated
  <2>1. CASE u = s
    <3>1. x.step = "profile" => Seen(s)' = overrides'
      BY <1>1, <1>2 DEF Seen, PolicyTypes
    <3> QED BY <1>2, <1>3, <2>1, <3>1 DEF Outdated
  <2>2. CASE u # s
    BY <1>2, <2>2, OutdatedFrame DEF PolicyInv, NobodyOutdated
  <2> QED BY <2>1, <2>2
<1>6. SureRows'
  <2> SUFFICES ASSUME NEW u \in sure
               PROVE  /\ At(u, "rows")' => \A k \in DOMAIN Catalog : k < service'[u].next =>
                                             permission[Catalog[k]] = InForce[Catalog[k]]
                      /\ At(u, "answer")' => permission = InForce
    BY <1>3 DEF SureRows
  <2>1. CASE u = s
    BY <1>2, <2>1, CatalogFacts DEF At
  <2>2. CASE u # s
    BY <1>2, <2>2 DEF PolicyInv, PolicyTypes, SureRows, At
  <2> QED BY <2>1, <2>2
<1>7. PolicyIsEnforced'
  BY <1>3 DEF PolicyInv, PolicyIsEnforced
<1> QED BY <1>1, <1>4, <1>5, <1>6, <1>7 DEF PolicyInv

LEMMA TaskTypes ==
  ASSUME PolicyTypes, NEW s \in Services
  PROVE  /\ service[s] \in ServiceStates
         /\ service[s].task.kind = "profile" => service[s].task.to \in Names
         /\ service[s].task.kind = "permission" =>
              service[s].task.tool \in Tools /\ service[s].task.to \in Levels
BY DEF PolicyTypes, ServiceStates, Changes, Read

LEMMA BeginKeeps ==
  ASSUME PolicyInv, NEW s \in Services, NEW task \in Changes \cup {Read}, Begin(s, task)
  PROVE  PolicyInv'
<1> DEFINE where == IF task.kind = "profile" THEN "setting" ELSE "profile"
<1>1. where \in Steps
  BY DEF Steps
<1>2. /\ New(where, task) \in ServiceStates
      /\ New(where, task).step = where /\ New(where, task).task = task
      /\ New(where, task).found = NoRow
  BY <1>1, NewType
<1> QED
  BY <1>2, LocalStep DEF Begin, ObservedAlike, dbVars

LEMMA ReadProfileKeeps ==
  ASSUME PolicyInv, NEW s \in Services, ReadProfile(s)
  PROVE  PolicyInv'
<1> DEFINE x == [service[s] EXCEPT !.known = profile, !.step = "overrides"]
<1>1. service' = [service EXCEPT ![s] = x] /\ profile \in Names /\ up
  BY DEF ReadProfile, PolicyInv, PolicyTypes, StepsAgree, At
<1>2. /\ x \in ServiceStates /\ x.step = "overrides" /\ x.known = profile
      /\ x.found = service[s].found /\ x.task = service[s].task
  BY <1>1, TaskTypes DEF PolicyInv, ServiceStates, Steps
<1>3. service'[s] = x /\ \A u \in Services \ {s} : service'[u] = service[u]
  BY <1>1 DEF PolicyInv, PolicyTypes
<1>4. InForce' = InForce
  BY DEF InForce, ReadProfile, dbVars
<1>5. PolicyTypes'
  BY <1>1, <1>2 DEF PolicyInv, PolicyTypes, ReadProfile, dbVars
<1>6. StepsAgree'
  BY <1>1, <1>2, <1>3 DEF PolicyInv, StepsAgree, At, ReadProfile, dbVars
<1>7. NobodyOutdated'
  <2> SUFFICES ASSUME sure' # {} \/ enforced, NEW u \in Services
               PROVE  ~Outdated(u)'
    BY DEF NobodyOutdated, ReadProfile
  <2>1. ~Outdated(u)
    BY DEF PolicyInv, NobodyOutdated, ReadProfile
  <2>2. CASE u = s
    <3>1. Seen(s) = overrides
      BY <2>1, <2>2 DEF Outdated, ReadProfile, At
    <3>2. service'[s].found = service[s].found /\ service'[s].task = service[s].task
      BY <1>2, <1>3
    <3>3. Seen(s)' = overrides'
      BY <3>1, <3>2 DEF Seen, StillThere, ReadProfile, dbVars
    <3> QED BY <1>2, <1>3, <2>2, <3>3 DEF Outdated, ReadProfile, dbVars
  <2>3. CASE u # s
    BY <1>3, <2>1, <2>3, OutdatedFrame DEF ReadProfile, dbVars
  <2> QED BY <2>2, <2>3
<1>8. SureRows'
  <2> SUFFICES ASSUME NEW u \in sure'
               PROVE  /\ At(u, "rows")' => \A k \in DOMAIN Catalog : k < service'[u].next =>
                                             permission[Catalog[k]] = InForce[Catalog[k]]
                      /\ At(u, "answer")' => permission = InForce
    BY <1>4 DEF SureRows, ReadProfile, dbVars
  <2>1. CASE u = s
    BY <1>2, <1>3, <2>1 DEF At
  <2>2. CASE u # s
    <3>1. u \in sure /\ u \in Services
      BY <2>2 DEF ReadProfile, PolicyInv, PolicyTypes
    <3> QED BY <1>3, <2>2, <3>1 DEF PolicyInv, SureRows, At
  <2> QED BY <2>1, <2>2
<1>9. PolicyIsEnforced'
  BY <1>4 DEF PolicyInv, PolicyIsEnforced, ReadProfile, dbVars
<1> QED BY <1>5, <1>6, <1>7, <1>8, <1>9 DEF PolicyInv

LEMMA ReadOverridesKeeps ==
  ASSUME PolicyInv, NEW s \in Services, ReadOverrides(s)
  PROVE  PolicyInv'
<1> DEFINE read == Levelled(service[s].known, Seen(s))
           x == [service[s] EXCEPT !.plan = read, !.next = 1, !.found = NoRow, !.step = "rows"]
<1>1. service' = [service EXCEPT ![s] = x] /\ up
  BY DEF ReadOverrides, PolicyInv, PolicyTypes, StepsAgree, At
<1>2. read \in [Tools -> Levels]
  <2>1. Seen(s) \in [Tools -> OverrideRows]
    BY DEF Seen, PolicyInv, PolicyTypes, ServiceStates
  <2> QED BY <2>1, LevelledType DEF PolicyInv, PolicyTypes, ServiceStates
<1> HIDE DEF read
<1>3. x \in ServiceStates /\ x.step = "rows" /\ x.next = 1 /\ x.plan = read
  <2>1. service[s] \in ServiceStates
    BY TaskTypes DEF PolicyInv
  <2> DEFINE y == [service[s] EXCEPT !.plan = read, !.next = 1]
             z == [service[s] EXCEPT !.plan = read]
  <2>2. z \in ServiceStates /\ z.plan = read
    BY <1>2, <2>1 DEF ServiceStates
  <2>3. y = [z EXCEPT !.next = 1] /\ x = [y EXCEPT !.found = NoRow, !.step = "rows"]
    OBVIOUS
  <2> HIDE DEF x, y, z
  <2>4. y \in ServiceStates /\ y.next = 1 /\ y.plan = read
    BY <2>2, <2>3 DEF ServiceStates
  <2> QED BY <2>3, <2>4, CatalogFacts DEF ServiceStates, Steps
<1>4. sure # {} \/ enforced => read = InForce
  BY DEF read, PolicyInv, NobodyOutdated, Outdated, ReadOverrides, At, InForce
<1> HIDE DEF x
<1> QED BY <1>1, <1>3, <1>4, LocalStep DEF ReadOverrides, ObservedAlike, dbVars

\* Whoever writes a row while somebody is sure writes the level of the policy.
LEMMA WriteRowKeeps ==
  ASSUME PolicyInv, NEW s \in Services, WriteRow(s)
  PROVE  PolicyInv'
<1> DEFINE n == service[s].next
           t == Catalog[n]
           where == IF n < Len(Catalog) THEN "rows"
                    ELSE IF ChangeIsDue(s) THEN "default" ELSE "answer"
           x == [service[s] EXCEPT !.next = n + 1, !.step = where]
<1>1. /\ service' = [service EXCEPT ![s] = x]
      /\ permission' = [permission EXCEPT ![t] = service[s].plan[t]]
      /\ UNCHANGED <<profile, overrides, up, sure, enforced, edits>>
  BY DEF WriteRow, Upsert, ObservedAlike, PolicyInv, PolicyTypes
<1>2. /\ n \in DOMAIN Catalog /\ n \in Nat /\ t \in Tools /\ up
      /\ service[s].plan \in [Tools -> Levels] /\ service[s].step = "rows"
  BY CatalogFacts, TaskTypes DEF WriteRow, PolicyInv, StepsAgree, At, ServiceStates
<1>3. /\ where \in {"rows", "default", "answer"}
      /\ where = "default" => service[s].task.kind = "permission"
  BY DEF ChangeIsDue
<1>4. where = "rows" => n < Len(Catalog)
  OBVIOUS
<1>5. n < Len(Catalog) => where = "rows"
  OBVIOUS
<1> HIDE DEF where
<1>6. x \in ServiceStates /\ x.step = where /\ x.next = n + 1 /\ x.plan = service[s].plan
      /\ x.task = service[s].task
  <2>1. service[s] \in ServiceStates
    BY TaskTypes DEF PolicyInv
  <2>2. n + 1 \in Nat \ {0} /\ where \in Steps
    BY <1>2, <1>3 DEF Steps
  <2> HIDE DEF n
  <2> QED BY <2>1, <2>2 DEF ServiceStates
<1> HIDE DEF x
<1>7. service'[s] = x /\ \A u \in Services \ {s} : service'[u] = service[u]
  BY <1>1 DEF PolicyInv, PolicyTypes
<1>8. InForce' = InForce
  BY <1>1 DEF InForce
<1>9. PolicyTypes'
  <2>1. permission' \in [Tools -> Levels \cup {None}]
    BY <1>1, <1>2 DEF PolicyInv, PolicyTypes
  <2> QED BY <1>1, <1>6, <2>1 DEF PolicyInv, PolicyTypes
<1>10. StepsAgree'
  <2> SUFFICES ASSUME NEW u \in Services
               PROVE  /\ ~At(u, "idle")' => up
                      /\ At(u, "rows")' => service'[u].next <= Len(Catalog)
                      /\ At(u, "setting")' => service'[u].task.kind = "profile"
                      /\ service'[u].step \in {"default", "override", "save", "refresh"} =>
                           service'[u].task.kind = "permission"
    BY <1>1 DEF PolicyInv, StepsAgree
  <2>1. CASE u = s
    <3>1. where = "rows" => n + 1 <= Len(Catalog)
      BY <1>2, <1>4, CatalogFacts
    <3> QED BY <1>2, <1>3, <1>6, <1>7, <2>1, <3>1 DEF At
  <2>2. CASE u # s
    BY <1>7, <2>2 DEF PolicyInv, StepsAgree, At
  <2> QED BY <2>1, <2>2
<1>11. NobodyOutdated'
  <2> SUFFICES ASSUME sure # {} \/ enforced, NEW u \in Services
               PROVE  ~Outdated(u)'
    BY <1>1 DEF NobodyOutdated
  <2>1. ~Outdated(u)
    BY DEF PolicyInv, NobodyOutdated
  <2>2. CASE u = s
    <3>1. service[s].plan = InForce
      BY <1>2, <2>1, <2>2 DEF Outdated
    <3>2. service'[s].step \notin {"profile", "overrides"} /\ service'[s].plan = InForce
      BY <1>3, <1>6, <1>7, <3>1
    <3> QED BY <1>8, <2>2, <3>2 DEF Outdated
  <2>3. CASE u # s
    BY <1>1, <1>7, <2>1, <2>3, OutdatedFrame
  <2> QED BY <2>2, <2>3
<1>12. ASSUME sure # {} \/ enforced
       PROVE  /\ permission'[t] = InForce[t]
              /\ \A v \in Tools : permission[v] = InForce[v] => permission'[v] = InForce[v]
  <2>1. service[s].plan = InForce
    BY <1>2, <1>12 DEF PolicyInv, NobodyOutdated, Outdated
  <2> QED BY <1>1, <1>2, <2>1 DEF PolicyInv, PolicyTypes
<1>13. InForce = [v \in Tools |-> InForce[v]] /\ permission' = [v \in Tools |-> permission'[v]]
  BY <1>9 DEF InForce, Levelled, PolicyTypes
<1>14. SureRows'
  <2> SUFFICES ASSUME NEW u \in sure
               PROVE  /\ At(u, "rows")' => \A k \in DOMAIN Catalog : k < service'[u].next =>
                                             permission'[Catalog[k]] = InForce[Catalog[k]]
                      /\ At(u, "answer")' => permission' = InForce
    BY <1>1, <1>8 DEF SureRows
  <2>1. CASE u = s
    <3>1. \A k \in DOMAIN Catalog : k < n => permission[Catalog[k]] = InForce[Catalog[k]]
      BY <1>2, <2>1 DEF PolicyInv, SureRows, At
    <3>2. \A k \in DOMAIN Catalog : k < n + 1 => permission'[Catalog[k]] = InForce[Catalog[k]]
      BY <1>2, <1>12, <3>1, CatalogFacts
    <3>3. ASSUME where = "answer" PROVE permission' = InForce
      <4>1. \A k \in DOMAIN Catalog : k < n + 1
        BY <1>2, <1>5, <3>3, CatalogFacts
      <4>2. \A v \in Tools : permission'[v] = InForce[v]
        BY <3>2, <4>1 DEF Tools
      <4> QED BY <1>13, <4>2
    <3> QED BY <1>6, <1>7, <2>1, <3>2, <3>3 DEF At
  <2>2. CASE u # s
    <3>1. u \in Services /\ service'[u] = service[u]
      BY <1>7, <2>2 DEF PolicyInv, PolicyTypes
    <3>2. /\ At(u, "rows") => \A k \in DOMAIN Catalog : k < service[u].next =>
                                permission[Catalog[k]] = InForce[Catalog[k]]
          /\ At(u, "answer") => permission = InForce
      BY DEF PolicyInv, SureRows
    <3>3. permission = InForce => permission' = InForce
      BY <1>12, <1>13
    <3>4. \A k \in DOMAIN Catalog : permission[Catalog[k]] = InForce[Catalog[k]]
                                      => permission'[Catalog[k]] = InForce[Catalog[k]]
      BY <1>12, CatalogFacts
    <3> QED BY <3>1, <3>2, <3>3, <3>4 DEF At
  <2> QED BY <2>1, <2>2
<1>15. PolicyIsEnforced'
  BY <1>1, <1>8, <1>12, <1>13 DEF PolicyInv, PolicyIsEnforced
<1> QED BY <1>9, <1>10, <1>11, <1>14, <1>15 DEF PolicyInv

\* Whoever reads or looks for the override of a tool.
LEMMA UpdateReadsKeep ==
  ASSUME PolicyInv, NEW s \in Services, ReadDefault(s) \/ FindOverride(s)
  PROVE  PolicyInv'
<1>1. service[s] \in ServiceStates /\ up /\ service[s].task.kind = "permission"
  BY TaskTypes DEF PolicyInv, StepsAgree, At, ReadDefault, FindOverride
<1>2. CASE ReadDefault(s)
  <2> DEFINE x == [service[s] EXCEPT !.known = profile, !.step = "override"]
  <2>1. service' = [service EXCEPT ![s] = x] /\ profile \in Names
    BY <1>1, <1>2 DEF ReadDefault, PolicyInv, PolicyTypes, StepsAgree
  <2>2. x \in ServiceStates /\ x.step = "override" /\ x.task = service[s].task
    BY <1>1, <2>1 DEF ServiceStates, Steps
  <2> HIDE DEF x
  <2> QED BY <1>1, <1>2, <2>1, <2>2, LocalStep DEF ReadDefault, ObservedAlike, dbVars
<1>3. CASE FindOverride(s)
  <2> DEFINE row == overrides[service[s].task.tool]
             x == [service[s] EXCEPT !.found = row, !.step = "save"]
  <2>1. service' = [service EXCEPT ![s] = x]
    BY <1>3 DEF FindOverride, PolicyInv, PolicyTypes
  <2>2. row \in OverrideRows
    BY <1>1, TaskTypes DEF PolicyInv, PolicyTypes
  <2> HIDE DEF row
  <2>3. x \in ServiceStates /\ x.step = "save" /\ x.task = service[s].task
    BY <1>1, <2>2 DEF ServiceStates, Steps
  <2> HIDE DEF x
  <2> QED BY <1>1, <1>3, <2>1, <2>3, LocalStep DEF FindOverride, ObservedAlike, dbVars
<1> QED BY <1>2, <1>3

LEMMA SavedState ==
  ASSUME PolicyTypes, NEW s \in Services, NEW row \in OverrideRows,
         Saved(s) \/ (At(s, "save") /\ SavedRow(s, row))
  PROVE  /\ service' \in [Services -> ServiceStates]
         /\ \/ service'[s].step = "profile" /\ service'[s].found = NoRow
            \/ service'[s].step = "refresh" /\ At(s, "save")
         /\ service'[s].task = service[s].task
         /\ \A u \in Services \ {s} : service'[u] = service[u]
<1> DEFINE x(held, where) == [service[s] EXCEPT !.saved = TRUE, !.found = held, !.step = where]
<1>1. ASSUME NEW held \in OverrideRows, NEW where \in {"profile", "refresh"}
      PROVE  /\ x(held, where) \in ServiceStates
             /\ x(held, where).step = where /\ x(held, where).found = held
             /\ x(held, where).task = service[s].task
  <2>1. service[s] \in ServiceStates /\ where \in Steps
    BY DEF PolicyTypes, Steps
  <2> DEFINE y == [service[s] EXCEPT !.saved = TRUE]
  <2>2. y \in ServiceStates /\ y.task = service[s].task
    BY <2>1 DEF ServiceStates
  <2>3. x(held, where) = [y EXCEPT !.found = held, !.step = where]
    OBVIOUS
  <2> HIDE DEF x, y
  <2> QED BY <2>1, <2>2, <2>3 DEF ServiceStates
<1>2. CASE Saved(s)
  <2>1. service' = [service EXCEPT ![s] = x(NoRow, "profile")]
    BY <1>2 DEF Saved, PolicyTypes
  <2> HIDE DEF x
  <2> QED BY <1>1, <2>1, CatalogFacts DEF PolicyTypes
<1>3. CASE At(s, "save") /\ SavedRow(s, row)
  <2>1. service' = [service EXCEPT ![s] = x(row, "refresh")]
    BY <1>3 DEF SavedRow, PolicyTypes
  <2>2. x(row, "refresh") \in ServiceStates /\ x(row, "refresh").step = "refresh"
        /\ x(row, "refresh").task = service[s].task
    BY <1>1
  <2> HIDE DEF x
  <2> QED BY <1>3, <2>1, <2>2 DEF PolicyTypes
<1> QED BY <1>2, <1>3

\* A change of the policy: only its own service may be sure of it.
LEMMA EditKeeps ==
  ASSUME PolicyInv, NEW s \in Services, NEW row \in OverrideRows,
         Saved(s) \/ (At(s, "save") /\ SavedRow(s, row)), Edit(s), ~At(s, "idle"),
         profile' \in Names, overrides' \in [Tools -> OverrideRows]
  PROVE  PolicyInv'
<1>1. /\ service' \in [Services -> ServiceStates]
      /\ \/ service'[s].step = "profile" /\ service'[s].found = NoRow
         \/ service'[s].step = "refresh" /\ At(s, "save")
      /\ service'[s].task = service[s].task
      /\ \A u \in Services \ {s} : service'[u] = service[u]
  BY SavedState DEF PolicyInv
<1>2. sure' \subseteq {s} /\ enforced' = FALSE
  BY DEF Edit
<1>3. PolicyTypes'
  <2>1. permission' \in [Tools -> Levels \cup {None}] /\ edits' \in Nat
    BY DEF PolicyInv, PolicyTypes, Edit
  <2>2. sure' \subseteq Services
    BY <1>2
  <2> QED BY <1>1, <1>2, <2>1, <2>2 DEF PolicyTypes
<1>4. StepsAgree'
  BY <1>1, CatalogFacts DEF PolicyInv, StepsAgree, At, Edit
<1>5. NobodyOutdated'
  <2> SUFFICES ASSUME sure' # {}, NEW u \in Services PROVE ~Outdated(u)'
    BY <1>2 DEF NobodyOutdated
  <2>1. CASE u = s
    <3>1. service'[s].found = NoRow => Seen(s)' = overrides'
      BY DEF Seen
    <3> QED BY <1>1, <2>1, <3>1 DEF Outdated
  <2>2. CASE u # s
    BY <2>2 DEF Edit
  <2> QED BY <2>1, <2>2
<1>6. SureRows' /\ PolicyIsEnforced'
  BY <1>1, <1>2 DEF SureRows, PolicyIsEnforced, At
<1> QED BY <1>3, <1>4, <1>5, <1>6 DEF PolicyInv

LEMMA SaveKeeps ==
  ASSUME PolicyInv, NEW s \in Services, Save(s)
  PROVE  PolicyInv'
<1>0. NoRow \in OverrideRows
  BY CatalogFacts
<1> DEFINE t == service[s].task.tool
<1>1. ~At(s, "idle") /\ up /\ profile \in Names
  BY DEF Save, SaveProfile, KeepDefault, DeleteOverride, InsertOverride, UpdateOverride,
         PolicyInv, PolicyTypes, StepsAgree, At
<1>2. At(s, "save") => t \in Tools /\ service[s].task.to \in Levels
  BY TaskTypes DEF PolicyInv, StepsAgree, At
<1>3. CASE SaveProfile(s)
  <2>1. profile' \in Names /\ overrides' \in [Tools -> OverrideRows]
    BY <1>3, TaskTypes DEF SaveProfile, UpsertSetting, PolicyInv, PolicyTypes, StepsAgree, At
  <2>2. Saved(s) \/ (At(s, "save") /\ SavedRow(s, NoRow))
    BY <1>3 DEF SaveProfile
  <2>3. Edit(s)
    BY <1>3 DEF SaveProfile
  <2> QED BY <1>0, <1>1, <2>1, <2>2, <2>3, EditKeeps
<1>4. CASE KeepDefault(s)
  <2> DEFINE x == [service[s] EXCEPT !.saved = TRUE, !.step = "profile"]
  <2>1. service' = [service EXCEPT ![s] = x]
    BY <1>4 DEF KeepDefault, Saved, PolicyInv, PolicyTypes, ServiceStates
  <2>2. service[s] \in ServiceStates /\ service[s].found = NoRow
    BY <1>4, TaskTypes DEF PolicyInv, KeepDefault
  <2>3. x \in ServiceStates /\ x.step = "profile" /\ x.found = NoRow
    BY <2>2 DEF ServiceStates, Steps
  <2> HIDE DEF x
  <2> QED BY <1>1, <1>4, <2>1, <2>3, LocalStep DEF KeepDefault, ObservedAlike, dbVars
<1>5. CASE DeleteOverride(s)
  <2>1. overrides' \in [Tools -> OverrideRows]
    BY <1>2, <1>5, CatalogFacts DEF DeleteOverride, PolicyInv, PolicyTypes
  <2>2. Saved(s) \/ (At(s, "save") /\ SavedRow(s, NoRow))
    BY <1>5 DEF DeleteOverride
  <2>3. Edit(s) /\ profile' \in Names
    BY <1>1, <1>5 DEF DeleteOverride
  <2> QED BY <1>0, <1>1, <2>1, <2>2, <2>3, EditKeeps
<1>6. CASE InsertOverride(s)
  <2> DEFINE row == [id |-> edits + 1, level |-> service[s].task.to]
  <2>1. row \in OverrideRows
    BY <1>2, <1>6 DEF InsertOverride, OverrideRows, PolicyInv, PolicyTypes
  <2>2. overrides' \in [Tools -> OverrideRows]
    BY <1>6, <2>1 DEF InsertOverride, PolicyInv, PolicyTypes
  <2>3. SavedRow(s, row) /\ At(s, "save") /\ Edit(s) /\ UNCHANGED profile
    BY <1>6 DEF InsertOverride
  <2> HIDE DEF row
  <2> QED BY <1>1, <2>1, <2>2, <2>3, EditKeeps
<1>7. CASE UpdateOverride(s)
  <2> DEFINE row == [overrides[t] EXCEPT !.level = service[s].task.to]
  <2>1. t \in Tools /\ overrides[t] \in OverrideRows \ {NoRow} /\ service[s].task.to \in Levels
    BY <1>2, <1>7 DEF UpdateOverride, StillThere, PolicyInv, PolicyTypes
  <2>2. row \in OverrideRows
    BY <2>1 DEF OverrideRows
  <2>3. overrides' = overrides \/ overrides' = [overrides EXCEPT ![t] = row]
    BY <1>7 DEF UpdateOverride
  <2> HIDE DEF row
  <2>4. overrides' \in [Tools -> OverrideRows]
    BY <2>1, <2>2, <2>3 DEF PolicyInv, PolicyTypes
  <2>5. service[s].found \in OverrideRows
    BY DEF PolicyInv, PolicyTypes, ServiceStates
  <2> QED BY <1>1, <1>7, <2>4, <2>5, EditKeeps DEF UpdateOverride
<1> QED BY <1>3, <1>4, <1>5, <1>6, <1>7 DEF Save

LEMMA RefreshKeeps ==
  ASSUME PolicyInv, NEW s \in Services, Refresh(s)
  PROVE  PolicyInv'
<1> DEFINE row == overrides[service[s].task.tool]
           x == [service[s] EXCEPT !.found = row, !.step = "profile"]
<1>1. service' = [service EXCEPT ![s] = x] /\ up
  BY DEF Refresh, PolicyInv, PolicyTypes, StepsAgree, At
<1>2. service[s] \in ServiceStates /\ row \in OverrideRows
  BY TaskTypes DEF Refresh, PolicyInv, PolicyTypes, StepsAgree, At
<1> HIDE DEF row
<1>3. /\ x \in ServiceStates /\ x.step = "profile"
      /\ x.found = row /\ x.task = service[s].task
  BY <1>2 DEF ServiceStates, Steps
<1>4. row = overrides[x.task.tool]
  BY <1>3 DEF row
<1> HIDE DEF x
<1> QED BY <1>1, <1>3, <1>4, LocalStep DEF Refresh, ObservedAlike, dbVars

LEMMA SaveRaisesKeeps ==
  ASSUME PolicyInv, NEW s \in Services, SaveRaises(s)
  PROVE  PolicyInv'
<1>1. New("idle", Read) \in ServiceStates /\ New("idle", Read).step = "idle"
  BY NewType DEF Steps
<1> QED BY <1>1, LocalStep DEF SaveRaises, ObservedAlike, dbVars

LEMMA AnswerKeeps ==
  ASSUME PolicyInv, NEW s \in Services, Answer(s)
  PROVE  PolicyInv'
<1>1. New("idle", Read) \in ServiceStates /\ New("idle", Read).step = "idle"
  BY NewType DEF Steps
<1>2. /\ service' \in [Services -> ServiceStates]
      /\ service'[s].step = "idle"
      /\ \A u \in Services \ {s} : service'[u] = service[u]
  BY <1>1 DEF Answer, PolicyInv, PolicyTypes
<1>3. InForce' = InForce
  BY DEF InForce, Answer, dbVars
<1>4. PolicyTypes'
  BY <1>2 DEF PolicyInv, PolicyTypes, Answer, dbVars
<1>5. StepsAgree'
  BY <1>2, CatalogFacts DEF PolicyInv, StepsAgree, At, Answer, dbVars
<1>6. NobodyOutdated'
  <2> SUFFICES ASSUME sure' # {} \/ enforced', NEW u \in Services PROVE ~Outdated(u)'
    BY DEF NobodyOutdated
  <2>1. ~Outdated(u)
    BY DEF Answer, PolicyInv, NobodyOutdated
  <2>2. CASE u = s
    BY <1>2, <2>2 DEF Outdated
  <2>3. CASE u # s
    BY <1>2, <2>1, <2>3, OutdatedFrame DEF Answer, dbVars
  <2> QED BY <2>2, <2>3
<1>7. SureRows'
  BY <1>2, <1>3 DEF PolicyInv, PolicyTypes, SureRows, At, Answer, dbVars
<1>8. PolicyIsEnforced'
  BY <1>3 DEF PolicyInv, PolicyIsEnforced, SureRows, At, Answer, dbVars
<1> QED BY <1>4, <1>5, <1>6, <1>7, <1>8 DEF PolicyInv

\* Where nobody works, nobody is outdated or has rows to be sure of.
LEMMA IdleKeeps ==
  ASSUME PolicyTypes', StepsAgree', PolicyIsEnforced', \A s \in Services : At(s, "idle")'
  PROVE  PolicyInv'
BY DEF PolicyInv, PolicyTypes, NobodyOutdated, SureRows, Outdated, At

LEMMA SeedKeeps ==
  ASSUME PolicyInv, Seed
  PROVE  PolicyInv'
<1>1. \A s \in Services : At(s, "idle")'
  BY DEF PolicyInv, StepsAgree, At, Seed
<1>2. profile' \in Names
  BY CatalogFacts DEF PolicyInv, PolicyTypes, Seed
<1>3. overrides' \in [Tools -> OverrideRows]
  <2> SUFFICES ASSUME NEW t \in Tools, Inherited(t)
               PROVE  [id |-> 0, level |-> permission[t]] \in OverrideRows
    BY DEF PolicyInv, PolicyTypes, Seed
  <2> QED BY DEF Inherited, PolicyInv, PolicyTypes, OverrideRows
<1>4. permission' = InForce' /\ permission' \in [Tools -> Levels]
  BY <1>2, <1>3, LevelledType DEF Seed, InForce
<1>5. PolicyTypes'
  BY <1>2, <1>3, <1>4 DEF PolicyInv, PolicyTypes, Seed
<1>6. StepsAgree'
  BY <1>1, <1>2, CatalogFacts DEF StepsAgree, At, Seed
<1>7. PolicyIsEnforced'
  BY <1>4 DEF PolicyIsEnforced
<1> QED BY <1>1, <1>5, <1>6, <1>7, IdleKeeps

LEMMA CrashKeeps ==
  ASSUME PolicyInv, Crash
  PROVE  PolicyInv'
<1>1. New("idle", Read) \in ServiceStates /\ New("idle", Read).step = "idle"
  BY NewType DEF Steps
<1>2. \A s \in Services : At(s, "idle")'
  BY <1>1 DEF Crash, At
<1>3. PolicyTypes'
  BY <1>1 DEF PolicyInv, PolicyTypes, Crash, dbVars
<1>4. StepsAgree'
  BY <1>2 DEF StepsAgree, At, Crash
<1>5. PolicyIsEnforced'
  BY DEF PolicyIsEnforced, Crash
<1> QED BY <1>2, <1>3, <1>4, <1>5, IdleKeeps

LEMMA PolicyInitially == Init => PolicyInv
<1> SUFFICES ASSUME Init PROVE PolicyInv
  OBVIOUS
<1>1. New("idle", Read) \in ServiceStates /\ New("idle", Read).step = "idle"
  BY NewType DEF Steps
<1>2. PolicyTypes
  BY <1>1, CatalogFacts DEF Init, PolicyTypes
<1>3. StepsAgree
  BY <1>1 DEF Init, StepsAgree, At
<1>4. NobodyOutdated /\ SureRows /\ PolicyIsEnforced
  BY DEF Init, NobodyOutdated, SureRows, PolicyIsEnforced
<1> QED BY <1>2, <1>3, <1>4 DEF PolicyInv

LEMMA PolicyNext == PolicyInv /\ [Next]_vars => PolicyInv'
<1> SUFFICES ASSUME PolicyInv, [Next]_vars PROVE PolicyInv'
  OBVIOUS
<1>1. CASE Seed \/ Crash
  BY <1>1, SeedKeeps, CrashKeeps
<1>2. ASSUME NEW s \in Services, NEW task \in Changes \cup {Read}, Begin(s, task)
      PROVE  PolicyInv'
  BY <1>2, BeginKeeps
<1>3. ASSUME NEW s \in Services, ReadProfile(s) \/ ReadOverrides(s) \/ WriteRow(s)
      PROVE  PolicyInv'
  BY <1>3, ReadProfileKeeps, ReadOverridesKeeps, WriteRowKeeps
<1>4. ASSUME NEW s \in Services,
             \/ ReadDefault(s) \/ FindOverride(s) \/ Save(s)
             \/ Refresh(s) \/ SaveRaises(s) \/ Answer(s)
      PROVE  PolicyInv'
  BY <1>4, UpdateReadsKeep, SaveKeeps, RefreshKeeps, SaveRaisesKeeps, AnswerKeeps
<1>5. CASE UNCHANGED vars
  BY <1>5 DEF vars, dbVars, PolicyInv, PolicyTypes, StepsAgree, NobodyOutdated, SureRows,
              PolicyIsEnforced, Outdated, InForce, Seen, StillThere, At
<1> QED BY <1>1, <1>2, <1>3, <1>4, <1>5 DEF Next

LEMMA PolicyInvariant == Spec => []PolicyInv
BY PolicyInitially, PolicyNext, PTL DEF Spec

-----------------------------------------------------------------------------

\* Once a service has finished with a policy that nobody changed and nobody disturbed
\* (_materialize_permissions), the rows that decide the tool calls are those of the policy
\* until its next change, for any number of services and tools and any profiles.
THEOREM PolicyEnforced == Spec => []PolicyIsEnforced
<1>1. PolicyInv => PolicyIsEnforced
  BY DEF PolicyInv
<1> QED BY <1>1, PolicyInvariant, PTL

=============================================================================
