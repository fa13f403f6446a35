--------------------------- MODULE AdmissionProofs ---------------------------
(***************************************************************************)
(* The spend exceeds the budgets by no more than the executions under way    *)
(* can cost, for any number of executions, editors and mappings.             *)
(*                                                                         *)
(* The bound is not inductive: a run that finishes adds its cost.  What is,   *)
(* is Exposed: the spend together with all that the runs under way may still  *)
(* add.  The check makes it true of a new run, and a run that finishes only    *)
(* turns what it might cost into what it did.                                 *)
(***************************************************************************)
EXTENDS Admission, FiniteSetTheorems, TLAPS

\* What the requests hold of the budgets is not above any budget there was.
LimitsKnown ==
  /\ \A r \in Runs, w \in Windows : limits[r][w] <= peak[w]
  /\ \A w \in Windows : budget[w] <= peak[w]

Exposed ==
  /\ Cardinality(UnderWay) <= crowd
  /\ \A w \in Windows : spent[w] + Cardinality(UnderWay) * MaxCost <= peak[w] + crowd * MaxCost

Inv == TypeOK /\ LimitsKnown /\ Exposed

-----------------------------------------------------------------------------
(* Arithmetic and cardinalities. *)

LEMMA MaxIsNat ==
  ASSUME NEW a \in Nat, NEW b \in Nat
  PROVE  MaxOf(a, b) \in Nat /\ a <= MaxOf(a, b) /\ b <= MaxOf(a, b)
BY DEF MaxOf

LEMMA Times ==
  ASSUME NEW a \in Nat, NEW b \in Nat
  PROVE  /\ a * MaxCost \in Nat
         /\ (a + 1) * MaxCost = a * MaxCost + MaxCost
         /\ a <= b => a * MaxCost <= b * MaxCost
<1>1. MaxCost \in Nat
  BY ConstantsAssumption
<1>2. /\ a * MaxCost \in Nat /\ (a + 1) * MaxCost = a * MaxCost + MaxCost
  BY <1>1
<1>3. ASSUME a <= b PROVE a * MaxCost <= b * MaxCost
  <2>1. PICK d \in Nat : b = a + d
    BY <1>3
  <2>2. b * MaxCost = a * MaxCost + d * MaxCost
    BY <1>1, <2>1
  <2>3. d * MaxCost \in Nat
    BY <1>1
  <2>4. QED
    BY <1>2, <2>2, <2>3
<1>4. QED
  BY <1>2, <1>3

LEMMA UnderWayFinite == IsFiniteSet(UnderWay) /\ Cardinality(UnderWay) \in Nat
<1>1. IsFiniteSet(UnderWay)
  BY ConstantsAssumption, FS_Subset DEF UnderWay
<1>2. QED
  BY <1>1, FS_CardinalityType

LEMMA UnderWayFinitePrime == IsFiniteSet(UnderWay') /\ Cardinality(UnderWay') \in Nat
<1>1. UnderWay' \subseteq Runs
  BY DEF UnderWay
<1>2. IsFiniteSet(UnderWay')
  BY <1>1, ConstantsAssumption, FS_Subset
<1>3. QED
  BY <1>2, FS_CardinalityType

\* A step under which no run starts keeps the exposure, if nothing is spent.
LEMMA FewerUnderWay ==
  ASSUME Inv, UnderWay' \subseteq UnderWay, UNCHANGED crowd,
         \A w \in Windows : /\ spent[w] \in Nat /\ spent'[w] \in Nat /\ spent'[w] <= spent[w]
                            /\ peak[w] \in Nat /\ peak'[w] \in Nat /\ peak[w] <= peak'[w]
  PROVE  Exposed'
<1> DEFINE n == Cardinality(UnderWay)
           m == Cardinality(UnderWay')
<1>1. n \in Nat /\ m \in Nat /\ m <= n
  BY UnderWayFinite, UnderWayFinitePrime, FS_Subset
<1>2. m * MaxCost \in Nat /\ n * MaxCost \in Nat /\ m * MaxCost <= n * MaxCost
  BY <1>1, Times
<1>3. crowd \in Nat /\ n <= crowd /\ crowd * MaxCost \in Nat
  BY Times DEF Inv, TypeOK, Exposed
<1>4. \A w \in Windows : spent[w] + n * MaxCost <= peak[w] + crowd * MaxCost
  BY DEF Inv, Exposed
<1> HIDE DEF n, m
<1>5. m <= crowd
  BY <1>1, <1>3
<1>6. ASSUME NEW w \in Windows
      PROVE  spent'[w] + m * MaxCost <= peak'[w] + crowd * MaxCost
  BY <1>2, <1>3, <1>4
<1>7. QED
  BY <1>5, <1>6 DEF Exposed, m

-----------------------------------------------------------------------------
(* Types. *)

LEMMA InitTypes == Init => TypeOK
<1> SUFFICES ASSUME Init PROVE TypeOK
  OBVIOUS
<1>1. PICK d \in Budgets, m \in Budgets :
        budget = [w \in Windows |-> IF w = "daily" THEN d ELSE m]
  BY DEF Init
<1>2. budget \in [Windows -> Nat] /\ peak \in [Windows -> Nat]
  BY <1>1, ConstantsAssumption DEF Init
<1>3. QED
  BY <1>2 DEF Init, TypeOK, Phases, Statuses, NoLimits, NoEdit, Windows

LEMMA SettingTypes ==
  ASSUME TypeOK, NEW e \in Editors, Edit(e) \/ Save(e)
  PROVE  TypeOK'
<1>1. CASE Edit(e)
  <2>1. PICK d \in Budgets, m \in Budgets :
          edit' = [edit EXCEPT ![e] = [left |-> Windows, daily |-> d, monthly |-> m]]
    BY <1>1 DEF Edit
  <2>2. d \in Nat /\ m \in Nat
    BY ConstantsAssumption
  <2>3. edit' \in [Editors -> [left : SUBSET Windows, daily : Nat, monthly : Nat]]
    BY <2>1, <2>2 DEF TypeOK
  <2>4. QED
    BY <1>1, <2>3 DEF Edit, TypeOK, settingVars, requestVars, promptVars
<1>2. CASE Save(e)
  <2> DEFINE w == IF "daily" \in edit[e].left THEN "daily" ELSE "monthly"
             value == IF w = "daily" THEN edit[e].daily ELSE edit[e].monthly
  <2>1. w \in Windows /\ value \in Nat
    BY DEF TypeOK, Windows
  <2>2. /\ budget' = [budget EXCEPT ![w] = value]
        /\ peak' = [peak EXCEPT ![w] = MaxOf(@, value)]
        /\ edit' = [edit EXCEPT ![e] =
                      [left |-> @.left \ {w}, daily |-> @.daily, monthly |-> @.monthly]]
        /\ UNCHANGED <<spent, enabled, mapping, requestVars, day, crowd, crashes>>
    BY <1>2 DEF Save, Upsert
  <2> HIDE DEF w, value
  <2>3. budget' \in [Windows -> Nat]
    BY <2>1, <2>2 DEF TypeOK
  <2>4. peak' \in [Windows -> Nat]
    BY <2>1, <2>2, MaxIsNat DEF TypeOK
  <2>5. edit' \in [Editors -> [left : SUBSET Windows, daily : Nat, monthly : Nat]]
    BY <2>2 DEF TypeOK
  <2>6. QED
    BY <2>2, <2>3, <2>4, <2>5 DEF TypeOK, requestVars, promptVars
<1>3. QED
  BY <1>1, <1>2

LEMMA BridgeTypes == ASSUME TypeOK, BridgeStep PROVE TypeOK'
BY DEF BridgeStep, SetEnabled, CreateSession, Cancel, TypeOK, Statuses,
       requestVars, promptVars

LEMMA PromptTypes ==
  ASSUME TypeOK, NEW r \in Runs,
         (\E k \in Keys : BeginPrompt(r, k)) \/ Prompt(r) \/ Touch(r)
  PROVE  TypeOK'
<1>1. CASE \E k \in Keys : BeginPrompt(r, k)
  BY <1>1 DEF BeginPrompt, TypeOK, Phases, settingVars
<1>2. CASE Prompt(r)
  <2>1. CASE mapping[key[r]] = "active"
    <3>1. /\ phase' = [phase EXCEPT ![r] = "asked"]
          /\ prompt' = [prompt EXCEPT ![r] = "executing"]
          /\ loaded' = [loaded EXCEPT ![r] = "active"]
          /\ UNCHANGED <<settingVars, key, limits, edit, day, peak, crowd, crashes>>
      BY <1>2, <2>1 DEF Prompt
    <3>2. QED
      BY <3>1 DEF TypeOK, Phases, Statuses, settingVars
  <2>2. CASE mapping[key[r]] # "active"
    BY <1>2, <2>2 DEF Prompt, TypeOK, Phases, settingVars
  <2>3. QED
    BY <2>1, <2>2
<1>3. CASE Touch(r)
  BY <1>3 DEF Touch, TypeOK, Statuses, settingVars
<1>4. QED
  BY <1>1, <1>2, <1>3

LEMMA DecideTypes ==
  ASSUME TypeOK, NEW r \in Runs, NEW admitted \in BOOLEAN, Decide(r, admitted)
  PROVE  TypeOK'
<1>1. crowd' \in Nat
  BY UnderWayFinitePrime, MaxIsNat DEF Decide, TypeOK
<1>2. /\ phase' \in [Runs -> Phases]
      /\ prompt' \in [Runs -> {"none", "executing", "returning"}]
      /\ limits' \in [Runs -> [Windows -> Nat]]
  BY DEF Decide, TypeOK, Phases, NoLimits
<1>3. QED
  BY <1>1, <1>2 DEF Decide, TypeOK, settingVars

LEMMA CheckDecides ==
  ASSUME NEW r \in Runs, Check(r)
  PROVE  \E projected \in 1 .. MaxCost :
           Decide(r, \A w \in Windows : Within(r, w, projected))
BY DEF Check

LEMMA ExecutionTypes ==
  ASSUME TypeOK, NEW r \in Runs,
         \/ Ask(r) \/ ReadLimits(r) \/ Check(r) \/ Create(r)
         \/ Pause(r) \/ Resume(r) \/ Finish(r) \/ Raise(r)
  PROVE  TypeOK'
<1>1. CASE Ask(r)
  BY <1>1 DEF Ask, TypeOK, Phases, settingVars, promptVars
<1>2. CASE ReadLimits(r)
  BY <1>2 DEF ReadLimits, TypeOK, Phases, settingVars, promptVars
<1>3. CASE Check(r)
  BY <1>3, DecideTypes DEF Check
<1>4. CASE Create(r)
  BY <1>4 DEF Create, TypeOK, Phases, settingVars, promptVars
<1>5. CASE Pause(r)
  BY <1>5 DEF Pause, Return, TypeOK, Phases, settingVars
<1>6. CASE Resume(r)
  BY <1>6 DEF Resume, TypeOK, Phases, settingVars, promptVars
<1>7. CASE Finish(r)
  <2>1. PICK cost \in 1 .. MaxCost : spent' = [w \in Windows |-> spent[w] + cost]
    BY <1>7 DEF Finish, Costs
  <2>2. spent' \in [Windows -> Nat]
    BY <2>1, ConstantsAssumption DEF TypeOK
  <2>3. QED
    BY <1>7, <2>2 DEF Finish, Return, TypeOK, Phases
<1>8. CASE Raise(r)
  BY <1>8 DEF Raise, TypeOK, Phases, NoLimits, settingVars
<1>9. QED
  BY <1>1, <1>2, <1>3, <1>4, <1>5, <1>6, <1>7, <1>8

LEMMA EnvironmentTypes == ASSUME TypeOK, NewDay \/ Crash PROVE TypeOK'
<1>1. CASE NewDay
  <2>1. PICK over \in {{"daily"}, Windows} :
          spent' = [w \in Windows |-> IF w \in over THEN 0 ELSE spent[w]]
    BY <1>1 DEF NewDay
  <2>2. spent' \in [Windows -> Nat]
    BY <2>1 DEF TypeOK
  <2>3. QED
    BY <1>1, <2>2 DEF NewDay, TypeOK, requestVars, promptVars
<1>2. CASE Crash
  <2>1. /\ phase' \in [Runs -> Phases]
        /\ prompt' \in [Runs -> {"none", "executing", "returning"}]
        /\ limits' \in [Runs -> [Windows -> Nat]]
    BY <1>2 DEF Crash, TypeOK, Phases, NoLimits
  <2>2. edit' \in [Editors -> [left : SUBSET Windows, daily : Nat, monthly : Nat]]
    BY <1>2 DEF Crash, TypeOK, NoEdit
  <2>3. crashes' \in Nat
    BY <1>2 DEF Crash, TypeOK
  <2>4. QED
    BY <1>2, <2>1, <2>2, <2>3 DEF Crash, TypeOK, settingVars
<1>3. QED
  BY <1>1, <1>2

LEMMA StepTypes == ASSUME TypeOK, [Next]_vars PROVE TypeOK'
<1>1. CASE Next
  BY <1>1, SettingTypes, BridgeTypes, PromptTypes, ExecutionTypes, EnvironmentTypes
     DEF Next, ExecutionStep
<1>2. CASE UNCHANGED vars
  BY <1>2 DEF vars, settingVars, requestVars, promptVars, TypeOK
<1>3. QED
  BY <1>1, <1>2

-----------------------------------------------------------------------------
(* The exposure. *)

\* What a step that is neither an admission nor an end of a run keeps.
LEMMA NothingSpent ==
  ASSUME Inv, TypeOK', UNCHANGED <<spent, peak, crowd>>, UnderWay' \subseteq UnderWay
  PROVE  Exposed'
BY FewerUnderWay DEF Inv, TypeOK

LEMMA SettingExposed ==
  ASSUME Inv, TypeOK', NEW e \in Editors, Edit(e) \/ Save(e)
  PROVE  LimitsKnown' /\ Exposed'
<1>1. CASE Edit(e)
  <2>1. UnderWay' = UnderWay
    BY <1>1 DEF Edit, UnderWay, requestVars
  <2>2. LimitsKnown'
    BY <1>1 DEF Edit, Inv, LimitsKnown, settingVars, requestVars
  <2>3. QED
    BY <1>1, <2>1, <2>2, NothingSpent DEF Edit, settingVars
<1>2. CASE Save(e)
  <2> DEFINE w == IF "daily" \in edit[e].left THEN "daily" ELSE "monthly"
             value == IF w = "daily" THEN edit[e].daily ELSE edit[e].monthly
  <2>1. w \in Windows /\ value \in Nat
    BY DEF Inv, TypeOK, Windows
  <2>2. /\ budget' = [budget EXCEPT ![w] = value]
        /\ peak' = [peak EXCEPT ![w] = MaxOf(@, value)]
        /\ UNCHANGED <<spent, phase, limits, crowd>>
    BY <1>2 DEF Save, Upsert, requestVars
  <2> HIDE DEF w, value
  <2>3. peak[w] \in Nat
    BY <2>1 DEF Inv, TypeOK
  <2>4. peak'[w] = MaxOf(peak[w], value) /\ budget'[w] = value
    BY <2>1, <2>2 DEF Inv, TypeOK
  <2>5. peak[w] <= peak'[w] /\ budget'[w] <= peak'[w]
    BY <2>1, <2>3, <2>4, MaxIsNat
  <2>6. \A v \in Windows : /\ peak[v] \in Nat /\ peak'[v] \in Nat
                           /\ peak[v] <= peak'[v] /\ budget'[v] <= peak'[v]
    BY <2>1, <2>2, <2>5 DEF Inv, TypeOK, LimitsKnown
  <2>7. LimitsKnown'
    BY <2>2, <2>6 DEF Inv, TypeOK, LimitsKnown
  <2>8. UnderWay' = UnderWay
    BY <2>2 DEF UnderWay
  <2>9. Exposed'
    BY <2>2, <2>6, <2>8, FewerUnderWay DEF Inv, TypeOK
  <2>10. QED
    BY <2>7, <2>9
<1>3. QED
  BY <1>1, <1>2

LEMMA BridgeExposed ==
  ASSUME Inv, TypeOK', BridgeStep
  PROVE  LimitsKnown' /\ Exposed'
<1>1. UNCHANGED <<budget, spent, requestVars, peak, crowd>>
  BY DEF BridgeStep, SetEnabled, CreateSession, Cancel
<1>2. UnderWay' = UnderWay
  BY <1>1 DEF UnderWay, requestVars
<1>3. QED
  BY <1>1, <1>2, NothingSpent DEF Inv, LimitsKnown, requestVars

\* The steps of a request before the check and after it, which spend nothing.
LEMMA RequestExposed ==
  ASSUME Inv, TypeOK', NEW r \in Runs,
         \/ \E k \in Keys : BeginPrompt(r, k)
         \/ Prompt(r) \/ Touch(r) \/ Ask(r) \/ ReadLimits(r)
         \/ Create(r) \/ Pause(r) \/ Resume(r) \/ Raise(r)
  PROVE  LimitsKnown' /\ Exposed'
<1>1. UNCHANGED <<budget, spent, peak, crowd>>
  BY DEF BeginPrompt, Prompt, Touch, Ask, ReadLimits, Create, Pause, Resume, Raise, settingVars
<1>2. UnderWay' \subseteq UnderWay
  BY DEF Inv, TypeOK, UnderWay, BeginPrompt, Prompt, Touch, Ask, ReadLimits, Create, Pause,
         Resume, Raise
<1>3. \A q \in Runs : limits'[q] \in {limits[q], budget, NoLimits}
  <2>1. \/ limits' = limits
        \/ limits' = [limits EXCEPT ![r] = budget]
        \/ limits' = [limits EXCEPT ![r] = NoLimits]
    BY DEF BeginPrompt, Prompt, Touch, Ask, ReadLimits, Create, Pause, Resume, Raise
  <2> HIDE DEF NoLimits
  <2>2. QED
    BY <2>1 DEF Inv, TypeOK
<1>4. \A q \in Runs, w \in Windows : limits'[q][w] <= peak'[w]
  <2> SUFFICES ASSUME NEW q \in Runs, NEW w \in Windows PROVE limits'[q][w] <= peak[w]
    BY <1>1
  <2>1. /\ limits[q][w] <= peak[w] /\ budget[w] <= peak[w]
        /\ peak[w] \in Nat /\ NoLimits[w] = 0
    BY DEF Inv, TypeOK, LimitsKnown, NoLimits
  <2>2. limits'[q] = limits[q] \/ limits'[q] = budget \/ limits'[q] = NoLimits
    BY <1>3
  <2> HIDE DEF NoLimits
  <2>3. QED
    BY <2>1, <2>2
<1>5. LimitsKnown'
  BY <1>1, <1>4 DEF Inv, LimitsKnown
<1>6. QED
  BY <1>1, <1>2, <1>5, NothingSpent

\* An admitted run was within the budgets: all that it and those under way can still
\* cost is in crowd * MaxCost.
LEMMA CheckExposed ==
  ASSUME Inv, TypeOK', NEW r \in Runs, Check(r)
  PROVE  LimitsKnown' /\ Exposed'
<1>1. PICK projected \in 1 .. MaxCost : Decide(r, \A w \in Windows : Within(r, w, projected))
  BY CheckDecides
<1> DEFINE admitted == \A w \in Windows : Within(r, w, projected)
<1>2. /\ phase[r] = "read"
      /\ phase' = [phase EXCEPT ![r] = IF admitted THEN "admitted" ELSE "over"]
      /\ limits' = [limits EXCEPT ![r] = NoLimits]
      /\ crowd' = MaxOf(crowd, Cardinality(UnderWay'))
      /\ UNCHANGED <<budget, spent, peak>>
  BY <1>1 DEF Decide, settingVars
<1> DEFINE m == Cardinality(UnderWay')
<1>3. /\ crowd \in Nat /\ crowd' \in Nat /\ m \in Nat
      /\ crowd <= crowd' /\ m <= crowd'
  BY <1>2, UnderWayFinitePrime, MaxIsNat DEF Inv, TypeOK
<1>4. /\ m * MaxCost \in Nat /\ crowd * MaxCost \in Nat /\ crowd' * MaxCost \in Nat
      /\ m * MaxCost <= crowd' * MaxCost /\ crowd * MaxCost <= crowd' * MaxCost
  BY <1>3, Times
<1>5. LimitsKnown'
  BY <1>2 DEF Inv, TypeOK, LimitsKnown, NoLimits
<1>6. \A w \in Windows : spent[w] \in Nat /\ peak[w] \in Nat /\ limits[r][w] \in Nat
  BY DEF Inv, TypeOK
<1>7. ASSUME NEW w \in Windows
      PROVE  spent'[w] + m * MaxCost <= peak'[w] + crowd' * MaxCost
  <2>1. CASE admitted
    <3>1. spent[w] + projected <= limits[r][w]
      BY <2>1 DEF Within
    <3>2. limits[r][w] <= peak[w]
      BY DEF Inv, LimitsKnown
    <3>3. spent[w] <= peak[w]
      BY <1>6, <3>1, <3>2, ConstantsAssumption
    <3>4. QED
      BY <1>2, <1>4, <1>6, <3>3
  <2>2. CASE ~admitted
    <3>1. UnderWay' \subseteq UnderWay
      BY <1>2, <2>2 DEF UnderWay, Inv, TypeOK
    <3> DEFINE n == Cardinality(UnderWay)
    <3>2. n \in Nat /\ m <= n
      BY <3>1, UnderWayFinite, UnderWayFinitePrime, FS_Subset
    <3>3. n * MaxCost \in Nat /\ m * MaxCost <= n * MaxCost
      BY <1>3, <3>2, Times
    <3>4. spent[w] + n * MaxCost <= peak[w] + crowd * MaxCost
      BY DEF Inv, Exposed
    <3> HIDE DEF n, m, admitted
    <3>5. QED
      BY <1>2, <1>4, <1>6, <3>3, <3>4
  <2>3. QED
    BY <2>1, <2>2
<1>8. QED
  BY <1>3, <1>5, <1>7 DEF Exposed

\* A run that finishes is no longer under way and costs at most MaxCost.
LEMMA FinishExposed ==
  ASSUME Inv, TypeOK', NEW r \in Runs, Finish(r)
  PROVE  LimitsKnown' /\ Exposed'
<1>1. PICK cost \in 1 .. MaxCost : spent' = [w \in Windows |-> spent[w] + cost]
  BY DEF Finish, Costs
<1>2. cost \in Nat /\ MaxCost \in Nat /\ cost <= MaxCost
  BY ConstantsAssumption
<1>3. UNCHANGED <<budget, limits, peak, crowd>>
  BY DEF Finish
<1>4. UnderWay' = UnderWay \ {r} /\ r \in UnderWay
  BY DEF Finish, UnderWay, Inv, TypeOK
<1> DEFINE n == Cardinality(UnderWay)
           m == Cardinality(UnderWay')
<1>5. n \in Nat /\ m \in Nat /\ n = m + 1
  BY <1>4, UnderWayFinite, FS_RemoveElement, UnderWayFinitePrime
<1>6. n * MaxCost = m * MaxCost + MaxCost /\ m * MaxCost \in Nat
  BY <1>5, Times
<1>7. /\ crowd \in Nat /\ crowd * MaxCost \in Nat /\ n <= crowd
  BY Times DEF Inv, TypeOK, Exposed
<1>8. ASSUME NEW w \in Windows
      PROVE  spent'[w] + m * MaxCost <= peak'[w] + crowd' * MaxCost
  <2>1. spent[w] \in Nat /\ peak[w] \in Nat /\ spent'[w] = spent[w] + cost
    BY <1>1 DEF Inv, TypeOK
  <2>2. spent[w] + n * MaxCost <= peak[w] + crowd * MaxCost
    BY DEF Inv, Exposed
  <2> HIDE DEF n, m
  <2>3. QED
    BY <1>2, <1>3, <1>6, <1>7, <2>1, <2>2
<1>9. Exposed'
  <2>1. m <= crowd'
    <3> HIDE DEF n, m
    <3>1. QED
      BY <1>3, <1>5, <1>7
  <2>2. QED
    BY <1>8, <2>1 DEF Exposed
<1>10. QED
  BY <1>3, <1>9 DEF Inv, LimitsKnown

LEMMA EnvironmentExposed ==
  ASSUME Inv, TypeOK', NewDay \/ Crash
  PROVE  LimitsKnown' /\ Exposed'
<1>1. CASE NewDay
  <2>1. UNCHANGED <<budget, phase, limits, peak, crowd>>
    BY <1>1 DEF NewDay, requestVars
  <2>2. \A w \in Windows : /\ spent[w] \in Nat /\ spent'[w] \in Nat /\ spent'[w] <= spent[w]
    <3>1. PICK over \in {{"daily"}, Windows} :
            spent' = [w \in Windows |-> IF w \in over THEN 0 ELSE spent[w]]
      BY <1>1 DEF NewDay
    <3>2. QED
      BY <3>1 DEF Inv, TypeOK
  <2>3. UnderWay' = UnderWay
    BY <2>1 DEF UnderWay
  <2>4. LimitsKnown'
    BY <2>1 DEF Inv, LimitsKnown
  <2>5. QED
    BY <2>1, <2>2, <2>3, <2>4, FewerUnderWay DEF Inv, TypeOK
<1>2. CASE Crash
  <2>1. UNCHANGED <<budget, spent, peak, crowd>>
    BY <1>2 DEF Crash, settingVars
  <2>2. UnderWay' \subseteq UnderWay
    BY <1>2 DEF Crash, UnderWay, Inv, TypeOK
  <2>3. limits' = [r \in Runs |-> NoLimits]
    BY <1>2 DEF Crash
  <2>4. LimitsKnown'
    BY <2>1, <2>3 DEF Inv, TypeOK, LimitsKnown, NoLimits
  <2>5. QED
    BY <2>1, <2>2, <2>4, NothingSpent
<1>3. QED
  BY <1>1, <1>2

LEMMA StepExposed ==
  ASSUME Inv, TypeOK', [Next]_vars
  PROVE  LimitsKnown' /\ Exposed'
<1>1. CASE Next
  BY <1>1, SettingExposed, BridgeExposed, RequestExposed, CheckExposed, FinishExposed,
     EnvironmentExposed DEF Next, ExecutionStep
<1>2. CASE UNCHANGED vars
  BY <1>2 DEF vars, settingVars, requestVars, Inv, LimitsKnown, Exposed, UnderWay
<1>3. QED
  BY <1>1, <1>2

LEMMA InitExposed == Init => LimitsKnown /\ Exposed
<1> SUFFICES ASSUME Init PROVE LimitsKnown /\ Exposed
  OBVIOUS
<1>1. TypeOK
  BY InitTypes
<1>2. LimitsKnown
  BY <1>1 DEF Init, TypeOK, LimitsKnown, NoLimits
<1>3. UnderWay = {} /\ crowd = 0
  BY DEF Init, UnderWay
<1>4. Cardinality(UnderWay) = 0
  BY <1>3, FS_EmptySet
<1>5. \A w \in Windows : spent[w] = 0 /\ peak[w] \in Nat
  BY <1>1 DEF Init, TypeOK
<1>6. QED
  BY <1>2, <1>3, <1>4, <1>5, ConstantsAssumption DEF Exposed

-----------------------------------------------------------------------------
(* Theorems. *)

LEMMA Invariance == Spec => []Inv
<1>1. Init => Inv
  BY InitTypes, InitExposed DEF Inv
<1>2. Inv /\ [Next]_vars => Inv'
  BY StepTypes, StepExposed DEF Inv
<1>3. QED
  BY <1>1, <1>2, PTL DEF Spec

(* Every reachable state of settings, mappings and requests is well typed. *)
THEOREM AdmissionTypes == Spec => []TypeOK
<1>1. Inv => TypeOK
  BY DEF Inv
<1>2. QED
  BY <1>1, Invariance, PTL

(* However many executions, editors and prompts there are, neither budget is       *)
(* exceeded by more than the executions under way together can cost                 *)
(* (enforce_budget_limits).                                                          *)
THEOREM OverspendBounded == Spec => []OverspendIsBounded
<1>1. Inv => OverspendIsBounded
  <2> SUFFICES ASSUME Inv, NEW w \in Windows
               PROVE  spent[w] <= peak[w] + crowd * MaxCost
    BY DEF OverspendIsBounded
  <2> DEFINE n == Cardinality(UnderWay)
  <2>1. n \in Nat /\ n * MaxCost \in Nat /\ crowd * MaxCost \in Nat
    BY UnderWayFinite, Times DEF Inv, TypeOK
  <2>2. spent[w] \in Nat /\ peak[w] \in Nat
    BY DEF Inv, TypeOK
  <2>3. spent[w] + n * MaxCost <= peak[w] + crowd * MaxCost
    BY DEF Inv, Exposed
  <2> HIDE DEF n
  <2>4. QED
    BY <2>1, <2>2, <2>3
<1>2. QED
  BY <1>1, Invariance, PTL

(* No prompt that returns late, no crash and no other request makes a cancelled     *)
(* mapping of the ACP bridge active again (AcpService.prompt, AcpService.cancel).     *)
THEOREM CancelledMappingStays == Spec => CancelledStays
<1>1. TypeOK /\ [Next]_vars =>
        [\A k \in Keys : mapping[k] = "cancelled" => mapping'[k] = "cancelled"]_vars
  <2> SUFFICES ASSUME TypeOK, [Next]_vars, NEW k \in Keys, mapping[k] = "cancelled"
               PROVE  mapping'[k] = "cancelled"
    OBVIOUS
  <2>1. CASE mapping' = mapping
    BY <2>1
  <2>2. CASE BridgeStep
    BY <2>2 DEF BridgeStep, SetEnabled, CreateSession, Cancel, TypeOK
  <2>3. CASE \E e \in Editors : Edit(e) \/ Save(e)
    BY <2>3, <2>1 DEF Edit, Save, settingVars
  <2>4. CASE \E r \in Runs : ExecutionStep(r)
    BY <2>4, <2>1 DEF ExecutionStep, BeginPrompt, Prompt, Touch, Ask, ReadLimits, Check,
       Decide, Create, Pause, Resume, Finish, Raise, settingVars
  <2>5. CASE NewDay \/ Crash
    BY <2>5, <2>1 DEF NewDay, Crash, settingVars
  <2>6. CASE UNCHANGED vars
    BY <2>6, <2>1 DEF vars, settingVars
  <2>7. QED
    BY <2>2, <2>3, <2>4, <2>5, <2>6 DEF Next
<1>2. QED
  BY <1>1, AdmissionTypes, PTL DEF Spec, CancelledStays

=============================================================================
