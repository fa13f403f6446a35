------------------------- MODULE PromptContextProofs -------------------------
(***************************************************************************)
(* Theorems about PromptContext, for any rows, sessions and budgets.         *)
(***************************************************************************)
EXTENDS PromptContext, TLAPS

-----------------------------------------------------------------------------
(* The inductive invariant. *)

\* The candidates: the best of each key that a layer of the session takes.
Candidates(l) == {e \in Winners : LayerOf(e) = l}

\* What is put into a layer was a candidate of it, and what is left out for being
\* overridden was rejected by the resolution.
Resolved ==
  /\ \A l \in Layers : by_layer[l] \subseteq Candidates(l)
  /\ \A e \in included : \E l \in Layers : e \in Candidates(l)
  /\ \A e : <<e, "overridden">> \in excluded =>
       \/ e \in Loaded /\ Standing(e) = "overridden"
       \/ \E f \in Winners : e \in Rivals(f) \ {f}

ContextInv ==
  /\ rows \in Inputs /\ session \in Sessions
  /\ pending \in Seq(Layers)
  /\ DOMAIN by_layer = Layers
  /\ used \in [Layers -> Nat]
  /\ Resolved
  /\ WithinBudget

-----------------------------------------------------------------------------
(* The resolution. *)

LEMMA WinnersAreLoaded == Winners \subseteq Loaded /\ Loaded \subseteq rows
BY DEF Winners, Loaded

LEMMA StandingOf ==
  ASSUME NEW e
  PROVE  /\ Standing(e) = "visible" <=> ~e.hidden /\ ~e.deleted /\ e.id \notin Targets(e.kind)
         /\ Standing(e) = "overridden" => e.id \in Targets(e.kind)
BY DEF Standing

LEMMA TargetsReplace ==
  ASSUME NEW e
  PROVE  e.id \in Targets(e.kind) <=> Replaced(e)
BY DEF Targets, Replaced, Shown

\* Of two rows of one key, one comes first.
LEMMA BeforeIsStrict ==
  ASSUME rows \in Inputs, NEW e \in rows, NEW f \in rows, Before(e, f)
  PROVE  ~Before(f, e) /\ Precedence(e.source) <= Precedence(f.source)
<1>1. e.source \in Sources /\ f.source \in Sources /\ e.updated \in Nat /\ f.updated \in Nat
      /\ e.id \in Nat /\ f.id \in Nat
  BY InputsAssumption
<1>2. Precedence(e.source) \in Nat /\ Precedence(f.source) \in Nat
  BY <1>1 DEF Precedence, Sources
<1> HIDE DEF Precedence
<1> QED
  BY <1>1, <1>2 DEF Before

\* The keys of the code tell what is about the same.
LEMMA KeysTell ==
  ASSUME NEW e, NEW f, e.kind \in {"entry", "summary"}, f.kind \in {"entry", "summary"}
  PROVE  NaturalKey(e) = NaturalKey(f) <=> AboutTheSame(e, f)
<1>1. CASE e.target # NoRow
  BY <1>1 DEF NaturalKey, AboutTheSame
<1>2. CASE e.target = NoRow /\ f.target # NoRow
  BY <1>2 DEF NaturalKey, AboutTheSame
<1>3. CASE e.target = NoRow /\ f.target = NoRow
  BY <1>3 DEF NaturalKey, AboutTheSame
<1> QED
  BY <1>1, <1>2, <1>3

LEMMA KindsOfRows ==
  ASSUME rows \in Inputs, NEW e \in rows
  PROVE  e.kind \in {"entry", "summary"}
BY InputsAssumption

LEMMA ResolvedDecides ==
  ASSUME ContextInv
  PROVE  HumansDecide
<1>1. \A e \in included : e \in Winners
  BY DEF ContextInv, Resolved, Candidates
<1>2. ASSUME NEW e \in included
      PROVE  /\ Shown(e) /\ ~Replaced(e)
             /\ \A f \in Loaded \ {e} : Shown(f) /\ ~Replaced(f) /\ AboutTheSame(e, f) =>
                  f \notin included /\ Precedence(e.source) <= Precedence(f.source)
  <2>1. e \in Loaded /\ Standing(e) = "visible" /\ \A f \in Rivals(e) \ {e} : Before(e, f)
    BY <1>1 DEF Winners
  <2>2. Shown(e) /\ ~Replaced(e)
    BY <2>1, StandingOf, TargetsReplace DEF Shown
  <2>3. ASSUME NEW f \in Loaded \ {e}, Shown(f), ~Replaced(f), AboutTheSame(e, f)
        PROVE  f \notin included /\ Precedence(e.source) <= Precedence(f.source)
    <3>1. Standing(f) = "visible"
      BY <2>3, StandingOf, TargetsReplace DEF Shown
    <3>0. NaturalKey(f) = NaturalKey(e)
      BY <2>1, <2>3, KeysTell, KindsOfRows, WinnersAreLoaded DEF ContextInv
    <3>2. Before(e, f)
      BY <2>1, <2>3, <3>0, <3>1 DEF Rivals
    <3>3. ~Before(f, e) /\ Precedence(e.source) <= Precedence(f.source)
      BY <2>1, <2>3, <3>2, BeforeIsStrict, WinnersAreLoaded DEF ContextInv
    <3>4. f \notin Winners
      BY <2>1, <2>3, <3>0, <3>3 DEF Winners, Rivals
    <3> QED
      BY <1>1, <3>3, <3>4
  <2> QED
    BY <2>2, <2>3
<1>3. ASSUME NEW e \in rows, <<e, "overridden">> \in excluded
      PROVE  Replaced(e) \/ \E f \in Loaded \ {e} : Shown(f) /\ AboutTheSame(e, f)
  <2>1. CASE e \in Loaded /\ Standing(e) = "overridden"
    BY <2>1, StandingOf, TargetsReplace
  <2>2. CASE \E f \in Winners : e \in Rivals(f) \ {f}
    <3>1. PICK f \in Winners : e \in Rivals(f) \ {f}
      BY <2>2
    <3>2. f \in Loaded \ {e} /\ Shown(f) /\ NaturalKey(e) = NaturalKey(f) /\ e \in Loaded
      BY <3>1, StandingOf DEF Winners, Rivals, Shown
    <3>3. AboutTheSame(e, f)
      BY <3>2, KeysTell, KindsOfRows, WinnersAreLoaded DEF ContextInv
    <3> QED
      BY <3>2, <3>3
  <2> QED
    BY <1>3, <2>1, <2>2 DEF ContextInv, Resolved
<1> QED
  BY <1>2, <1>3 DEF HumansDecide, RejectedIsLeftOut, OverriddenIsReplaced

LEMMA ResolvedIsPrivate ==
  ASSUME ContextInv
  PROVE  SubagentIsPrivate
<1> SUFFICES ASSUME NEW e \in included, session.subagent, e.kind = "summary" \/ e.scope = "episodic"
             PROVE  e.session = session.id
  BY DEF SubagentIsPrivate
<1>1. e \in rows /\ LayerOf(e) \in Layers
  BY WinnersAreLoaded DEF ContextInv, Resolved, Candidates
<1>2. LayerOf(e) # "none" /\ e \in Rows
  BY <1>1, InputsAssumption DEF ContextInv, Layers
<1>3. CASE e.kind = "summary"
  BY <1>2, <1>3, InputsAssumption DEF LayerOf, ContextInv
<1>4. CASE e.kind # "summary"
  BY <1>2, <1>4, InputsAssumption DEF LayerOf
<1> QED
  BY <1>3, <1>4

-----------------------------------------------------------------------------
(* Each action keeps the invariant. *)

\* The rows of a builder are those it read.
LEMMA SameResolution ==
  ASSUME UNCHANGED <<rows, session>>
  PROVE  /\ Loaded' = Loaded /\ Winners' = Winners
         /\ \A l : Candidates(l)' = Candidates(l)
         /\ \A e : Rivals(e)' = Rivals(e)
         /\ \A e : Standing(e)' = Standing(e)
<1>1. Loaded' = Loaded
  BY DEF Loaded
<1>2. \A kind : Targets(kind)' = Targets(kind)
  BY <1>1 DEF Targets
<1>3. \A e : Standing(e)' = Standing(e)
  BY <1>2 DEF Standing
<1>4. \A e : Rivals(e)' = Rivals(e)
  BY <1>1, <1>3 DEF Rivals
<1>5. Winners' = Winners
  BY <1>1, <1>3, <1>4 DEF Winners
<1>6. \A e : LayerOf(e)' = LayerOf(e)
  BY DEF LayerOf
<1> QED
  BY <1>1, <1>3, <1>4, <1>5, <1>6 DEF Candidates

LEMMA ResolveKeeps ==
  ASSUME ContextInv, Resolve
  PROVE  ContextInv'
<1> DEFINE found == [l \in Layers |-> {e \in Winners : LayerOf(e) = l}]
           kept == {e \in Winners : LayerOf(e) # "none"}
<1>1. /\ UNCHANGED <<rows, session, included, used>> /\ included = {}
      /\ by_layer' = [found EXCEPT !["episodic"] = Best(@)]
      /\ excluded' = {<<e, Standing(e)>> : e \in {f \in Loaded : Standing(f) # "visible"}}
             \cup {<<f, "overridden">> : f \in UNION {Rivals(e) \ {e} : e \in kept}}
      /\ pending' = LayerOrder
  BY DEF Resolve
<1>2. DOMAIN by_layer' = Layers /\ \A l \in Layers : by_layer'[l] \subseteq Candidates(l)
  BY <1>1 DEF Best, Candidates
<1>3. ASSUME NEW e, <<e, "overridden">> \in excluded'
      PROVE  \/ e \in Loaded /\ Standing(e) = "overridden"
             \/ \E f \in Winners : e \in Rivals(f) \ {f}
  BY <1>1, <1>3
<1> HIDE DEF found, kept
<1>4. Resolved'
  <2>1. /\ Loaded' = Loaded /\ Winners' = Winners
        /\ \A l : Candidates(l)' = Candidates(l)
        /\ \A e : Rivals(e)' = Rivals(e) /\ Standing(e)' = Standing(e)
    BY <1>1, SameResolution
  <2>2. \A l \in Layers : by_layer'[l] \subseteq Candidates(l)'
    BY <1>2, <2>1
  <2>3. included' = {}
    BY <1>1
  <2>4. \A e : <<e, "overridden">> \in excluded' =>
          \/ e \in Loaded' /\ Standing(e)' = "overridden"
          \/ \E f \in Winners' : e \in Rivals(f)' \ {f}
    BY <1>3, <2>1
  <2> QED
    BY <2>2, <2>3, <2>4 DEF Resolved
<1>5. pending' \in Seq(Layers)
  BY <1>1 DEF LayerOrder, Layers
<1> QED
  BY <1>1, <1>2, <1>4, <1>5 DEF ContextInv, WithinBudget

LEMMA BuildLayerKeeps ==
  ASSUME ContextInv, BuildLayer
  PROVE  ContextInv'
<1> DEFINE l == Head(pending)
<1>1. PICK e \in by_layer[l] : PutWhole(l, e) \/ PutCut(l, e)
  BY DEF BuildLayer
<1>2. UNCHANGED <<rows, session, pending>> /\ l \in Layers
  BY DEF BuildLayer, ContextInv
<1> HIDE DEF l
<1>3. /\ used \in [Layers -> Nat] /\ Budget[l] \in Nat /\ used[l] \in Nat /\ used[l] <= Budget[l]
      /\ LineBreak(l) \in {0, 1} /\ Room(l) = Budget[l] - used[l] - LineBreak(l)
      /\ DOMAIN by_layer = Layers
  BY <1>2, InputsAssumption DEF ContextInv, WithinBudget, LineBreak, Room
<1>4. e \in Candidates(l) /\ e.length \in Nat
  BY <1>1, <1>2, WinnersAreLoaded, InputsAssumption DEF ContextInv, Resolved, Candidates
<1>5. /\ DOMAIN by_layer' = Layers /\ \A k \in Layers : by_layer'[k] \subseteq by_layer[k]
      /\ included' \subseteq included \cup {e}
      /\ \A f : <<f, "overridden">> \in excluded' => <<f, "overridden">> \in excluded
  BY <1>1, <1>3 DEF PutWhole, PutCut
<1>6. Resolved'
  BY <1>2, <1>4, <1>5, SameResolution DEF ContextInv, Resolved
<1>7. \E n \in Nat : n <= Budget[l] /\ used' = [used EXCEPT ![l] = n]
  <2>1. CASE PutWhole(l, e)
    <3>1. used' = [used EXCEPT ![l] = used[l] + LineBreak(l) + e.length] /\ e.length <= Room(l)
      BY <1>3, <2>1 DEF PutWhole
    <3>2. used[l] + LineBreak(l) + e.length \in Nat /\ used[l] + LineBreak(l) + e.length <= Budget[l]
      BY <1>3, <1>4, <3>1
    <3> QED
      BY <3>1, <3>2
  <2>2. CASE PutCut(l, e) /\ Room(l) > 3
    <3>1. PICK chars \in 3 .. Room(l) : used' = [used EXCEPT ![l] = used[l] + LineBreak(l) + chars]
      BY <1>3, <2>2 DEF PutCut
    <3>2. used[l] + LineBreak(l) + chars \in Nat /\ used[l] + LineBreak(l) + chars <= Budget[l]
      BY <1>3, <3>1
    <3> QED
      BY <3>1, <3>2
  <2>3. CASE PutCut(l, e) /\ ~(Room(l) > 3)
    <3>1. used' = used
      BY <2>3 DEF PutCut
    <3> QED
      BY <1>3, <3>1
  <2> QED
    BY <1>1, <2>1, <2>2, <2>3
<1>8. used' \in [Layers -> Nat] /\ WithinBudget'
  BY <1>3, <1>7 DEF ContextInv, WithinBudget
<1> QED
  BY <1>2, <1>5, <1>6, <1>8 DEF ContextInv

LEMMA NextLayerKeeps ==
  ASSUME ContextInv, NextLayer
  PROVE  ContextInv'
<1>1. UNCHANGED <<rows, session, by_layer, included, excluded, used>> /\ pending # <<>>
      /\ pending' = Tail(pending)
  BY DEF NextLayer
<1>2. pending' \in Seq(Layers)
  BY <1>1 DEF ContextInv
<1> QED
  BY <1>1, <1>2, SameResolution DEF ContextInv, Resolved, WithinBudget

-----------------------------------------------------------------------------
(* The theorems. *)

LEMMA InitContextInv == Init => ContextInv
BY InputsAssumption DEF Init, ContextInv, Resolved, WithinBudget

LEMMA ContextInvariant == Spec => []ContextInv
<1>1. ContextInv /\ [Next]_vars => ContextInv'
  <2> SUFFICES ASSUME ContextInv, [Next]_vars PROVE ContextInv'
    OBVIOUS
  <2>1. CASE UNCHANGED vars
    <3>1. UNCHANGED <<rows, session, pending, by_layer, included, excluded, used>>
      BY <2>1 DEF vars
    <3> QED
      BY <3>1, SameResolution DEF ContextInv, Resolved, WithinBudget
  <2> QED
    BY <2>1, ResolveKeeps, BuildLayerKeeps, NextLayerKeeps DEF Next
<1> QED
  BY <1>1, InitContextInv, PTL DEF Spec

\* What a human hid, deleted or replaced stays out of the prompt, and a row is left out for
\* being overridden only if a visible row replaces it or is about the same as it, for any
\* rows (_resolve_entry_candidates, _resolve_summary_candidates).
THEOREM HumansHaveTheLastWord == Spec => []HumansDecide
BY ContextInvariant, ResolvedDecides, PTL

\* A subagent is shown nothing private of another session (_resolve_entry_layer).
THEOREM SubagentsSeeTheirOwn == Spec => []SubagentIsPrivate
BY ContextInvariant, ResolvedIsPrivate, PTL

\* Every layer fits its budget, for any budgets and lengths (_build_layer).
THEOREM LayersFit == Spec => []WithinBudget
<1>1. ContextInv => WithinBudget
  BY DEF ContextInv
<1> QED
  BY <1>1, ContextInvariant, PTL
=============================================================================
