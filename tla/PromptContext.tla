---------------------------- MODULE PromptContext ----------------------------
(***************************************************************************)
(* The layers of memory put before the input of an execution.  The rows and  *)
(* the summary of the conversation are read in the transaction that          *)
(* refreshes the summary, so the builder works on one state of the database: *)
(* it resolves what is visible under one natural key, keeps the best         *)
(* episodes and fills the layers within their budgets, row by row.            *)
(* Text is abstracted to its length, relevance to a score.                   *)
(***************************************************************************)
EXTENDS Integers, Sequences, FiniteSets

CONSTANTS
  Rows,        \* memory_entries and session_summaries the database may hold
  Inputs,      \* the sets of rows tried
  Sessions,    \* the sessions an execution may belong to
  Budget,      \* LAYER_BUDGETS
  TopEpisodes, \* episodes kept
  NoRow

VARIABLES
  rows,      \* what the queries of the builder return
  session,   \* the session of the execution
  pending,   \* the layers still to be built
  by_layer,  \* the candidates of each layer that are still to be put
  included,  \* the rows put into a layer
  excluded,  \* the rows left out, with the reason recorded: <<row, reason>>
  used       \* used_chars of the layers

vars == <<rows, session, pending, by_layer, included, excluded, used>>

LayerOrder == <<"stable_manual", "stable_autosaved", "workspace_project",
                "conversation_summary", "episodic">>
Layers == {"stable_manual", "stable_autosaved", "workspace_project",
           "conversation_summary", "episodic"}
Sources == {"manual", "user_override", "promoted_from_session", "promoted_from_subagent",
            "autosaved", "summary"}

\* SOURCE_PRIORITY.
Precedence(source) ==
  CASE source = "manual" -> 0
    [] source = "user_override" -> 1
    [] source \in {"promoted_from_session", "promoted_from_subagent"} -> 2
    [] source = "autosaved" -> 3
    [] source = "summary" -> 4

\* A row has its id in its table, and the id of a conversation is given to one session.
ASSUME InputsAssumption ==
  /\ Inputs \subseteq SUBSET Rows
  /\ \A e \in Rows : /\ e.kind \in {"entry", "summary"} /\ e.source \in Sources 
                     /\ e.updated \in Nat /\ e.id \in Nat /\ e.length \in Nat \ {0}
  /\ \A input \in Inputs : \A e, f \in input : e.id = f.id => e = f
  /\ \A e \in Rows, s \in Sessions :
       e.kind = "summary" /\ e.conversation = s.conversation => e.session = s.id
  /\ Budget \in [Layers -> Nat] /\ TopEpisodes \in Nat

Init ==
  /\ rows \in Inputs
  /\ session \in Sessions
  /\ pending = <<>>
  /\ by_layer = [l \in Layers |-> {}]
  /\ included = {}
  /\ excluded = {}
  /\ used = [l \in Layers |-> 0]

-----------------------------------------------------------------------------
(* Which rows are candidates. *)

\* _load_entries and _load_summaries: the summaries of task runs are not read.
Loaded == {e \in rows : e.kind = "entry" \/ ~e.of_run}

\* overridden_targets: what a visible override replaces.
Targets(kind) ==
  {e.target : e \in {f \in Loaded : f.kind = kind /\ ~f.hidden /\ ~f.deleted}}

\* Why a row is not even a candidate, or "visible".
Standing(e) ==
  CASE e.hidden -> "hidden"
    [] ~e.hidden /\ e.deleted -> "deleted"
    [] ~e.hidden /\ ~e.deleted /\ e.id \in Targets(e.kind) -> "overridden"
    [] OTHER -> "visible"

\* _natural_entry_key and _natural_summary_key.
NaturalKey(e) ==
  CASE e.target # NoRow -> <<"override", e.kind, e.target>>
    [] e.target = NoRow /\ e.kind = "entry" -> <<"entry", e.scope, e.scope_key, e.title>>
    [] OTHER -> <<"summary", e.scope_key, e.session, e.conversation>>

\* Faulty Before: the newest row wins, whatever wrote it.
NewestBefore(e, f) == e.updated > f.updated \/ (e.updated = f.updated /\ e.id < f.id)

\* The order of the rows of one key: source, then recency, then id.
Before(e, f) ==
  LET p == Precedence(e.source)  q == Precedence(f.source) IN
  \/ p < q
  \/ p = q /\ (e.updated > f.updated \/ (e.updated = f.updated /\ e.id < f.id))

Rivals(e) == {f \in Loaded : Standing(f) = "visible" /\ NaturalKey(f) = NaturalKey(e)}

Winners == {e \in Loaded : Standing(e) = "visible" /\ \A f \in Rivals(e) \ {e} : Before(e, f)}

\* Faulty LayerOf: an episode of any session is recalled.
LayerOfAny(e) ==
  CASE e.kind = "summary" ->
         IF e.conversation = session.conversation THEN "conversation_summary" ELSE "none"
    [] e.kind = "entry" /\ e.scope = "episodic" -> "episodic"
    [] OTHER -> IF e.workspace THEN "workspace_project"
                ELSE IF e.source = "autosaved" THEN "stable_autosaved" ELSE "stable_manual"

\* _resolve_entry_layer and _resolve_summary_layer: "none" drops the whole key.
LayerOf(e) ==
  CASE e.kind = "summary" ->
         IF e.conversation = session.conversation THEN "conversation_summary" ELSE "none"
    [] e.kind = "entry" /\ e.scope = "episodic" ->
         IF session.subagent /\ e.session # session.id THEN "none" ELSE "episodic"
    [] OTHER -> IF e.workspace THEN "workspace_project"
                ELSE IF e.source = "autosaved" THEN "stable_autosaved" ELSE "stable_manual"

-----------------------------------------------------------------------------
(* What is put into a layer. *)

\* A rank for the episodes: overlap with the input, recency, id.
Better(e, f) ==
  \/ e.score > f.score
  \/ e.score = f.score /\ (e.updated > f.updated \/ (e.updated = f.updated /\ e.id < f.id))

Best(episodes) ==
  {e \in episodes : Cardinality({f \in episodes : Better(f, e)}) < TopEpisodes}

\* The row of layer l that is next: the newest.
IsNext(l, e) ==
  \A f \in by_layer[l] \ {e} :
    e.updated > f.updated \/ (e.updated = f.updated /\ e.id < f.id)

\* A row is put on a line of its own.
LineBreak(l) == IF used[l] > 0 THEN 1 ELSE 0

\* Faulty Room: the line break is forgotten.
RoomWithoutBreak(l) == Budget[l] - used[l]

\* What is left for the next row, behind its line break.
Room(l) == Budget[l] - used[l] - LineBreak(l)

-----------------------------------------------------------------------------
(* The builder. *)

\* _resolve_entry_candidates, _resolve_summary_candidates and the best episodes.
Resolve ==
  LET found == [l \in Layers |-> {e \in Winners : LayerOf(e) = l}]
      kept == {e \in Winners : LayerOf(e) # "none"}
  IN  /\ pending = <<>> /\ included = {} /\ excluded = {}
      /\ by_layer' = [found EXCEPT !["episodic"] = Best(@)]
      /\ excluded' = {<<e, Standing(e)>> : e \in {f \in Loaded : Standing(f) # "visible"}}
             \cup {<<f, "overridden">> : f \in UNION {Rivals(e) \ {e} : e \in kept}}
      /\ pending' = LayerOrder
      /\ UNCHANGED <<rows, session, included, used>>

\* _build_layer: the next row fits whole.
PutWhole(l, e) ==
  /\ e.length <= Room(l)
  /\ by_layer' = [by_layer EXCEPT ![l] = @ \ {e}]
  /\ included' = included \cup {e}
  /\ used' = [used EXCEPT ![l] = @ + LineBreak(l) + e.length]
  /\ UNCHANGED excluded

\* It does not: it is cut before "..." if there is room, to its last word, and the
\* layer is full.
PutCut(l, e) ==
  /\ e.length > Room(l)
  /\ by_layer' = [by_layer EXCEPT ![l] = {}]
  /\ excluded' = excluded \cup (by_layer[l] \X {"budget"})
  /\ IF Room(l) > 3
       THEN /\ included' = included \cup {e}
            /\ \E chars \in 3 .. Room(l) : used' = [used EXCEPT ![l] = @ + LineBreak(l) + chars]
       ELSE UNCHANGED <<included, used>>

BuildLayer ==
  /\ pending # <<>>
  /\ \E e \in by_layer[Head(pending)] :
       IsNext(Head(pending), e) /\ (PutWhole(Head(pending), e) \/ PutCut(Head(pending), e))
  /\ UNCHANGED <<rows, session, pending>>

\* build_context goes on to the next layer.
NextLayer ==
  /\ pending # <<>>
  /\ by_layer[Head(pending)] = {}
  /\ pending' = Tail(pending)
  /\ UNCHANGED <<rows, session, by_layer, included, excluded, used>>

Next == Resolve \/ BuildLayer \/ NextLayer

Spec == Init /\ [][Next]_vars

-----------------------------------------------------------------------------
(* Properties. *)

Shown(e) == ~e.hidden /\ ~e.deleted

\* A visible row of the user replaces e.
Replaced(e) == \E f \in Loaded : Shown(f) /\ f.kind = e.kind /\ f.target = e.id

\* Rows about one thing: overrides of the same row, or rows that override nothing and are
\* entries of one scope and title, or summaries of one conversation.
AboutTheSame(e, f) ==
  /\ e.kind = f.kind
  /\ e.target = f.target
  /\ \/ e.target # NoRow
     \/ /\ e.scope_key = f.scope_key
        /\ IF e.kind = "entry" THEN e.scope = f.scope /\ e.title = f.title
           ELSE e.session = f.session /\ e.conversation = f.conversation

\* Nothing hidden, deleted or replaced is injected, and of the rows about one thing only
\* the one of the highest precedence, even when they would be in different layers.
RejectedIsLeftOut ==
  \A e \in included :
    /\ Shown(e) /\ ~Replaced(e)
    /\ \A f \in Loaded \ {e} : Shown(f) /\ ~Replaced(f) /\ AboutTheSame(e, f) =>
         f \notin included /\ Precedence(e.source) <= Precedence(f.source)

\* A base memory is injected again once its override is hidden or deleted: it is
\* left out for being overridden only while something replaces it.
OverriddenIsReplaced ==
  \A e \in rows : <<e, "overridden">> \in excluded =>
    Replaced(e) \/ \E f \in Loaded \ {e} : Shown(f) /\ AboutTheSame(e, f)

(* What a human did decides, in both directions: what was hidden, deleted or         *)
(* replaced stays out of the prompt, and nothing is left out for an override that     *)
(* does not stand (_resolve_entry_candidates, _resolve_summary_candidates).  Nothing  *)
(* is said of an override and a row of the same scope and title that overrides        *)
(* nothing, or of overrides of two such rows: the code gives them different keys and  *)
(* injects both, where docs/memory-runtime-injection.md:33 gives them one.            *)
HumansDecide == RejectedIsLeftOut /\ OverriddenIsReplaced

(* A subagent is shown neither the episodes nor the conversation summary of      *)
(* another session, also when they share a key with its own.                      *)
SubagentIsPrivate ==
  \A e \in included : session.subagent /\ (e.kind = "summary" \/ e.scope = "episodic") =>
    e.session = session.id

(* No layer exceeds its budget, whatever is cut where (_build_layer). *)
WithinBudget == \A l \in Layers : used[l] <= Budget[l]

=============================================================================
