--------------------------- MODULE MCPromptContext ---------------------------
(* Instances of PromptContext for TLC. *)
EXTENDS PromptContext

CONSTANTS main, child

MCSessions == {[id |-> main, conversation |-> main, subagent |-> FALSE],
               [id |-> child, conversation |-> child, subagent |-> TRUE]}

\* 5 and 8 characters and a line break are one more than the budget.
MCBudget == [l \in Layers |-> 13]

Entry(id, source, scope, s, target, hidden, deleted) ==
  [id |-> id, kind |-> "entry", title |-> "title", source |-> source,
   scope |-> scope, scope_key |-> IF scope = "stable" THEN "agent" ELSE s,
   session |-> s, conversation |-> s, of_run |-> FALSE, workspace |-> FALSE,
   target |-> target, hidden |-> hidden, deleted |-> deleted, updated |-> id,
   score |-> id % 2, length |-> IF source = "manual" THEN 5 ELSE 8]

Summary(id, source, s, target) ==
  [Entry(id, source, "session_summary", s, target, FALSE, FALSE) EXCEPT !.kind = "summary"]

\* An automatic memory, another that may override it, and a third of any kind.
First == {Entry(1, source, scope, s, NoRow, hidden, FALSE) :
            source \in {"autosaved", "manual"}, scope \in {"stable", "episodic"},
            s \in {main, child}, hidden \in BOOLEAN}
Second == {Entry(2, source, scope, s, target, hidden, deleted) :
            source \in {"manual", "user_override", "autosaved"},
            scope \in {"stable", "episodic"}, s \in {main, child}, target \in {NoRow, 1},
            hidden \in BOOLEAN, deleted \in BOOLEAN}
Third == {Entry(3, "manual", "stable", main, NoRow, FALSE, FALSE),
          [Entry(3, "autosaved", "stable", main, NoRow, FALSE, FALSE) EXCEPT !.workspace = TRUE],
          [Entry(3, "manual", "stable", main, NoRow, FALSE, FALSE) EXCEPT !.title = "other"],
          Entry(3, "promoted_from_session", "episodic", child, 1, FALSE, FALSE),
          Summary(3, "summary", main, NoRow), Summary(3, "summary", child, NoRow),
          [Summary(3, "summary", child, NoRow) EXCEPT !.of_run = TRUE]}

MCRows == First \cup Second \cup Third
MCInputs == {{a, b, c} : a \in First, b \in Second, c \in Third}

=============================================================================
