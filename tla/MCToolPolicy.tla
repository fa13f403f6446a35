---------------------------- MODULE MCToolPolicy ----------------------------
(* Two tools of two groups, under the profiles that differ most. *)
EXTENDS ToolPolicy, TLC

Symmetry == Permutations(Services)

MCCatalog == <<"memory_search", "web_fetch">>
MCGroup == [t \in {"memory_search", "web_fetch"} |->
              IF t = "web_fetch" THEN "group:web" ELSE "group:memory"]
MCProfiles ==
  [p \in {"minimal", "full"} |->
     IF p = "full" THEN [g \in {"group:web", "group:memory"} |-> "allow"]
     ELSE [g \in {"group:web", "group:memory"} |-> IF g = "group:web" THEN "deny" ELSE "ask"]]

=============================================================================
