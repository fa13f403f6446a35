------------------------- MODULE MCAgentExecution -------------------------
(* Constants and symmetry of the TLC runs of AgentExecution. *)
EXTENDS AgentExecution, TLC

CONSTANTS w1, w2, h1, h2, r1, r2, c1, c2

TwoWorkers == {w1, w2}
OneWorker == {w1}
TwoHandlers == {h1, h2}
OneHandler == {h1}
TwoRuns == {r1, r2}
OneRun == {r1}
TwoCalls == {c1, c2}
OneCall == {c1}

AllFaults == FaultKinds
NoFaults == {}

MCSymmetry ==
  Permutations(Workers) \cup Permutations(Handlers)
    \cup Permutations(Runs) \cup Permutations(Calls)
=============================================================================
