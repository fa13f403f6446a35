---------------------------- MODULE MCSubagents ----------------------------
(* Instances of Subagents for TLC. *)
EXTENDS Subagents, TLC

\* Sound for the safety runs: no definition singles out a worker or a run.
Symmetry == Permutations(Workers) \cup Permutations(Runs)

=============================================================================
