------------------------------ MODULE MCMemory ------------------------------
(* Instances of Memory for TLC. *)
EXTENDS Memory, TLC

CONSTANTS main, child, t1

\* A main session that delegates to a child session.
MCParent == (main :> NoSession) @@ (child :> main)
MCSessions == {main, child}

\* A memory that the system captured, or the summary the migration wrote.
OldCapture == NewEntry(t1, "autosaved", main, NoRow, TRUE)
MCOldRows == {OldCapture, Backfilled(t1, main)}

\* The query of a message finds everything.
MCQueries == {{t1}}
MCSymmetry == Permutations(Runs) \cup Permutations(Handlers) \cup Permutations(Closers)

=============================================================================
