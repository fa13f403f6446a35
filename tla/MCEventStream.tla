---------------------------- MODULE MCEventStream ----------------------------
(* Instances of EventStream for TLC. *)
EXTENDS EventStream, TLC

CONSTANTS r1, r2

\* An answered run beside one that fails, or one that pauses.
MCScripts == {(r1 :> Answered) @@ (r2 :> Raised), (r1 :> Paused) @@ (r2 :> <<>>)}
MCFollows == {Session, r1}

=============================================================================
