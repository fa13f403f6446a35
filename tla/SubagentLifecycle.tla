------------------------- MODULE SubagentLifecycle -------------------------
(***************************************************************************)
(* What the subagent runtime promises about one delegated run, whatever its *)
(* workers, handlers, timeouts and restarts do: it is accepted once, started *)
(* once, brought to one terminal status, and reported once to the parent.    *)
(***************************************************************************)
EXTENDS Sequences

CONSTANT Runs

VARIABLES
  status,     \* session_subagent_runs.lifecycle_status
  cancelling, \* cancellation_requested_at is not None
  report      \* the summaries posted to the parent session

vars == <<status, cancelling, report>>

Final == {"completed", "failed", "cancelled", "timed_out"}

Init ==
  /\ status = [r \in Runs |-> "none"]
  /\ cancelling = [r \in Runs |-> FALSE]
  /\ report = [r \in Runs |-> <<>>]

Accept(r) ==
  /\ status[r] = "none"
  /\ status' = [status EXCEPT ![r] = "queued"]
  /\ UNCHANGED <<cancelling, report>>

Start(r) ==
  /\ status[r] = "queued"
  /\ status' = [status EXCEPT ![r] = "running"]
  /\ UNCHANGED <<cancelling, report>>

\* A request may arrive when the run is over: it is noted and changes nothing.
RequestCancel(r) ==
  /\ status[r] \in Final \cup {"running"}
  /\ cancelling' = [cancelling EXCEPT ![r] = TRUE]
  /\ UNCHANGED <<status, report>>

\* A run that was not started can only be cancelled, and one whose
\* cancellation is requested can no longer complete or fail.
Finish(r, s) ==
  /\ \/ status[r] = "queued" /\ s = "cancelled"
     \/ status[r] = "running"
  /\ cancelling[r] => s \in {"cancelled", "timed_out"}
  /\ status' = [status EXCEPT ![r] = s]
  /\ \E told \in Final :
       /\ told = s \/ cancelling[r]
       /\ report' = [report EXCEPT ![r] = Append(@, told)]
  /\ UNCHANGED cancelling

Next ==
  \E r \in Runs :
    \/ Accept(r) \/ Start(r) \/ RequestCancel(r)
    \/ \E s \in Final : Finish(r, s)

Spec == Init /\ [][Next]_vars

=============================================================================
