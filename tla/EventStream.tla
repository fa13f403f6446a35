----------------------------- MODULE EventStream -----------------------------
(***************************************************************************)
(* How the chat follows its executions.  Every commit of an execution        *)
(* leaves events in the database; the server polls them for each connection, *)
(* sorted by the time they were stamped, and sends those behind a cursor; the *)
(* desktop reconnects from the last event it has and folds what it is shown   *)
(* into one card per run.  Bytes in flight are not state: to lose them is to  *)
(* lose the connection before they are sent.                                  *)
(***************************************************************************)
EXTENDS Naturals, Sequences, FiniteSets

CONSTANTS
  Runs,
  Scripts,    \* what the runs may commit: of each, a sequence of transactions of events
  Asked,      \* the runs this desktop sends the message of; the others come from elsewhere
  Follows,    \* what connections follow: the session, or one task run
  Session,
  MaxLosses,  \* bound on the connections lost, or left by the user
  None

VARIABLES
  \* ---- executions and database
  script,  \* the transactions of each run
  stage,   \* how many of them are committed
  open,    \* the first stamp taken in the transaction under way, or 0
  clock,
  log,     \* the committed events
  \* ---- connection
  follow,  \* task_run_id of the request, or Session
  conn, cursor, batch, polled, ready,
  \* ---- desktop
  last,    \* lastEventId
  seen,    \* seenEventIds
  shown,   \* the events given to the reducer since the session was opened
  reply,   \* of the request that created the run
  card,    \* status of the card of a run
  \* ---- observer
  backlog,   \* the events a new connection has to replay before stream.ready
  overtaken, \* events committed when a later one had been
  late,      \* runs whose reply was handled after an event had settled the card
  losses

execVars == <<script, stage, open, clock, log>>
connVars == <<follow, conn, cursor, batch, polled, ready>>
chatVars == <<last, seen, shown, reply, card>>
vars == <<execVars, connVars, chatVars, backlog, overtaken, late, losses>>

Kinds == {"accepted", "started", "tool", "toolFailed", "approval", "message", "completed", "failed"}
Terminal == {"completed", "failed", "approval"}
Events == [run : Runs, kind : Kinds, at : Nat]

ASSUME ConstantsAssumption ==
  /\ Scripts \subseteq [Runs -> Seq(Seq(Kinds) \ {<<>>})]
  /\ Asked \subseteq Runs
  /\ Follows \subseteq Runs \cup {Session} /\ Session \notin Runs
  /\ MaxLosses \in Nat
  /\ None \notin Events

Init ==
  /\ script \in Scripts
  /\ stage = [r \in Runs |-> 0]
  /\ open = [r \in Runs |-> 0]
  /\ clock = 0
  /\ log = {}
  /\ follow \in Follows
  /\ conn = "closed" /\ cursor = None /\ batch = {} /\ polled = FALSE /\ ready = FALSE
  /\ last = None /\ seen = {} /\ shown = <<>>
  /\ reply = [r \in Runs |-> IF r \in Asked THEN "unsent" ELSE "elsewhere"]
  /\ card = [r \in Runs |-> "none"]
  /\ backlog = {} /\ overtaken = {} /\ late = {}
  /\ losses = 0

-----------------------------------------------------------------------------
(* Executions. *)

\* The events an execution commits, by transaction.  One sent by this desktop is queued,
\* "accepted" standing for the two events of that, and claimed later.
Answered == <<<<"accepted">>, <<"started">>, <<"message", "completed">>>>

\* One from elsewhere starts at once; the kernel raises.
Raised == <<<<"started">>, <<"failed">>>>

\* A tool call and its approval are committed by themselves; the text of the kernel
\* that pauses for it is stored as a message.
Paused == <<<<"accepted">>, <<"started">>, <<"tool">>, <<"approval">>, <<"message">>>>

\* A transaction stamps its events before it can take the write lock.  The first one
\* of a message is its request; the composer sends one request at a time.
Stamp(r) ==
  /\ stage[r] < Len(script[r])
  /\ open[r] = 0
  /\ reply[r] = "unsent" => \A q \in Runs : reply[q] \notin {"sent", "answered"}
  /\ reply' = [reply EXCEPT ![r] = IF @ = "unsent" THEN "sent" ELSE @]
  /\ open' = [open EXCEPT ![r] = clock + 1]
  /\ clock' = clock + Len(script[r][stage[r] + 1])
  /\ UNCHANGED <<script, stage, log, connVars, last, seen, shown, card, backlog, overtaken, late, losses>>

\* What list_events makes of the rows of a transaction, in the order of its stamps.
Projected(r) ==
  LET kinds == script[r][stage[r] + 1]
  IN  {[run |-> r, kind |-> kinds[k], at |-> open[r] + k - 1] : k \in DOMAIN kinds}

Commit(r) ==
  /\ open[r] # 0
  /\ log' = log \cup Projected(r)
  /\ overtaken' = overtaken \cup {e \in Projected(r) : \E f \in log : f.at > e.at}
  /\ stage' = [stage EXCEPT ![r] = @ + 1]
  /\ open' = [open EXCEPT ![r] = 0]
  /\ reply' = [reply EXCEPT ![r] = IF @ = "sent" THEN "answered" ELSE @]
  /\ UNCHANGED <<script, clock, connVars, last, seen, shown, card, backlog, late, losses>>

-----------------------------------------------------------------------------
(* The server's side of a connection. *)

\* The events of the task runs a connection follows.
Followed == {e \in log : follow = Session \/ e.run = follow}

\* Faulty After: the first event behind the cursor is skipped.
AfterNext(c) ==
  LET behind == {e \in Followed : c # None => c.at < e.at}
  IN  {e \in behind : c # None => \E f \in behind : f.at < e.at}

\* list_events: those behind the cursor; they are sent in the order of their stamps.
After(c) == {e \in Followed : c # None => c.at < e.at}

Poll ==
  /\ conn = "open"
  /\ batch = {}
  /\ polled => ready
  /\ ~polled \/ After(cursor) # {}
  /\ batch' = After(cursor)
  /\ polled' = TRUE
  /\ UNCHANGED <<execVars, follow, conn, cursor, ready, chatVars, backlog, overtaken, late, losses>>

\* Faulty SayReady: before the first poll.
SayReadyAtOnce ==
  /\ conn = "open" /\ ~ready
  /\ ready' = TRUE
  /\ backlog' = {}
  /\ UNCHANGED <<execVars, follow, conn, cursor, batch, polled, chatVars, overtaken, late, losses>>

\* stream.ready, once the first poll is sent; a task run's stream says nothing.
SayReady ==
  /\ conn = "open" /\ polled /\ batch = {} /\ ~ready
  /\ ready' = TRUE
  /\ backlog' = {}
  /\ UNCHANGED <<execVars, follow, conn, cursor, batch, polled, chatVars, overtaken, late, losses>>

-----------------------------------------------------------------------------
(* The desktop. *)

\* Faulty CardAfter: a failure is like any other event.
CardAfterAnything(status, kind) ==
  CASE kind = "approval" -> "awaiting_approval"
    [] kind = "completed" -> "completed"
    [] OTHER -> "running"

\* deriveRunStatus: a tool that failed marks the whole run.
CardAfter(status, kind) ==
  CASE kind = "approval" -> "awaiting_approval"
    [] kind \in {"failed", "toolFailed"} -> "failed"
    [] kind = "completed" -> "completed"
    [] OTHER -> "running"

\* run/event-received.
Fold(e) ==
  /\ shown' = Append(shown, e)
  /\ card' = [card EXCEPT ![e.run] = CardAfter(@, e.kind)]

\* The stream of a task run ends with its first terminal event.
EndsStream(e) == follow # Session /\ e.kind \in Terminal

\* The next event arrives: only what was not seen is given to the reducer.
Deliver ==
  /\ conn = "open"
  /\ \E e \in batch :
       /\ \A f \in batch : e.at <= f.at
       /\ cursor' = e
       /\ last' = e
       /\ seen' = seen \cup {e}
       /\ IF e \in seen THEN UNCHANGED <<shown, card>> ELSE Fold(e)
       /\ batch' = IF EndsStream(e) THEN {} ELSE batch \ {e}
       /\ conn' = IF EndsStream(e) THEN "ended" ELSE conn
  /\ UNCHANGED <<execVars, follow, polled, ready, reply, backlog, overtaken, late, losses>>

\* nextRunStatusFromResponse, of an answer with status "queued".
CardOnReply(status) == IF status \in {"none", "connecting"} THEN "connecting" ELSE "running"

\* run/response-bound: the card of the run, or the optimistic one.
Bind(r) ==
  /\ reply[r] = "answered"
  /\ reply' = [reply EXCEPT ![r] = "bound"]
  /\ card' = [card EXCEPT ![r] = CardOnReply(@)]
  /\ late' = IF card[r] \in {"none", "running"} THEN late ELSE late \cup {r}
  /\ UNCHANGED <<execVars, connVars, last, seen, shown, backlog, overtaken, losses>>

\* run/optimistic-discarded: the answer is lost, the run may exist.
Discard(r) ==
  /\ reply[r] \in {"sent", "answered"}
  /\ reply' = [reply EXCEPT ![r] = "discarded"]
  /\ UNCHANGED <<execVars, connVars, last, seen, shown, card, backlog, overtaken, late, losses>>

Drop ==
  /\ conn = "open"
  /\ losses < MaxLosses
  /\ conn' = "closed"
  /\ batch' = {}
  /\ losses' = losses + 1
  /\ UNCHANGED <<execVars, follow, cursor, polled, ready, chatVars, backlog, overtaken, late>>

\* Faulty Connect: lastEventId and seenEventIds belong to one connection.
ConnectAfresh ==
  /\ conn = "closed"
  /\ conn' = "open"
  /\ cursor' = None /\ last' = None /\ seen' = {}
  /\ polled' = FALSE
  /\ ready' = (follow # Session)
  /\ backlog' = IF follow = Session THEN After(None) ELSE {}
  /\ UNCHANGED <<execVars, follow, batch, shown, reply, card, overtaken, late, losses>>

\* fetch with the Last-Event-ID there is, at first and after a lost connection.
Connect ==
  /\ conn = "closed"
  /\ conn' = "open"
  /\ cursor' = last
  /\ polled' = FALSE
  /\ ready' = (follow # Session)
  /\ backlog' = IF follow = Session THEN After(last) ELSE {}
  /\ UNCHANGED <<execVars, follow, batch, chatVars, overtaken, late, losses>>

\* The user leaves the session and comes back: the cards stay.
Reopen ==
  /\ follow = Session
  /\ losses < MaxLosses
  /\ conn' = "closed" /\ batch' = {} /\ cursor' = None
  /\ last' = None /\ seen' = {} /\ shown' = <<>>
  /\ losses' = losses + 1
  /\ UNCHANGED <<execVars, follow, polled, ready, reply, card, backlog, overtaken, late>>

ServerStep == Poll \/ SayReady \/ Deliver

Next ==
  \/ \E r \in Runs : Stamp(r) \/ Commit(r) \/ Bind(r) \/ Discard(r)
  \/ ServerStep
  \/ Drop
  \/ Connect
  \/ Reopen

Spec == Init /\ [][Next]_vars

\* A transaction under way ends, the server polls and the desktop reconnects for ever.
Fairness ==
  /\ \A r \in Runs : WF_vars(Commit(r))
  /\ WF_vars(ServerStep)
  /\ WF_vars(Connect)

FairSpec == Spec /\ Fairness

-----------------------------------------------------------------------------
(* Properties. *)

(* However often the connection is lost, the desktop folds every event once and *)
(* in the order of the stamps, although they are committed in another order      *)
(* (connectSessionExecutionStream, list_events).                                  *)
ShownInOrder == \A i, j \in DOMAIN shown : i < j => shown[i].at < shown[j].at

(* docs/backend-execution-events.md:61: stream.ready marks the end of the history. *)
(* Whatever was committed when the connection began, behind its cursor, is shown    *)
(* before it; on it the desktop starts to treat terminal events as news.            *)
ReadyMeansReplayed == [][follow = Session /\ ~ready /\ ready' => backlog \subseteq seen]_vars

(* In the end every event is shown, over any connections, and the stream of a task  *)
(* run ends: except for an event committed after one with a later stamp, which the   *)
(* cursor may already have passed (list_events, stream_session_events).               *)
NothingMissed ==
  <>[](/\ follow = Session => log \ overtaken \subseteq seen
       /\ (\E e \in log \ overtaken : e.run = follow /\ e.kind \in Terminal) => conn = "ended")

(* Once everything committed of a run was shown, its card says what its last event   *)
(* says, after replays as well: unless the answer of the request came so late that   *)
(* it overwrote the status (chatExecutionStateReducer).                               *)
LastOf(r, e) == e.run = r /\ \A f \in log : f.run = r => f.at <= e.at

CardTellsOutcome ==
  \A r \in Runs \ late, e \in log :
    follow = Session /\ LastOf(r, e) /\ {f \in log : f.run = r} \subseteq seen
      => /\ e.kind = "approval" => card[r] = "awaiting_approval"
         /\ e.kind \in {"completed", "failed"} => card[r] = e.kind

=============================================================================
