------------------------------- MODULE Memory -------------------------------
(***************************************************************************)
(* What the assistant remembers.  Users create, edit, hide, delete and       *)
(* restore memory entries and session summaries through HTTP handlers, while *)
(* executions select what they recall, refresh the summary of their          *)
(* conversation and capture their output.  A handler reads what it checks    *)
(* before its transaction begins: SQLite locks at the first write.           *)
(***************************************************************************)
EXTENDS Naturals, FiniteSets

CONSTANTS
  MaxRows,     \* bound on the rows of memory_entries and session_summaries
  Texts,       \* contents up to normalisation: equal texts, equal dedupe_hash
  Queries,     \* the contents that answer the query built from a message
  Sessions,
  Parent,      \* parent_session_id of each session, or NoSession
  Runs,        \* task runs
  Handlers,    \* HTTP handler threads
  Closers,     \* threads that finalize a delegated run: its worker, a sweep, a cancel
  Limit,       \* memories an execution recalls at most
  HardDelete,  \* memory_hard_delete_enabled
  OldRows,     \* rows of earlier runs or migrated ones, one of which may be there
  MaxRequests, \* bound on the requests of the users and the messages they send
  MaxCrashes,
  Absent, NoSession, NoRun, NoText

VARIABLES
  \* ---- SQLite
  row,      \* memory_entries and session_summaries, by id
  next,     \* the next unused id: generate_id never repeats one
  logged,   \* what the change log tells of an entry, or Absent
  recalls,  \* memory_recall_log with decision "included": <<run, id>>
  recent,   \* those of the last twelve hours
  talk,     \* the active conversation of a session has earlier messages
  \* ---- memory of the threads
  job,      \* of the handlers
  exec,     \* of the executions
  closer,   \* of the captures that follow a finalization
  \* ---- observer
  banned,   \* texts suppressed since before the run, or the capture, began
  raced,    \* runs that got a summary while another capture of them had found none
  requests, crashes

dbVars == <<row, next, logged, recalls, recent, talk>>
vars == <<dbVars, job, exec, closer, banned, raced, requests, crashes>>

Ids == 1 .. MaxRows
NoRow == 0

Sources == {"manual", "user_override", "promoted_from_session",
            "promoted_from_subagent", "autosaved", "summary"}
Managed == Sources \ {"autosaved", "summary"}

EntryRow ==
  [kind : {"entry"}, text : Texts, source : Sources \ {"summary"},
   scope : {"stable", "episodic"}, hidden : BOOLEAN, deleted : BOOLEAN,
   target : Ids \cup {NoRow}, session : Sessions \cup {NoSession}, run : {NoRun},
   shared : BOOLEAN]
SummaryRow ==
  [kind : {"summary"}, text : Texts, source : {"summary", "manual"},
   scope : {"session_summary"}, hidden : BOOLEAN, deleted : BOOLEAN,
   target : Ids \cup {NoRow}, session : Sessions \cup {NoSession},
   run : Runs \cup {NoRun}, shared : {TRUE}]
Row == EntryRow \cup SummaryRow

\* memory_recall_log, of the rows with decision "included".
RecallLog == Runs \X Ids

ASSUME ConstantsAssumption ==
  /\ MaxRows \in Nat /\ Limit \in Nat /\ MaxRequests \in Nat /\ MaxCrashes \in Nat
  /\ Closers \cap Runs = {} /\ NoSession \notin Sessions /\ NoRun \notin Runs /\ NoText \notin Texts
  /\ Parent \in [Sessions -> Sessions \cup {NoSession}]
  /\ HardDelete \in BOOLEAN /\ Queries \subseteq SUBSET Texts
  /\ MaxRows > 0 /\ OldRows \subseteq Row

\* A snapshot of the change log: the columns a user's request may change.
View(e) == [text |-> e.text, source |-> e.source, scope |-> e.scope,
            recall |-> IF e.hidden THEN "hidden" ELSE "shown", deleted |-> e.deleted]
\* The rows written for an override give ids and no column.
Views == [text : Texts, source : Sources \ {"summary"}, scope : {"stable", "episodic"},
          recall : {"hidden", "shown", "unsaid"}, deleted : BOOLEAN]

Changes == {"edit", "hide", "unhide", "promote", "demote", "delete", "restore"}
Operations == Changes \cup {"create", "post", "note", "override", "erase", "restoreItem"}
Job == [step : {"idle", "write", "enrich", "reread"}, op : Operations \cup {"none"},
        id : Ids \cup {NoRow}, seen : Row \cup {Absent}, text : Texts \cup {NoText}]
Idle == [step |-> "idle", op |-> "none", id |-> NoRow, seen |-> Absent, text |-> NoText]

Verdicts == {"skip", "suppress", "insert"}
RunSteps == {"none", "queued", "running", "capture", "store", "paused", "resumed", "done",
             "lost"}
Exec == [step : RunSteps, session : Sessions \cup {NoSession}, picked : SUBSET Ids,
         text : Texts \cup {NoText}, verdict : Verdicts, after : SUBSET Runs]
NotRun == [step |-> "none", session |-> NoSession, picked |-> {}, text |-> NoText,
           verdict |-> "skip", after |-> {}]

\* A capture between its queries and its transaction.
Closer == [step : {"none", "store"}, session : Sessions \cup {NoSession},
           run : Runs \cup {NoRun}, text : Texts \cup {NoText}, verdict : Verdicts]
NotClosing == [step |-> "none", session |-> NoSession, run |-> NoRun, text |-> NoText,
               verdict |-> "skip"]

Told(e) == IF e # Absent /\ e.kind = "entry" THEN View(e) ELSE Absent

TypeOK ==
  /\ row \in [Ids -> Row \cup {Absent}]
  /\ next \in 1 .. MaxRows + 1
  /\ logged \in [Ids -> Views \cup {Absent}]
  /\ recalls \subseteq RecallLog
  /\ recent \subseteq recalls
  /\ talk \in [Sessions -> BOOLEAN]
  /\ job \in [Handlers -> Job]
  /\ exec \in [Runs -> Exec]
  /\ closer \in [Closers -> Closer]
  /\ banned \in [Runs \cup Closers -> SUBSET Texts]
  /\ raced \subseteq Runs
  /\ requests \in 0 .. MaxRequests
  /\ crashes \in 0 .. MaxCrashes

Init ==
  /\ \E old \in OldRows \cup {Absent} :
       /\ row = [i \in Ids |-> IF i = 1 THEN old ELSE Absent]
       /\ next = IF old = Absent THEN 1 ELSE 2
       /\ logged = [i \in Ids |-> IF i = 1 THEN Told(old) ELSE Absent]
       /\ talk = [s \in Sessions |-> old # Absent /\ old.kind = "summary" /\ old.session = s]
  /\ recalls = {}
  /\ recent = {}
  /\ job = [h \in Handlers |-> Idle]
  /\ exec = [r \in Runs |-> NotRun]
  /\ closer = [c \in Closers |-> NotClosing]
  /\ banned = [x \in Runs \cup Closers |-> {}]
  /\ raced = {}
  /\ requests = 0
  /\ crashes = 0

-----------------------------------------------------------------------------
(* Queries. *)

Entries == {i \in Ids : row[i] # Absent /\ row[i].kind = "entry"}
Summaries == {i \in Ids : row[i] # Absent /\ row[i].kind = "summary"}

\* find_active_by_dedupe_hash: a hidden entry counts as active.
Active(t) == {i \in Entries : row[i].text = t /\ ~row[i].deleted}

\* Faulty Tombstones: only hidden entries are looked for.
TombstonesHiddenOnly(t) == {i \in Entries : row[i].text = t /\ row[i].hidden}

\* find_user_tombstone_by_dedupe_hash.
Tombstones(t) == {i \in Entries : row[i].text = t /\ (row[i].deleted \/ row[i].hidden)}

SummaryOf(r) == {i \in Summaries : row[i].run = r}

\* Without a task run nothing is looked for.
Summarized(r) == r # NoRun /\ SummaryOf(r) # {}

Root(s) == IF Parent[s] = NoSession THEN s ELSE Parent[s]

\* Within one of the default scopes of a session: the agent and user scopes need the
\* columns that only enriched rows carry.
InScope(i, s) ==
  row[i].shared \/ (row[i].session # NoSession /\ Root(row[i].session) = Root(s))

\* What the full-text index knows: its triggers keep it equal to the tables.
Indexed == Entries \cup Summaries

\* search_memory_entries and search_session_summaries.
Matching(query) ==
  {i \in Indexed : row[i].text \in query /\ ~row[i].hidden /\ ~row[i].deleted}

\* Both are restricted to the scopes of the session.
Found(query, s) == {i \in Matching(query) : InScope(i, s)}

\* What the session was shown in the last twelve hours.
RecentIn(s) == {p[2] : p \in {q \in recent : exec[q[1]].session = s}}

\* What a ranking may put first: n rows, or all of them.
Best(rows, n) ==
  {best \in SUBSET rows :
     Cardinality(best) = IF Cardinality(rows) < n THEN Cardinality(rows) ELSE n}

\* search: no override takes the place of the row it replaces.
Searched(query, s, limit) == Best(Found(query, s), limit)

\* select_for_recall: what was shown of late is dropped from four times the limit.
Recallable(query, s) ==
  UNION {Best(found \ RecentIn(s), Limit) : found \in Searched(query, s, 4 * Limit)}

Suppressed == {row[i].text : i \in {j \in Entries : row[j].deleted \/ row[j].hidden}}

-----------------------------------------------------------------------------
(* Requests of the users: what the handler reads and checks. *)

NewEntry(t, source, s, target, shared) ==
  [kind |-> "entry", text |-> t, source |-> source,
   scope |-> IF source = "autosaved" THEN "episodic" ELSE "stable",
   hidden |-> FALSE, deleted |-> FALSE, target |-> target,
   session |-> s, run |-> NoRun, shared |-> shared]

\* What the migration writes for a session that had a summary.
Backfilled(t, s) ==
  [kind |-> "summary", text |-> t, source |-> "summary", scope |-> "session_summary",
   hidden |-> FALSE, deleted |-> FALSE, target |-> NoRow,
   session |-> s, run |-> NoRun, shared |-> TRUE]

NewSummary(t, source, s, r, target) ==
  [kind |-> "summary", text |-> t, source |-> source, scope |-> "session_summary",
   hidden |-> FALSE, deleted |-> FALSE, target |-> target,
   session |-> s, run |-> r, shared |-> TRUE]

Ask(h, op, i, t) ==
  /\ job' = [job EXCEPT ![h] =
       [step |-> "write", op |-> op, id |-> i, text |-> t,
        seen |-> IF i = NoRow THEN Absent ELSE row[i]]]
  /\ requests' = requests + 1
  /\ UNCHANGED <<dbVars, exec, crashes>>

\* POST /memory/items: stable and episodic entries; a conflict answers 409.
Create(h, t) == Active(t) = {} /\ Ask(h, "create", NoRow, t)

\* POST /memory/entries: nothing is enriched.
Post(h, t) == Active(t) = {} /\ Ask(h, "post", NoRow, t)

\* POST /memory/items of a session summary: nothing is checked.
Note(h, t) == Ask(h, "note", NoRow, t)

\* _update_entry, and update_item of what the user manages.
Edit(h, i, t) ==
  /\ IF i \in Entries
       THEN Active(t) \ {i} = {}
       ELSE i \in Summaries /\ row[i].source = "manual"
  /\ Ask(h, "edit", i, t)

\* update_item of what the system wrote: a manual row that overrides it.
Override(h, i, t) ==
  /\ i \in Entries \cup Summaries
  /\ IF i \in Entries THEN row[i].source \notin Managed ELSE row[i].source # "manual"
  /\ Ask(h, "override", i, t)

Change(h, op, i) ==
  /\ \/ i \in Entries /\ op \in Changes \ {"edit"}
     \/ i \in Summaries /\ op \in {"hide", "delete", "restore"}
  /\ Ask(h, op, i, NoText)

\* restore_item of an entry: restore and unhide are two transactions.
RestoreItem(h, i) ==
  /\ i \in Entries
  /\ row[i].deleted \/ row[i].hidden
  /\ Ask(h, IF row[i].deleted THEN "restoreItem" ELSE "unhide", i, NoText)

Erase(h, i) ==
  /\ i \in Summaries \/ (i \in Entries /\ HardDelete)
  /\ Ask(h, "erase", i, NoText)

-----------------------------------------------------------------------------
(* Requests of the users: what the handler writes. *)

Edited(e, t) ==
  [e EXCEPT !.text = t,
            !.source = IF t # e.text /\ e.kind = "entry" /\ e.source \notin Managed
                         THEN "user_override" ELSE e.source]

\* Faulty Promoted: the state's name is written into the scope.
PromotedAsScope(e) == [e EXCEPT !.scope = "promoted"]

Promoted(e) ==
  [e EXCEPT !.scope = "stable",
            !.source = IF e.session # NoSession /\ Parent[e.session] # NoSession
                         THEN "promoted_from_subagent" ELSE "promoted_from_session"]

Demoted(e) == [e EXCEPT !.scope = "episodic"]
Toggled(e, hidden) == [e EXCEPT !.hidden = hidden]
\* A summary is hidden and shown with it, an entry is not.
Deleted(e) == [e EXCEPT !.deleted = TRUE, !.hidden = @ \/ e.kind = "summary"]
Restored(e) == [e EXCEPT !.deleted = FALSE, !.hidden = @ /\ e.kind = "entry"]

\* The row as the handler assigns it.
Assigned(op, e, t) ==
  CASE op = "edit" -> Edited(e, t)
    [] op \in {"hide", "unhide"} -> Toggled(e, op = "hide")
    [] op = "promote" -> Promoted(e)
    [] op = "demote" -> Demoted(e)
    [] op = "delete" -> Deleted(e)
    [] op \in {"restore", "restoreItem"} -> Restored(e)

\* The UPDATE writes the columns that differ from what the session loaded.
Written(now, seen, new) == IF new = seen THEN now ELSE new

Merged(now, seen, new) ==
  [now EXCEPT !.text = Written(@, seen.text, new.text),
              !.source = Written(@, seen.source, new.source),
              !.scope = Written(@, seen.scope, new.scope),
              !.hidden = Written(@, seen.hidden, new.hidden),
              !.deleted = Written(@, seen.deleted, new.deleted)]

\* Faulty Logged: the snapshot is taken of the loaded row.
LoggedAsLoaded(i, e, seen) ==
  IF e.kind = "entry" THEN [logged EXCEPT ![i] = View(seen)] ELSE logged

\* The change log after a write of entry i: save_entry refreshes before the snapshot.
Logged(i, e, seen) ==
  IF e.kind = "entry" THEN [logged EXCEPT ![i] = View(e)] ELSE logged

Finish(h) == job' = [job EXCEPT ![h] = Idle]

\* A row erased meanwhile fails the flush and the transaction is rolled back.
Rollback(h) ==
  /\ job[h].step # "idle"
  /\ job[h].id # NoRow /\ row[job[h].id] = Absent
  /\ job[h].op # "erase"
  /\ Finish(h)
  /\ UNCHANGED <<dbVars, exec, requests, crashes>>

SaveChange(h) ==
  LET i == job[h].id
      seen == job[h].seen
      new == Assigned(job[h].op, seen, job[h].text)
      \* deleted_at is a new time and always written.
      e == [Merged(row[i], seen, new) EXCEPT !.deleted = @ \/ job[h].op = "delete"]
  IN  /\ job[h].step = "write"
      /\ job[h].op \in Changes \cup {"restoreItem"}
      /\ row[i] # Absent
      /\ row' = [row EXCEPT ![i] = e]
      /\ logged' = Logged(i, e, new)
      /\ IF job[h].op = "restoreItem"
           THEN job' = [job EXCEPT ![h].step = "reread"]
           ELSE Finish(h)
      /\ UNCHANGED <<next, recalls, recent, talk, exec, requests, crashes>>

\* restore_item reads the entry again after the commit: is it still hidden?
Reread(h) ==
  LET i == job[h].id IN
  /\ job[h].step = "reread"
  /\ row[i] # Absent
  /\ IF row[i].hidden
       THEN job' = [job EXCEPT ![h] = [@ EXCEPT !.step = "write", !.op = "unhide", !.seen = row[i]]]
       ELSE Finish(h)
  /\ UNCHANGED <<dbVars, exec, requests, crashes>>

Insert(h) ==
  /\ job[h].step = "write"
  /\ job[h].op \in {"create", "post", "note"}
  /\ next \in Ids
  /\ row' = [row EXCEPT ![next] =
       IF job[h].op = "note" THEN NewSummary(job[h].text, "manual", NoSession, NoRun, NoRow)
       ELSE NewEntry(job[h].text, "manual", NoSession, NoRow, FALSE)]
  /\ logged' = Logged(next, row'[next], row'[next])
  /\ next' = next + 1
  /\ job' = [job EXCEPT ![h] =
       IF job[h].op # "create" THEN Idle ELSE [@ EXCEPT !.step = "enrich", !.id = next]]
  /\ UNCHANGED <<recalls, recent, talk, exec, requests, crashes>>

\* The second transaction of create_item brings the row into the agent's scope.
Enrich(h) ==
  /\ job[h].step = "enrich"
  /\ row[job[h].id] # Absent
  /\ row' = [row EXCEPT ![job[h].id].shared = TRUE]
  /\ Finish(h)
  /\ UNCHANGED <<next, logged, recalls, recent, talk, exec, requests, crashes>>

\* The rows logged for an override of entry i say neither that it is hidden nor what
\* the new row is.
OverrideLogged(i, e) ==
  IF e.kind = "summary" \/ logged[i] = Absent THEN logged
  ELSE [logged EXCEPT ![i].recall = "unsaid"]

\* _build_override_entry, and the override of a summary.
OverrideOf(i, e, t) ==
  [e EXCEPT !.text = t, !.source = "manual", !.target = i, !.hidden = FALSE, !.deleted = FALSE]

SaveOverride(h) ==
  LET i == job[h].id
      seen == job[h].seen
      base == Merged(row[i], seen, [seen EXCEPT !.hidden = TRUE])
  IN  /\ job[h].step = "write"
      /\ job[h].op = "override"
      /\ row[i] # Absent
      /\ next \in Ids
      /\ row' = [row EXCEPT ![i] = base, ![next] = OverrideOf(i, seen, job[h].text)]
      /\ logged' = OverrideLogged(i, seen)
      /\ next' = next + 1
      /\ Finish(h)
      /\ UNCHANGED <<recalls, recent, talk, exec, requests, crashes>>

SaveErase(h) ==
  /\ job[h].step = "write"
  /\ job[h].op = "erase"
  /\ row' = [row EXCEPT ![job[h].id] = Absent]
  /\ Finish(h)
  /\ UNCHANGED <<next, logged, recalls, recent, talk, exec, requests, crashes>>

-----------------------------------------------------------------------------
(* Executions. *)

\* The summary of the conversation of s.
ConversationSummary(s) ==
  {i \in Summaries : row[i].source = "summary" /\ row[i].run = NoRun /\ row[i].session = s}

\* update_conversation_summary: of several, the one updated last.
Refresh(s) ==
  \/ /\ talk[s] /\ ConversationSummary(s) = {}
     /\ next \in Ids
     /\ \E t \in Texts : row' = [row EXCEPT ![next] = NewSummary(t, "summary", s, NoRun, NoRow)]
     /\ next' = next + 1
  \/ /\ ~talk[s] /\ ConversationSummary(s) = {}
     /\ UNCHANGED <<row, next>>
  \/ /\ \E i \in ConversationSummary(s), t \in Texts :
          row' = [row EXCEPT ![i] = IF talk[s]
                    THEN [@ EXCEPT !.text = t, !.hidden = FALSE, !.deleted = FALSE]
                    ELSE [@ EXCEPT !.hidden = TRUE, !.deleted = TRUE]]
     /\ UNCHANGED next

\* Runs of the session that completed in the last twelve hours: they told what they recalled.
Reported(s) == {r \in Runs : exec[r].session = s /\ \E i \in Ids : <<r, i>> \in recent}

\* Faulty Select: nothing is left out for having been shown.
SelectAgain(r, s, query, step) ==
  \E picked \in Searched(query, s, Limit) :
    exec' = [exec EXCEPT ![r] = [NotRun EXCEPT !.step = step, !.session = s,
      !.picked = picked, !.after = Reported(s)]]

Select(r, s, query, step) ==
  \E picked \in Recallable(query, s) :
    exec' = [exec EXCEPT ![r] = [NotRun EXCEPT !.step = step, !.session = s,
      !.picked = picked, !.after = Reported(s)]]

\* The task runs of session s: a child session is of one delegated run.
Attached(s) == {r \in Runs : exec[r].session = s}

\* _build_request in the transaction that stores the message, or the goal.
Prepare(r, s, query) ==
  /\ exec[r].step = "none"
  /\ Parent[s] # NoSession => Attached(s) = {}
  /\ requests < MaxRequests
  /\ Select(r, s, query, "running")
  /\ Refresh(s)
  /\ talk' = [talk EXCEPT ![s] = TRUE]
  /\ requests' = requests + 1
  /\ UNCHANGED <<logged, recalls, recent, job, crashes>>

\* An asynchronous message: of the request built with it only the summary is kept.
Accept(r, s) ==
  /\ exec[r].step = "none"
  /\ Parent[s] = NoSession
  /\ requests < MaxRequests
  /\ exec' = [exec EXCEPT ![r] = [NotRun EXCEPT !.step = "queued", !.session = s]]
  /\ Refresh(s)
  /\ talk' = [talk EXCEPT ![s] = TRUE]
  /\ requests' = requests + 1
  /\ UNCHANGED <<logged, recalls, recent, job, crashes>>

\* The worker that claims it builds the request that runs.
Claim(r, query) ==
  LET s == exec[r].session IN
  /\ exec[r].step = "queued"
  /\ Select(r, s, query, "running")
  /\ Refresh(s)
  /\ UNCHANGED <<logged, recalls, recent, talk, job, requests, crashes>>

\* After an approval the request is built again.
Resume(r, query) ==
  LET s == exec[r].session IN
  /\ exec[r].step = "paused"
  /\ Select(r, s, query, "resumed")
  /\ Refresh(s)
  /\ UNCHANGED <<logged, recalls, recent, talk, job, requests, crashes>>

\* Faulty Verdict: no summary of the run is looked for.
VerdictUnsummarized(r, t) ==
  CASE t = NoText -> "skip"
    [] t # NoText /\ Tombstones(t) # {} -> "suppress"
    [] OTHER -> IF Active(t) # {} THEN "skip" ELSE "insert"

\* capture_execution_result up to its first write.
Verdict(r, t) ==
  CASE t = NoText \/ Summarized(r) -> "skip"
    [] t # NoText /\ ~Summarized(r) /\ Tombstones(t) # {} -> "suppress"
    [] OTHER -> IF Active(t) # {} THEN "skip" ELSE "insert"

\* The rows capture adds, the summary of the run first.
Store(r, s, t, verdict) ==
  CASE verdict = "skip" -> UNCHANGED <<row, next, logged>>
    [] verdict = "suppress" ->
         /\ next \in Ids
         /\ row' = [row EXCEPT ![next] = NewSummary(t, "summary", s, r, NoRow)]
         /\ next' = next + 1
         /\ UNCHANGED logged
    [] verdict = "insert" ->
         /\ next + 1 \in Ids
         /\ row' = [row EXCEPT ![next] = NewSummary(t, "summary", s, r, NoRow),
                               ![next + 1] = NewEntry(t, "autosaved", s, NoRow, TRUE)]
         /\ logged' = Logged(next + 1, row'[next + 1], row'[next + 1])
         /\ next' = next + 2

\* What is left of an execution: its session and what was told before it.
Ended(e, step) == [NotRun EXCEPT !.step = step, !.session = e.session, !.after = e.after]

\* record_recall_event commits the result with it.
RecordRecall(r) ==
  /\ recalls' = recalls \cup {r} \X exec[r].picked
  /\ recent' = recent \cup {r} \X exec[r].picked

\* _persist_result_with_memory_capture of a run that recalled something.
PersistWithRecall(r, t) ==
  /\ exec[r].step = "running"
  /\ exec[r].picked # {}
  /\ RecordRecall(r)
  /\ exec' = [exec EXCEPT ![r].step = "capture", ![r].picked = {}, ![r].text = t]
  /\ UNCHANGED <<row, next, logged, talk, job, requests, crashes>>

\* Nothing was recalled, or the run failed or pauses: one transaction captures as well.
PersistAndCapture(r, t, pause) ==
  /\ exec[r].step = "running"
  /\ pause => Parent[exec[r].session] = NoSession
  /\ Store(r, exec[r].session, t, Verdict(r, t))
  /\ exec' = [exec EXCEPT ![r] = Ended(@, IF pause THEN "paused" ELSE "done")]
  /\ UNCHANGED <<recalls, recent, talk, job, requests, crashes>>

\* persist_execution_result of a resumed run captures nothing.
PersistResumed(r, completed) ==
  /\ exec[r].step = "resumed"
  /\ IF completed THEN RecordRecall(r) ELSE UNCHANGED <<recalls, recent>>
  /\ exec' = [exec EXCEPT ![r] = Ended(@, "done")]
  /\ UNCHANGED <<row, next, logged, talk, job, requests, crashes>>

\* The queries of a capture in a transaction of its own run before it begins.
Look(r) ==
  /\ exec[r].step = "capture"
  /\ exec' = [exec EXCEPT ![r].step = "store", ![r].verdict = Verdict(r, exec[r].text)]
  /\ UNCHANGED <<dbVars, job, requests, crashes>>

Capture(r) ==
  /\ exec[r].step = "store"
  /\ Store(r, exec[r].session, exec[r].text, exec[r].verdict)
  /\ exec' = [exec EXCEPT ![r] = Ended(@, "done")]
  /\ UNCHANGED <<recalls, recent, talk, job, requests, crashes>>

-----------------------------------------------------------------------------
(* The finalization of a delegated run. *)

\* The queries of _capture_terminal_memory, after a finalization that changed the run
\* or found it over.  It names no task run while none is attached: the run is queued, or
\* its worker is about to attach one, or crashed then.  A capture that stops at its
\* queries changes nothing.
Close(c, s, r, t) ==
  /\ closer[c].step = "none"
  /\ Parent[s] # NoSession
  /\ Verdict(r, t) # "skip"
  /\ \/ r \in Attached(s)
     \/ /\ r = NoRun /\ requests < MaxRequests
        /\ \A q \in Attached(s) : exec[q].step \in {"running", "lost"}
  /\ closer' = [closer EXCEPT ![c] =
       [step |-> "store", session |-> s, run |-> r, text |-> t, verdict |-> Verdict(r, t)]]
  /\ requests' = IF r = NoRun THEN requests + 1 ELSE requests
  /\ UNCHANGED <<dbVars, job, exec, crashes>>

\* Its transaction.
CloseStore(c) ==
  /\ closer[c].step = "store"
  /\ Store(closer[c].run, closer[c].session, closer[c].text, closer[c].verdict)
  /\ closer' = [closer EXCEPT ![c] = NotClosing]
  /\ UNCHANGED <<recalls, recent, talk, job, exec, requests, crashes>>

-----------------------------------------------------------------------------
(* Sessions, time and crashes. *)

Reset(s) ==
  /\ Parent[s] = NoSession
  /\ talk[s]
  /\ requests < MaxRequests
  /\ talk' = [talk EXCEPT ![s] = FALSE]
  /\ requests' = requests + 1
  /\ UNCHANGED <<row, next, logged, recalls, recent, job, exec, crashes>>

TwelveHoursPass ==
  /\ recent # {}
  /\ recent' = {}
  /\ UNCHANGED <<row, next, logged, recalls, talk, job, exec, requests, crashes>>

Crash ==
  /\ crashes < MaxCrashes
  /\ job' = [h \in Handlers |-> Idle]
  /\ exec' = [r \in Runs |->
       IF exec[r].step \in {"none", "queued", "paused", "done"} THEN exec[r]
       ELSE Ended(exec[r], "lost")]
  /\ closer' = [c \in Closers |-> NotClosing]
  /\ crashes' = crashes + 1
  /\ UNCHANGED <<dbVars, requests>>

\* A request of the routes.
Request(h) ==
  /\ job[h] = Idle
  /\ requests < MaxRequests
  /\ \/ \E t \in Texts : Create(h, t) \/ Post(h, t) \/ Note(h, t)
     \/ \E i \in Ids, t \in Texts : Edit(h, i, t) \/ Override(h, i, t)
     \/ \E i \in Ids : RestoreItem(h, i) \/ Erase(h, i) \/ \E op \in Changes : Change(h, op, i)

HandlerStep ==
  \E h \in Handlers :
    \/ Request(h)
    \/ Rollback(h) \/ SaveChange(h) \/ Reread(h) \/ Insert(h) \/ Enrich(h)
    \/ SaveOverride(h) \/ SaveErase(h)

ExecutionStep ==
  \E r \in Runs :
    \/ \E s \in Sessions : Accept(r, s) \/ \E query \in Queries : Prepare(r, s, query)
    \/ \E query \in Queries : Claim(r, query) \/ Resume(r, query)
    \/ \E t \in Texts : PersistWithRecall(r, t)
    \/ \E t \in Texts \cup {NoText}, pause \in BOOLEAN : PersistAndCapture(r, t, pause)
    \/ \E completed \in BOOLEAN : PersistResumed(r, completed)
    \/ Look(r) \/ Capture(r)

FinalStep ==
  \E c \in Closers :
    \/ \E s \in Sessions, r \in Runs \cup {NoRun}, t \in Texts : Close(c, s, r, t)
    \/ CloseStore(c)

Step ==
  \/ (HandlerStep \/ ExecutionStep \/ (\E s \in Sessions : Reset(s)) \/ TwelveHoursPass)
       /\ UNCHANGED closer
  \/ FinalStep
  \/ Crash

Begun(x) == IF x \in Runs THEN exec[x].step # "none" ELSE closer[x].step # "none"

\* The automatic summaries of a run.
AutoSummaries(r) == {i \in SummaryOf(r) : row[i].source = "summary"}

\* A capture of the run has found no summary and not written one yet.
Standing(r) ==
  \/ exec[r].step = "store" /\ exec[r].verdict # "skip"
  \/ \E c \in Closers : closer[c].run = r

\* The observer: a text is banned while it has been suppressed since the run began; a
\* run has raced when one of its captures wrote while another stood.
Observe ==
  /\ banned' = [x \in Runs \cup Closers |->
       IF ~Begun(x)' THEN {} ELSE IF ~Begun(x) THEN Suppressed ELSE banned[x] \cap Suppressed']
  /\ raced' = raced \cup {r \in Runs : AutoSummaries(r)' \ AutoSummaries(r) # {} /\ Standing(r)'}

Next == Step /\ Observe

Spec == Init /\ [][Next]_vars

-----------------------------------------------------------------------------
(* Properties. *)

(* What the user hid or deleted before a run began, and did not take back since, *)
(* is not captured again by that run, whatever happens between its commits; nor is *)
(* what was suppressed before the queries of the capture that follows a             *)
(* finalization (capture_execution_result).                                         *)
NoBlindRecapture ==
  [][\A i \in Ids :
       row[i] = Absent /\ row'[i] # Absent /\ row'[i].kind = "entry"
       => /\ \A r \in Runs : exec[r].step \in {"running", "store"} /\ exec'[r] # exec[r]
                                 => row'[i].text \notin banned[r]
          /\ \A c \in Closers : closer'[c] # closer[c] => row'[i].text \notin banned[c]]_vars

(* However often a run is captured, it has one automatic summary; only a delegated *)
(* run may get more, and only when a capture stored one while another, which had    *)
(* found none, had yet to write (get_session_summary_by_task_run: no unique index).  *)
OneSummaryPerRun ==
  \A r \in Runs :
    \/ Cardinality(AutoSummaries(r)) <= 1
    \/ r \in raced /\ Parent[exec[r].session] # NoSession

(* The change log says what an entry is, even when two requests wrote different *)
(* columns of it at the same time (_log_change); of an override it gives only    *)
(* the id, and does not say that the base was hidden.                            *)
LogTellsState ==
  \A i \in {j \in Entries : logged[j] # Absent} :
    logged[i] \in {View(row[i]), [View(row[i]) EXCEPT !.recall = "unsaid"]}

(* A session is not shown the same memory again within twelve hours by a run *)
(* that began after the first one had ended (list_recent_recall_record_ids).  *)
RecalledOnce ==
  \A r1, r2 \in Runs : r1 \in exec[r2].after /\ recent # {} =>
    \A i \in Ids : ~({<<r1, i>>, <<r2, i>>} \subseteq recent)

=============================================================================
