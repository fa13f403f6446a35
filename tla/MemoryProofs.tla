----------------------------- MODULE MemoryProofs -----------------------------
(***************************************************************************)
(* Theorems about Memory, for any rows, texts, sessions, runs and handlers:  *)
(* what the requests of the users and the captures of the executions leave   *)
(* in the database, whatever each had read before the other wrote.           *)
(***************************************************************************)
EXTENDS Memory, FiniteSetTheorems, TLAPS

-----------------------------------------------------------------------------
(* The inductive invariant. *)

\* Ids are used once.
Fresh == \A i \in Ids : i >= next => row[i] = Absent /\ logged[i] = Absent

\* The tables and the change log.
Tables ==
  /\ row \in [Ids -> Row \cup {Absent}]
  /\ next \in 1 .. MaxRows + 1
  /\ logged \in [Ids -> Views \cup {Absent}]
  /\ Fresh
  /\ LogTellsState

Targeted == Changes \cup {"restoreItem", "override", "erase"}

\* What the handler of a request read still says what kind of row it writes.
JobKnows(h) ==
  job[h].step # "idle" =>
    \/ job[h].step = "write" /\ job[h].op \in {"create", "post", "note"} /\ job[h].text \in Texts
    \/ job[h].step = "enrich" /\ job[h].op = "create" /\ job[h].id \in Ids /\ job[h].id < next
    \/ /\ job[h].step \in {"write", "reread"} /\ job[h].op \in Targeted
       /\ job[h].step = "reread" => job[h].op = "restoreItem"
       /\ job[h].id \in Ids /\ job[h].id < next /\ job[h].seen \in Row
       /\ row[job[h].id] # Absent => row[job[h].id].kind = job[h].seen.kind
       /\ job[h].op \in {"edit", "override"} => job[h].text \in Texts
       /\ job[h].seen.kind = "summary" =>
            job[h].op \in {"edit", "hide", "delete", "restore", "override", "erase"}

Jobs == job \in [Handlers -> Job] /\ \A h \in Handlers : JobKnows(h)

\* Row i is the automatic summary of run r.
Automatic(i, r) ==
  row[i] # Absent /\ row[i].kind = "summary" /\ row[i].run = r /\ row[i].source = "summary"

\* While the captures of a run have not raced it has one automatic summary, and none while
\* a capture that found none has yet to write; only delegated runs race.
AutoInv ==
  /\ raced \subseteq Runs
  /\ \A r \in Runs :
       /\ exec[r].step = "store" /\ exec[r].verdict # "skip" => exec[r].text # NoText
       /\ r \in raced => exec[r].step # "none" /\ Parent[exec[r].session] # NoSession
       /\ r \notin raced =>
            /\ \A i, j \in Ids : Automatic(i, r) /\ Automatic(j, r) => i = j
            /\ Standing(r) => \A i \in Ids : ~Automatic(i, r)

\* What a capture after a finalization is about to write, and of which run.
CloserInv ==
  /\ closer \in [Closers -> Closer]
  /\ \A r \in Runs : exec[r].step = "none" => exec[r].session = NoSession
  /\ \A c \in Closers :
       /\ closer[c].step = "none" => closer[c].run = NoRun
       /\ closer[c].step = "store" =>
            /\ closer[c].text \in Texts /\ closer[c].verdict # "skip"
            /\ closer[c].run # NoRun =>
                 /\ exec[closer[c].run].step # "none"
                 /\ Parent[exec[closer[c].run].session] # NoSession

\* A run tells what it recalled once, and what an earlier one told is not among it.
Untold == {"none", "queued", "running", "paused", "resumed"}

RecallInv ==
  /\ exec \in [Runs -> Exec]
  /\ recalls \subseteq RecallLog
  /\ recent \subseteq recalls
  /\ \A r \in Runs, i \in Ids : <<r, i>> \in recalls => exec[r].step \notin Untold
  /\ \A r, q \in Runs : q \in exec[r].after =>
       /\ q # r
       /\ exec[q].step \notin Untold
       /\ \A i \in Ids : /\ i \in exec[r].picked => <<q, i>> \notin recent
                         /\ <<r, i>> \in recent => <<q, i>> \notin recent

\* What is banned is still suppressed, and no capture has decided to insert it.
BannedInv ==
  /\ \A x \in Runs \cup Closers : banned[x] \subseteq Suppressed
  /\ \A r \in Runs :
       exec[r].step = "store" /\ exec[r].verdict = "insert" => exec[r].text \notin banned[r]
  /\ \A c \in Closers :
       closer[c].step = "store" /\ closer[c].verdict = "insert" => closer[c].text \notin banned[c]

Counters ==
  /\ talk \in [Sessions -> BOOLEAN]
  /\ banned \in [Runs \cup Closers -> SUBSET Texts]
  /\ requests \in 0 .. MaxRequests /\ crashes \in 0 .. MaxCrashes

MemoryInv == Tables /\ Jobs /\ AutoInv /\ CloserInv /\ RecallInv /\ BannedInv /\ Counters

-----------------------------------------------------------------------------
(* The tables. *)

\* A write keeps of every row what decides whose it is, and adds rows behind the last.
Evolves ==
  /\ next <= next'
  /\ \A i \in Ids : i < next =>
       \/ row'[i] = Absent
       \/ /\ row[i] # Absent
          /\ row'[i].kind = row[i].kind
          /\ row[i].kind = "summary" =>
               row'[i].run = row[i].run /\ row'[i].source = row[i].source

\* None of the rows added is the automatic summary of a run.
NoneAutomatic == \A i \in Ids, r \in Runs : i >= next => ~Automatic(i, r)'

LEMMA RowKinds ==
  ASSUME NEW e \in Row
  PROVE  /\ e.kind \in {"entry", "summary"}
         /\ e.kind = "entry" => e \in EntryRow
         /\ e.kind = "summary" => e \in SummaryRow
BY DEF Row, EntryRow, SummaryRow

LEMMA ViewOfEntry ==
  ASSUME NEW e \in EntryRow
  PROVE  View(e) \in Views /\ [View(e) EXCEPT !.recall = "unsaid"] \in Views
BY DEF EntryRow, View, Views

\* The columns a request may change stay within their types, and those that say whose
\* row it is are not among them.
LEMMA AssignedColumns ==
  ASSUME NEW e \in Row, NEW op \in Changes \cup {"restoreItem"}, NEW t,
         op = "edit" => t \in Texts,
         e.kind = "summary" => op \in {"edit", "hide", "delete", "restore"}
  PROVE  LET new == Assigned(op, e, t) IN
         /\ new.text \in Texts /\ new.hidden \in BOOLEAN /\ new.deleted \in BOOLEAN
         /\ e.kind = "entry" =>
              new.source \in Sources \ {"summary"} /\ new.scope \in {"stable", "episodic"}
         /\ e.kind = "summary" => new.source = e.source /\ new.scope = e.scope
<1> DEFINE new == Assigned(op, e, t)
<1>0. e.kind \in {"entry", "summary"} /\ (e.kind = "entry" => e \in EntryRow) /\ (e.kind = "summary" => e \in SummaryRow)
  BY RowKinds
<1>1. CASE op = "edit"
  <2>1. new = Edited(e, t)
    BY <1>1 DEF Assigned
  <2> QED
    BY <1>0, <1>1, <2>1 DEF Edited, EntryRow, SummaryRow, Sources, Managed
<1>2. CASE op \in {"hide", "unhide"}
  <2>1. new = Toggled(e, op = "hide")
    BY <1>2 DEF Assigned
  <2> QED
    BY <1>0, <2>1 DEF Toggled, EntryRow, SummaryRow
<1>3. CASE op = "promote"
  <2>1. new = Promoted(e) /\ e.kind = "entry"
    BY <1>0, <1>3 DEF Assigned
  <2> QED
    BY <1>0, <2>1 DEF Promoted, EntryRow, Sources
<1>4. CASE op = "demote"
  <2>1. new = Demoted(e) /\ e.kind = "entry"
    BY <1>0, <1>4 DEF Assigned
  <2> QED
    BY <1>0, <2>1 DEF Demoted, EntryRow, Sources
<1>5. CASE op = "delete"
  <2>1. new = Deleted(e)
    BY <1>5 DEF Assigned
  <2> QED
    BY <1>0, <2>1 DEF Deleted, EntryRow, SummaryRow
<1>6. CASE op \in {"restore", "restoreItem"}
  <2>1. new = Restored(e)
    BY <1>6 DEF Assigned
  <2> QED
    BY <1>0, <2>1 DEF Restored, EntryRow, SummaryRow
<1> QED
  BY <1>1, <1>2, <1>3, <1>4, <1>5, <1>6 DEF Changes

LEMMA MergedRow ==
  ASSUME NEW now \in Row, NEW seen \in Row, NEW new, now.kind = seen.kind,
         new.text \in Texts, new.hidden \in BOOLEAN, new.deleted \in BOOLEAN,
         seen.kind = "entry" =>
           new.source \in Sources \ {"summary"} /\ new.scope \in {"stable", "episodic"},
         seen.kind = "summary" => new.source = seen.source /\ new.scope = seen.scope
  PROVE  /\ Merged(now, seen, new) \in Row
         /\ Merged(now, seen, new).kind = now.kind
         /\ Merged(now, seen, new).run = now.run
         /\ now.kind = "summary" => Merged(now, seen, new).source = now.source
<1> DEFINE text == Written(now.text, seen.text, new.text)
           source == Written(now.source, seen.source, new.source)
           scope == Written(now.scope, seen.scope, new.scope)
           hidden == Written(now.hidden, seen.hidden, new.hidden)
           deleted == Written(now.deleted, seen.deleted, new.deleted)
<1>1. /\ Merged(now, seen, new) =
           [now EXCEPT !.text = text, !.source = source, !.scope = scope, !.hidden = hidden, !.deleted = deleted]
      /\ text \in Texts /\ hidden \in BOOLEAN /\ deleted \in BOOLEAN
      /\ now.kind = "entry" =>
           source \in Sources \ {"summary"} /\ scope \in {"stable", "episodic"}
      /\ now.kind = "summary" => source = now.source /\ scope = now.scope
  BY RowKinds DEF Merged, Written, EntryRow, SummaryRow
<1> HIDE DEF text, source, scope, hidden, deleted
<1>2. CASE now.kind = "entry"
  <2>1. now \in EntryRow
    BY <1>2, RowKinds
  <2>2. Merged(now, seen, new) \in EntryRow
    BY <1>1, <1>2, <2>1 DEF EntryRow
  <2> QED
    BY <1>1, <1>2, <2>1, <2>2 DEF Row, EntryRow
<1>3. CASE now.kind = "summary"
  <2>1. now \in SummaryRow
    BY <1>3, RowKinds
  <2>2. Merged(now, seen, new) \in SummaryRow
    BY <1>1, <1>3, <2>1 DEF SummaryRow
  <2> QED
    BY <1>1, <1>3, <2>1, <2>2 DEF Row, SummaryRow
<1> QED
  BY <1>2, <1>3, RowKinds

LEMMA NewRows ==
  ASSUME NEW t \in Texts
  PROVE  /\ \A source \in Sources \ {"summary"}, s \in Sessions \cup {NoSession},
               target \in Ids \cup {NoRow}, shared \in BOOLEAN :
              NewEntry(t, source, s, target, shared) \in EntryRow
         /\ \A source \in {"summary", "manual"}, s \in Sessions \cup {NoSession},
               r \in Runs \cup {NoRun}, target \in Ids \cup {NoRow} :
              NewSummary(t, source, s, r, target) \in SummaryRow
BY DEF NewEntry, NewSummary, EntryRow, SummaryRow

-----------------------------------------------------------------------------
(* What each write does to the tables. *)

\* A row that is there is replaced by one of its kind.
LEMMA Replace ==
  ASSUME Tables, NEW i \in Ids, row[i] # Absent, NEW e \in Row,
         e.kind = row[i].kind,
         e.kind = "summary" => e.run = row[i].run /\ e.source = row[i].source,
         row' = [row EXCEPT ![i] = e], next' = next,
         \/ logged' = Logged(i, e, e)
         \/ logged' = logged /\ (e.kind = "entry" => View(e) = View(row[i]))
  PROVE  Tables' /\ Evolves /\ NoneAutomatic
<1>1. /\ row \in [Ids -> Row \cup {Absent}] /\ logged \in [Ids -> Views \cup {Absent}]
      /\ next \in 1 .. MaxRows + 1 /\ next' \in 1 .. MaxRows + 1
      /\ \A j \in Ids : j >= next => row[j] = Absent /\ logged[j] = Absent
      /\ i < next /\ Ids = 1 .. MaxRows /\ MaxRows \in Nat
  BY ConstantsAssumption DEF Tables, Fresh, Ids
<1>2. e.kind \in {"entry", "summary"} /\ (e.kind = "entry" => View(e) \in Views)
  BY RowKinds, ViewOfEntry
<1>3. row' \in [Ids -> Row \cup {Absent}] /\ row'[i] = e /\ \A j \in Ids \ {i} : row'[j] = row[j]
  BY <1>1
<1>4. /\ logged' \in [Ids -> Views \cup {Absent}] /\ \A j \in Ids \ {i} : logged'[j] = logged[j]
      /\ e.kind = "entry" => logged'[i] = View(e) \/ (logged'[i] = logged[i] /\ View(e) = View(row[i]))
  BY <1>1, <1>2 DEF Logged
<1>5. Fresh'
  BY <1>1, <1>3, <1>4 DEF Fresh
<1>6. LogTellsState'
  BY <1>1, <1>3, <1>4 DEF Tables, LogTellsState, Entries
<1>7. Evolves
  BY <1>1, <1>3 DEF Evolves
<1>8. NoneAutomatic
  BY <1>1, <1>3 DEF NoneAutomatic, Automatic
<1> QED
  BY <1>1, <1>3, <1>4, <1>5, <1>6, <1>7, <1>8 DEF Tables

\* A row is added at the next id.
LEMMA Add ==
  ASSUME Tables, next \in Ids, NEW e \in Row,
         row' = [row EXCEPT ![next] = e], next' = next + 1,
         logged' = Logged(next, e, e) \/ logged' = logged
  PROVE  /\ Tables' /\ Evolves
         /\ \A i \in Ids, r \in Runs : i >= next /\ Automatic(i, r)' =>
              i = next /\ e.kind = "summary" /\ e.run = r /\ e.source = "summary"
<1>1. /\ row \in [Ids -> Row \cup {Absent}] /\ logged \in [Ids -> Views \cup {Absent}]
      /\ next \in 1 .. MaxRows + 1 /\ next' \in 1 .. MaxRows + 1
      /\ \A j \in Ids : j >= next => row[j] = Absent /\ logged[j] = Absent
      /\ Ids = 1 .. MaxRows /\ MaxRows \in Nat
  BY ConstantsAssumption DEF Tables, Fresh, Ids
<1>2. e.kind \in {"entry", "summary"} /\ (e.kind = "entry" => View(e) \in Views)
  BY RowKinds, ViewOfEntry
<1>3. row' \in [Ids -> Row \cup {Absent}] /\ row'[next] = e /\ \A j \in Ids \ {next} : row'[j] = row[j]
  BY <1>1
<1>4. /\ logged' \in [Ids -> Views \cup {Absent}] /\ \A j \in Ids \ {next} : logged'[j] = logged[j]
      /\ logged'[next] = Absent \/ (e.kind = "entry" /\ logged'[next] = View(e))
  BY <1>1, <1>2 DEF Logged
<1>5. Fresh'
  BY <1>1, <1>3, <1>4 DEF Fresh
<1>6. LogTellsState'
  BY <1>1, <1>3, <1>4 DEF Tables, LogTellsState, Entries
<1>7. Evolves
  BY <1>1, <1>3 DEF Evolves
<1>8. \A i \in Ids, r \in Runs : i >= next /\ Automatic(i, r)' =>
        i = next /\ e.kind = "summary" /\ e.run = r /\ e.source = "summary"
  BY <1>1, <1>3 DEF Automatic
<1> QED
  BY <1>1, <1>3, <1>4, <1>5, <1>6, <1>7, <1>8 DEF Tables

LEMMA SameTables ==
  ASSUME Tables, UNCHANGED <<row, next, logged>>
  PROVE  Tables' /\ Evolves /\ NoneAutomatic
<1>1. Tables'
  BY DEF Tables, Fresh, LogTellsState, Entries
<1>2. next \in Nat /\ Ids \subseteq Nat
  BY ConstantsAssumption DEF Tables, Ids
<1>3. Evolves
  BY <1>2 DEF Evolves
<1>4. NoneAutomatic
  BY DEF NoneAutomatic, Automatic, Tables, Fresh
<1> QED
  BY <1>1, <1>3, <1>4

\* What the handler of a request that changes a row knows.
LEMMA ChangeKnows ==
  ASSUME NEW h \in Handlers, Tables, Jobs,
         job[h].step = "reread" \/ (job[h].step = "write" /\ job[h].op \in Targeted)
  PROVE  /\ job[h].id \in Ids /\ job[h].id < next /\ job[h].seen \in Row
         /\ row[job[h].id] \in Row \cup {Absent}
         /\ row[job[h].id] # Absent => row[job[h].id] \in Row /\ row[job[h].id].kind = job[h].seen.kind
         /\ job[h].op \in {"edit", "override"} => job[h].text \in Texts
         /\ job[h].seen.kind = "summary" =>
              job[h].op \in {"edit", "hide", "delete", "restore", "override", "erase"}
<1>1. /\ JobKnows(h) /\ job[h].step # "idle" /\ job[h].step # "enrich"
      /\ job[h].step = "reread" \/ job[h].op \notin {"create", "post", "note"}
  BY DEF Jobs, Targeted, Changes
<1> QED
  BY <1>1 DEF JobKnows, Tables

LEMMA SaveChangeTables ==
  ASSUME NEW h \in Handlers, Tables, Jobs, SaveChange(h)
  PROVE  Tables' /\ Evolves /\ NoneAutomatic
<1> DEFINE i == job[h].id
           seen == job[h].seen
           op == job[h].op
           new == Assigned(op, seen, job[h].text)
           m == Merged(row[i], seen, new)
           e == [m EXCEPT !.deleted = @ \/ op = "delete"]
<1>1. /\ job[h].step = "write" /\ op \in Changes \cup {"restoreItem"} /\ row[i] # Absent
      /\ row' = [row EXCEPT ![i] = e] /\ logged' = Logged(i, e, new) /\ next' = next
  BY DEF SaveChange
<1>2. op \in Targeted /\ op \notin {"override", "erase"}
  BY <1>1 DEF Targeted, Changes
<1>3. /\ i \in Ids /\ seen \in Row /\ row[i] \in Row /\ row[i].kind = seen.kind
      /\ op = "edit" => job[h].text \in Texts
      /\ seen.kind = "summary" => op \in {"edit", "hide", "delete", "restore"}
  BY <1>1, <1>2, ChangeKnows
<1>4. /\ new.text \in Texts /\ new.hidden \in BOOLEAN /\ new.deleted \in BOOLEAN
      /\ seen.kind = "entry" =>
           new.source \in Sources \ {"summary"} /\ new.scope \in {"stable", "episodic"}
      /\ seen.kind = "summary" => new.source = seen.source /\ new.scope = seen.scope
  BY <1>1, <1>3, AssignedColumns
<1> HIDE DEF new
<1>5. /\ m \in Row /\ m.kind = row[i].kind /\ m.run = row[i].run
      /\ row[i].kind = "summary" => m.source = row[i].source
  BY <1>3, <1>4, MergedRow
<1>6. logged' = Logged(i, e, e)
  BY <1>1 DEF Logged
<1> HIDE DEF m
<1>7. e \in Row /\ e.kind = m.kind /\ e.run = m.run /\ e.source = m.source
  <2>1. CASE m.kind = "entry"
    BY <1>5, <2>1, RowKinds DEF Row, EntryRow
  <2>2. CASE m.kind = "summary"
    BY <1>5, <2>2, RowKinds DEF Row, SummaryRow
  <2> QED
    BY <1>5, <2>1, <2>2, RowKinds
<1> HIDE DEF e, i
<1> QED
  BY <1>1, <1>3, <1>5, <1>6, <1>7, Replace

LEMMA EnrichTables ==
  ASSUME NEW h \in Handlers, Tables, Jobs, Enrich(h)
  PROVE  Tables' /\ Evolves /\ NoneAutomatic
<1> DEFINE i == job[h].id
           e == [row[i] EXCEPT !.shared = TRUE]
<1>1. /\ job[h].step = "enrich" /\ row[i] # Absent
      /\ row' = [row EXCEPT ![i].shared = TRUE] /\ logged' = logged /\ next' = next
  BY DEF Enrich
<1>2. i \in Ids /\ row[i] \in Row /\ row \in [Ids -> Row \cup {Absent}]
  <2>1. JobKnows(h)
    BY DEF Jobs
  <2> QED
    BY <1>1, <2>1 DEF JobKnows, Tables
<1>3. row' = [row EXCEPT ![i] = e]
  BY <1>1, <1>2
<1>4. /\ e \in Row /\ e.kind = row[i].kind /\ e.run = row[i].run /\ e.source = row[i].source
      /\ e.kind = "entry" => View(e) = View(row[i])
  <2>1. CASE row[i].kind = "entry"
    BY <1>2, <2>1, RowKinds DEF Row, EntryRow, View
  <2>2. CASE row[i].kind = "summary"
    BY <1>2, <2>2, RowKinds DEF Row, SummaryRow
  <2> QED
    BY <1>2, <2>1, <2>2, RowKinds
<1> HIDE DEF e, i
<1> QED
  BY <1>1, <1>2, <1>3, <1>4, Replace

LEMMA InsertTables ==
  ASSUME NEW h \in Handlers, Tables, Jobs, Insert(h)
  PROVE  Tables' /\ Evolves /\ NoneAutomatic
<1> DEFINE t == job[h].text
           e == IF job[h].op = "note" THEN NewSummary(t, "manual", NoSession, NoRun, NoRow)
                ELSE NewEntry(t, "manual", NoSession, NoRow, FALSE)
<1>1. /\ job[h].step = "write" /\ job[h].op \in {"create", "post", "note"} /\ next \in Ids
      /\ row' = [row EXCEPT ![next] = e] /\ logged' = Logged(next, row'[next], row'[next])
      /\ next' = next + 1
  BY DEF Insert
<1>2. t \in Texts
  <2>1. JobKnows(h)
    BY DEF Jobs
  <2> QED
    BY <1>1, <2>1 DEF JobKnows, Targeted, Changes
<1>3. e \in Row /\ e.source = "manual"
  <2>1. NewSummary(t, "manual", NoSession, NoRun, NoRow) \in SummaryRow
    BY <1>2, NewRows
  <2>2. NewEntry(t, "manual", NoSession, NoRow, FALSE) \in EntryRow
    BY <1>2, NewRows DEF Sources
  <2> QED
    BY <2>1, <2>2 DEF Row, NewSummary, NewEntry
<1>4. row'[next] = e
  BY <1>1 DEF Tables
<1> HIDE DEF e, t
<1>5. /\ Tables' /\ Evolves
      /\ \A i \in Ids, r \in Runs : i >= next /\ Automatic(i, r)' => e.source = "summary"
  BY <1>1, <1>3, <1>4, Add
<1> QED
  BY <1>3, <1>5 DEF NoneAutomatic

LEMMA EraseTables ==
  ASSUME NEW h \in Handlers, Tables, Jobs, SaveErase(h)
  PROVE  Tables' /\ Evolves /\ NoneAutomatic
<1>1. /\ row' = [row EXCEPT ![job[h].id] = Absent] /\ UNCHANGED <<next, logged>>
      /\ row \in [Ids -> Row \cup {Absent}] /\ next \in Nat /\ Ids \subseteq Nat
  BY ConstantsAssumption DEF SaveErase, Tables, Ids
<1>2. \A j \in Ids : row'[j] = row[j] \/ row'[j] = Absent
  BY <1>1
<1>3. Tables'
  BY <1>1, <1>2 DEF Tables, Fresh, LogTellsState, Entries
<1>4. Evolves
  BY <1>1, <1>2 DEF Evolves
<1>5. NoneAutomatic
  BY <1>1, <1>2 DEF NoneAutomatic, Automatic, Tables, Fresh
<1> QED
  BY <1>3, <1>4, <1>5

\* The base of an override is hidden whatever the handler read; the log does not say it.
LEMMA OverrideTables ==
  ASSUME NEW h \in Handlers, Tables, Jobs, SaveOverride(h)
  PROVE  Tables' /\ Evolves /\ NoneAutomatic
<1> DEFINE i == job[h].id
           seen == job[h].seen
           now == row[i]
           base == Merged(now, seen, [seen EXCEPT !.hidden = TRUE])
           e == OverrideOf(i, seen, job[h].text)
<1>1. /\ job[h].step = "write" /\ job[h].op = "override" /\ now # Absent /\ next \in Ids
      /\ row' = [row EXCEPT ![i] = base, ![next] = e]
      /\ logged' = OverrideLogged(i, seen) /\ next' = next + 1
  BY DEF SaveOverride
<1>2. /\ i \in Ids /\ i < next /\ seen \in Row /\ now \in Row /\ now.kind = seen.kind
      /\ job[h].text \in Texts
  <2>1. job[h].op \in Targeted
    BY <1>1 DEF Targeted
  <2> QED
    BY <1>1, <2>1, ChangeKnows
<1>a. now = row[i]
  OBVIOUS
<1> HIDE DEF seen, now, i
<1>3. /\ base \in Row /\ base.kind = now.kind /\ base.run = now.run
      /\ now.kind = "summary" => base.source = now.source
      /\ now.kind = "entry" => [View(base) EXCEPT !.recall = "unsaid"] = [View(now) EXCEPT !.recall = "unsaid"]
  <2> DEFINE new == [seen EXCEPT !.hidden = TRUE]
  <2>1. /\ new.text = seen.text /\ new.source = seen.source /\ new.scope = seen.scope
        /\ new.hidden = TRUE /\ new.deleted = seen.deleted
        /\ seen.text \in Texts /\ seen.deleted \in BOOLEAN
        /\ seen.kind = "entry" =>
             seen.source \in Sources \ {"summary"} /\ seen.scope \in {"stable", "episodic"}
    BY <1>2 DEF Row, EntryRow, SummaryRow
  <2> HIDE DEF new
  <2>2. /\ Merged(now, seen, new) \in Row /\ Merged(now, seen, new).kind = now.kind
        /\ Merged(now, seen, new).run = now.run
        /\ now.kind = "summary" => Merged(now, seen, new).source = now.source
    BY <1>2, <2>1, MergedRow
  <2>3. Merged(now, seen, new) = [now EXCEPT !.hidden = Written(now.hidden, seen.hidden, TRUE)]
    BY <1>2, <2>1 DEF Merged, Written, Row, EntryRow, SummaryRow
  <2>4. now.kind = "entry" =>
          [View(Merged(now, seen, new)) EXCEPT !.recall = "unsaid"] = [View(now) EXCEPT !.recall = "unsaid"]
    BY <1>2, <2>3, RowKinds DEF View, EntryRow
  <2> QED
    BY <2>2, <2>4 DEF new
<1> HIDE DEF base
<1>4. e \in Row /\ e.source = "manual" /\ e.kind = seen.kind
  <2>1. CASE seen.kind = "entry"
    BY <1>2, <2>1, RowKinds DEF OverrideOf, Row, EntryRow, Sources
  <2>2. CASE seen.kind = "summary"
    BY <1>2, <2>2, RowKinds DEF OverrideOf, Row, SummaryRow
  <2> QED
    BY <1>2, <2>1, <2>2, RowKinds
<1> HIDE DEF e
<1>5. /\ row \in [Ids -> Row \cup {Absent}] /\ logged \in [Ids -> Views \cup {Absent}]
      /\ next \in 1 .. MaxRows + 1 /\ next' \in 1 .. MaxRows + 1
      /\ \A j \in Ids : j >= next => row[j] = Absent /\ logged[j] = Absent
      /\ Ids = 1 .. MaxRows /\ MaxRows \in Nat
  BY <1>1, ConstantsAssumption DEF Tables, Fresh, Ids
<1>6. /\ row' \in [Ids -> Row \cup {Absent}] /\ row'[i] = base /\ row'[next] = e
      /\ \A j \in Ids \ {i, next} : row'[j] = row[j]
  <2>1. i # next
    BY <1>2, <1>5
  <2> QED
    BY <1>1, <1>2, <1>3, <1>4, <1>5, <2>1
<1>8. \A j \in Ids \ {i} : logged'[j] = logged[j]
  BY <1>1, <1>5 DEF OverrideLogged
<1>9. /\ logged' \in [Ids -> Views \cup {Absent}]
      /\ base.kind = "entry" => logged'[i] = Absent \/ logged'[i] = [View(base) EXCEPT !.recall = "unsaid"]
  <2>1. CASE seen.kind = "summary" \/ logged[i] = Absent
    BY <1>1, <1>2, <1>3, <1>5, <2>1 DEF OverrideLogged
  <2>2. CASE seen.kind # "summary" /\ logged[i] # Absent
    <3>1. now.kind = "entry" /\ now \in EntryRow
      BY <1>2, <2>2, RowKinds
    <3>2. logged[i] = View(now) \/ logged[i] = [View(now) EXCEPT !.recall = "unsaid"]
      BY <1>1, <1>2, <1>a, <2>2, <3>1 DEF Tables, LogTellsState, Entries
    <3>3. [logged[i] EXCEPT !.recall = "unsaid"] = [View(now) EXCEPT !.recall = "unsaid"]
      BY <3>2 DEF View
    <3>4. [View(now) EXCEPT !.recall = "unsaid"] \in Views
      BY <3>1, ViewOfEntry
    <3>5. logged' = [logged EXCEPT ![i] = [logged[i] EXCEPT !.recall = "unsaid"]]
      BY <1>1, <2>2 DEF OverrideLogged
    <3> QED
      BY <1>2, <1>3, <1>5, <3>1, <3>3, <3>4, <3>5
  <2> QED
    BY <2>1, <2>2
<1>10. Fresh'
  BY <1>1, <1>2, <1>5, <1>6, <1>8 DEF Fresh
<1>11. LogTellsState'
  BY <1>5, <1>6, <1>8, <1>9 DEF Tables, LogTellsState, Entries
<1>12. Evolves
  BY <1>1, <1>3, <1>5, <1>6, <1>a DEF Evolves
<1>13. NoneAutomatic
  BY <1>2, <1>4, <1>5, <1>6 DEF NoneAutomatic, Automatic
<1> QED
  BY <1>5, <1>6, <1>9, <1>10, <1>11, <1>12, <1>13 DEF Tables

\* The summary of a conversation is not that of a run; no entry is touched.
LEMMA RefreshTables ==
  ASSUME NEW s \in Sessions \cup {NoSession}, Tables, Refresh(s), logged' = logged
  PROVE  /\ Tables' /\ Evolves /\ NoneAutomatic
         /\ Suppressed' = Suppressed
<1>1. /\ row \in [Ids -> Row \cup {Absent}] /\ next \in Nat
      /\ \A j \in Ids : j >= next => row[j] = Absent
  BY DEF Tables, Fresh
<1>2. CASE next \in Ids /\ next' = next + 1
             /\ \E t \in Texts : row' = [row EXCEPT ![next] = NewSummary(t, "summary", s, NoRun, NoRow)]
  <2>1. PICK t \in Texts : /\ next \in Ids /\ next' = next + 1
                           /\ row' = [row EXCEPT ![next] = NewSummary(t, "summary", s, NoRun, NoRow)]
    BY <1>2
  <2> DEFINE e == NewSummary(t, "summary", s, NoRun, NoRow)
  <2>2. e \in Row /\ e.run = NoRun /\ e.kind = "summary"
    BY NewRows DEF Row, NewSummary
  <2> HIDE DEF e
  <2>3. /\ Tables' /\ Evolves
        /\ \A i \in Ids, r \in Runs : i >= next /\ Automatic(i, r)' => e.run = r
    BY <2>1, <2>2, Add DEF e
  <2>4. row'[next] = e /\ \A j \in Ids \ {next} : row'[j] = row[j]
    BY <1>1, <2>1 DEF e
  <2>5. \A j \in Ids : j \in Entries' <=> j \in Entries
    BY <1>1, <2>1, <2>2, <2>4 DEF Entries
  <2>6. Entries' = Entries /\ \A j \in Entries : row'[j] = row[j]
    BY <1>1, <2>1, <2>4, <2>5 DEF Entries
  <2>7. Suppressed' = Suppressed
    BY <2>6 DEF Suppressed
  <2> QED
    BY <2>2, <2>3, <2>7, ConstantsAssumption DEF NoneAutomatic
<1>3. CASE next' = next /\ row' = row
  BY <1>3, SameTables DEF Suppressed, Entries
<1>4. ASSUME NEW i \in ConversationSummary(s), NEW t \in Texts, next' = next,
             row' = [row EXCEPT ![i] = IF talk[s]
               THEN [@ EXCEPT !.text = t, !.hidden = FALSE, !.deleted = FALSE]
               ELSE [@ EXCEPT !.hidden = TRUE, !.deleted = TRUE]]
      PROVE  Tables' /\ Evolves /\ NoneAutomatic /\ Suppressed' = Suppressed
  <2> DEFINE e == IF talk[s] THEN [row[i] EXCEPT !.text = t, !.hidden = FALSE, !.deleted = FALSE]
                  ELSE [row[i] EXCEPT !.hidden = TRUE, !.deleted = TRUE]
  <2>0. i \in Ids /\ row[i] # Absent /\ row[i].kind = "summary" /\ row[i] \in SummaryRow
    BY <1>1, RowKinds DEF ConversationSummary, Summaries
  <2>a. e \in SummaryRow /\ e.kind = "summary" /\ e.run = row[i].run /\ e.source = row[i].source
    BY <2>0 DEF SummaryRow
  <2>b. row' = [row EXCEPT ![i] = e]
    BY <1>4, <2>0
  <2> HIDE DEF e
  <2>1. next' = next /\ row' \in [Ids -> Row \cup {Absent}]
        /\ \A j \in Ids : \/ row'[j] = row[j]
                          \/ /\ row[j] # Absent /\ row[j].kind = "summary" /\ row'[j] \in Row
                             /\ row'[j].kind = "summary" /\ row'[j].run = row[j].run
                             /\ row'[j].source = row[j].source
    BY <1>1, <1>4, <2>0, <2>a, <2>b DEF Row
  <2>2. Fresh'
    BY <1>1, <2>1 DEF Fresh, Tables
  <2>3. Entries' = Entries /\ \A j \in Entries : row'[j] = row[j]
    BY <1>1, <2>1 DEF Entries
  <2>4. LogTellsState' /\ Suppressed' = Suppressed
    BY <2>3 DEF Tables, LogTellsState, Suppressed, Entries
  <2>5. Evolves
    BY <1>1, <2>1 DEF Evolves
  <2>6. NoneAutomatic
    BY <1>1, <2>1 DEF NoneAutomatic, Automatic
  <2> QED
    BY <2>1, <2>2, <2>4, <2>5, <2>6 DEF Tables
<1> QED
  BY <1>2, <1>3, <1>4 DEF Refresh

\* What a capture adds: the automatic summary of its run, and an entry if it inserts.
LEMMA StoreTables ==
  ASSUME NEW r \in Runs \cup {NoRun}, NEW s \in Sessions \cup {NoSession}, NEW t,
         NEW verdict \in Verdicts, Tables, Store(r, s, t, verdict), verdict # "skip" => t \in Texts
  PROVE  /\ Tables' /\ Evolves
         /\ \A i \in Ids, q \in Runs : i >= next /\ Automatic(i, q)' => i = next /\ q = r /\ verdict # "skip"
         /\ \A i \in Ids : row[i] = Absent /\ row'[i] # Absent /\ row'[i].kind = "entry" =>
              verdict = "insert" /\ row'[i].text = t
<1>1. /\ row \in [Ids -> Row \cup {Absent}] /\ logged \in [Ids -> Views \cup {Absent}]
      /\ next \in 1 .. MaxRows + 1
      /\ \A j \in Ids : j >= next => row[j] = Absent /\ logged[j] = Absent
      /\ Ids = 1 .. MaxRows /\ MaxRows \in Nat
  BY ConstantsAssumption DEF Tables, Fresh, Ids
<1>2. CASE verdict = "skip"
  <2>1. UNCHANGED <<row, next, logged>>
    BY <1>2 DEF Store
  <2> QED
    BY <2>1, SameTables DEF NoneAutomatic
<1>3. CASE verdict = "suppress"
  <2> DEFINE e == NewSummary(t, "summary", s, r, NoRow)
  <2>1. /\ next \in Ids /\ row' = [row EXCEPT ![next] = e] /\ next' = next + 1 /\ logged' = logged
    BY <1>3 DEF Store
  <2>2. e \in Row /\ e.run = r /\ e.kind = "summary"
    BY <1>3, NewRows DEF Row, NewSummary
  <2> HIDE DEF e
  <2>3. /\ Tables' /\ Evolves
        /\ \A i \in Ids, q \in Runs : i >= next /\ Automatic(i, q)' => i = next /\ e.run = q
    BY <2>1, <2>2, Add
  <2>4. \A i \in Ids : row[i] = Absent /\ row'[i] # Absent => row'[i].kind = "summary"
    BY <1>1, <2>1, <2>2
  <2> QED
    BY <1>3, <2>2, <2>3, <2>4
<1>4. CASE verdict = "insert"
  <2> DEFINE e == NewSummary(t, "summary", s, r, NoRow)
             f == NewEntry(t, "autosaved", s, NoRow, TRUE)
  <2>1. /\ next + 1 \in Ids /\ row' = [row EXCEPT ![next] = e, ![next + 1] = f] /\ next' = next + 2
        /\ logged' = Logged(next + 1, row'[next + 1], row'[next + 1])
    BY <1>4 DEF Store
  <2>2. /\ e \in Row /\ e.run = r /\ e.kind = "summary"
        /\ f \in Row /\ f \in EntryRow /\ f.kind = "entry" /\ f.text = t
    BY <1>4, NewRows DEF Row, NewSummary, NewEntry, Sources
  <2> HIDE DEF e, f
  <2>3. /\ row' \in [Ids -> Row \cup {Absent}] /\ row'[next] = e /\ row'[next + 1] = f
        /\ \A j \in Ids \ {next, next + 1} : row'[j] = row[j]
    BY <1>1, <2>1, <2>2
  <2>4. /\ logged' \in [Ids -> Views \cup {Absent}] /\ logged'[next + 1] = View(f)
        /\ \A j \in Ids \ {next + 1} : logged'[j] = logged[j]
    BY <1>1, <2>1, <2>2, <2>3, ViewOfEntry DEF Logged
  <2>5. Fresh' /\ next' \in 1 .. MaxRows + 1
    BY <1>1, <2>1, <2>3, <2>4 DEF Fresh
  <2>6. LogTellsState'
    <3>1. next \in Ids /\ next + 1 # next /\ row'[next].kind = "summary"
      BY <1>1, <2>1, <2>2, <2>3
    <3>2. \A j \in Ids \ {next, next + 1} : row'[j] = row[j] /\ logged'[j] = logged[j]
      BY <2>3, <2>4
    <3> QED
      BY <2>3, <2>4, <3>1, <3>2 DEF Tables, LogTellsState, Entries
  <2>7. Evolves
    BY <1>1, <2>1, <2>3 DEF Evolves
  <2>8. \A i \in Ids, q \in Runs : i >= next /\ Automatic(i, q)' => i = next /\ q = r
    BY <1>1, <2>2, <2>3 DEF Automatic
  <2>9. \A i \in Ids : row[i] = Absent /\ row'[i] # Absent /\ row'[i].kind = "entry" => row'[i].text = t
    BY <2>2, <2>3
  <2> QED
    BY <1>4, <2>3, <2>4, <2>5, <2>6, <2>7, <2>8, <2>9 DEF Tables
<1> QED
  BY <1>2, <1>3, <1>4 DEF Verdicts

-----------------------------------------------------------------------------
(* What the handlers know while the tables evolve. *)

LEMMA RowStays ==
  ASSUME Tables, Tables', Evolves, NEW i \in Ids, i < next
  PROVE  /\ i < next'
         /\ row'[i] # Absent => row[i] # Absent /\ row'[i].kind = row[i].kind
<1>1. next \in Nat /\ next' \in Nat /\ i \in Nat /\ next <= next'
  BY ConstantsAssumption DEF Tables, Ids, Evolves
<1>2. i < next'
  BY <1>1
<1> QED
  BY <1>2 DEF Evolves

LEMMA JobsFollow ==
  ASSUME Tables, Tables', Jobs, Evolves, job' \in [Handlers -> Job],
         \A h \in Handlers : job'[h] \in {job[h], Idle} \/ JobKnows(h)'
  PROVE  Jobs'
<1> SUFFICES ASSUME NEW h \in Handlers PROVE JobKnows(h)'
  BY DEF Jobs
<1>1. CASE job'[h] = job[h]
  <2>1. JobKnows(h)
    BY DEF Jobs
  <2>2. \A i \in Ids : i < next => i < next' /\ (row'[i] # Absent => row[i] # Absent /\ row'[i].kind = row[i].kind)
    BY RowStays
  <2> QED
    BY <1>1, <2>1, <2>2 DEF JobKnows
<1>2. CASE job'[h] = Idle
  BY <1>2 DEF JobKnows, Idle
<1> QED
  BY <1>1, <1>2

LEMMA FinishJobs ==
  ASSUME NEW h \in Handlers, Tables, Tables', Jobs, Evolves, Finish(h)
  PROVE  Jobs'
<1>1. Idle \in Job
  BY DEF Idle, Job
<1>2. /\ job' = [job EXCEPT ![h] = Idle] /\ job \in [Handlers -> Job]
  BY DEF Finish, Jobs
<1>3. job' \in [Handlers -> Job] /\ \A k \in Handlers : job'[k] \in {job[k], Idle}
  BY <1>1, <1>2
<1> QED
  BY <1>3, JobsFollow

LEMMA AskJobs ==
  ASSUME NEW h \in Handlers, NEW op, NEW i, NEW t, Tables, Jobs, Ask(h, op, i, t),
         \/ op \in {"create", "post", "note"} /\ i = NoRow /\ t \in Texts
         \/ /\ op \in Targeted /\ i \in Ids /\ row[i] # Absent /\ t \in Texts \cup {NoText}
            /\ op \in {"edit", "override"} => t \in Texts
            /\ row[i].kind = "summary" =>
                 op \in {"edit", "hide", "delete", "restore", "override", "erase"}
  PROVE  Jobs'
<1> DEFINE new == [step |-> "write", op |-> op, id |-> i, text |-> t,
                   seen |-> IF i = NoRow THEN Absent ELSE row[i]]
<1>1. /\ job' = [job EXCEPT ![h] = new] /\ UNCHANGED <<row, next, logged>>
      /\ job \in [Handlers -> Job]
  BY DEF Ask, dbVars, Jobs
<1>2. Tables' /\ Evolves
  BY <1>1, SameTables
<1>3. /\ NoRow \notin Ids /\ row \in [Ids -> Row \cup {Absent}]
      /\ \A j \in Ids : row[j] # Absent => j < next
  BY ConstantsAssumption DEF NoRow, Ids, Tables, Fresh
<1>4. new \in Job
  BY <1>3 DEF Job, Operations, Targeted
<1>5. job'[h] = new /\ job' \in [Handlers -> Job] /\ \A k \in Handlers \ {h} : job'[k] = job[k]
  BY <1>1, <1>4
<1>6. JobKnows(h)'
  <2>1. CASE op \in {"create", "post", "note"} /\ i = NoRow /\ t \in Texts
    BY <1>5, <2>1 DEF JobKnows
  <2>2. CASE /\ op \in Targeted /\ i \in Ids /\ row[i] # Absent /\ t \in Texts \cup {NoText}
             /\ op \in {"edit", "override"} => t \in Texts
             /\ row[i].kind = "summary" =>
                  op \in {"edit", "hide", "delete", "restore", "override", "erase"}
    <3>1. /\ job'[h].step = "write" /\ job'[h].op = op /\ job'[h].id = i /\ job'[h].text = t
          /\ job'[h].seen = row[i]
      BY <1>3, <1>5, <2>2
    <3> QED
      BY <1>1, <1>3, <2>2, <3>1 DEF JobKnows
  <2> QED
    BY <2>1, <2>2
<1> QED
  BY <1>2, <1>5, <1>6, JobsFollow

LEMMA RequestJobs ==
  ASSUME NEW h \in Handlers, Tables, Jobs, Request(h)
  PROVE  /\ Jobs' /\ UNCHANGED <<dbVars, exec, crashes>> /\ requests' = requests + 1
         /\ requests < MaxRequests
<1>1. ASSUME NEW t \in Texts, Create(h, t) \/ Post(h, t) \/ Note(h, t)
      PROVE  Jobs' /\ UNCHANGED <<dbVars, exec, crashes>> /\ requests' = requests + 1
  <2>1. Ask(h, "create", NoRow, t) \/ Ask(h, "post", NoRow, t) \/ Ask(h, "note", NoRow, t)
    BY <1>1 DEF Create, Post, Note
  <2> QED
    BY <2>1, AskJobs DEF Ask
<1>2. ASSUME NEW i \in Ids, NEW t \in Texts, Edit(h, i, t) \/ Override(h, i, t)
      PROVE  Jobs' /\ UNCHANGED <<dbVars, exec, crashes>> /\ requests' = requests + 1
  <2>1. row[i] # Absent
    BY <1>2 DEF Edit, Override, Entries, Summaries
  <2>2. Ask(h, "edit", i, t) \/ Ask(h, "override", i, t)
    BY <1>2 DEF Edit, Override
  <2> QED
    BY <2>1, <2>2, AskJobs DEF Ask, Targeted, Changes
<1>3. ASSUME NEW i \in Ids, RestoreItem(h, i) \/ Erase(h, i) \/ \E op \in Changes : Change(h, op, i)
      PROVE  Jobs' /\ UNCHANGED <<dbVars, exec, crashes>> /\ requests' = requests + 1
  <2>1. row[i] # Absent
    BY <1>3 DEF RestoreItem, Erase, Change, Entries, Summaries
  <2>2. CASE RestoreItem(h, i)
    <3>1. row[i].kind # "summary" /\ (Ask(h, "restoreItem", i, NoText) \/ Ask(h, "unhide", i, NoText))
      BY <2>2 DEF RestoreItem, Entries
    <3> QED
      BY <2>1, <3>1, AskJobs DEF Ask, Targeted, Changes
  <2>3. CASE Erase(h, i)
    <3>1. Ask(h, "erase", i, NoText)
      BY <2>3 DEF Erase
    <3> QED
      BY <2>1, <3>1, AskJobs DEF Ask, Targeted, Changes
  <2>4. ASSUME NEW op \in Changes, Change(h, op, i)
        PROVE  Jobs' /\ UNCHANGED <<dbVars, exec, crashes>> /\ requests' = requests + 1
    <3>1. /\ Ask(h, op, i, NoText) /\ op \in Targeted
          /\ op # "edit" \/ i \in Summaries
          /\ op # "override"
          /\ row[i].kind = "summary" => op \in {"hide", "delete", "restore"}
      BY <2>4 DEF Change, Entries, Summaries, Targeted, Changes
    <3>2. op # "edit"
      BY <2>4 DEF Change, Entries, Summaries
    <3> QED
      BY <2>1, <3>1, <3>2, AskJobs DEF Ask
  <2> QED
    BY <1>3, <2>2, <2>3, <2>4
<1>4. requests < MaxRequests
  BY DEF Request
<1> QED
  BY <1>1, <1>2, <1>3, <1>4 DEF Request

\* Whatever a handler writes, the tables and what the handlers know stay in order.
LEMMA HandlerWrites ==
  ASSUME NEW h \in Handlers, Tables, Jobs,
         \/ Rollback(h) \/ SaveChange(h) \/ Reread(h) \/ Insert(h) \/ Enrich(h)
         \/ SaveOverride(h) \/ SaveErase(h)
  PROVE  /\ Tables' /\ Evolves /\ NoneAutomatic /\ Jobs'
         /\ UNCHANGED <<recalls, recent, talk, exec, requests, crashes>>
<1>1. CASE Rollback(h)
  <2>1. Finish(h) /\ UNCHANGED dbVars /\ UNCHANGED <<exec, requests, crashes>>
    BY <1>1 DEF Rollback
  <2> QED
    BY <2>1, SameTables, FinishJobs DEF dbVars
<1>2. CASE SaveChange(h)
  <2>1. Tables' /\ Evolves /\ NoneAutomatic
    BY <1>2, SaveChangeTables
  <2>2. UNCHANGED <<recalls, recent, talk, exec, requests, crashes>>
    BY <1>2 DEF SaveChange
  <2>3. CASE Finish(h)
    BY <2>1, <2>2, <2>3, FinishJobs
  <2>4. CASE job[h].op = "restoreItem" /\ job' = [job EXCEPT ![h].step = "reread"]
    <3>1. job \in [Handlers -> Job] /\ job[h].step = "write" /\ JobKnows(h)
      BY <1>2 DEF Jobs, SaveChange
    <3>2. /\ job' \in [Handlers -> Job] /\ job'[h] = [job[h] EXCEPT !.step = "reread"]
          /\ \A k \in Handlers \ {h} : job'[k] = job[k]
      <4>1. [job[h] EXCEPT !.step = "reread"] \in Job
        BY <3>1 DEF Job
      <4> QED
        BY <2>4, <3>1, <4>1
    <3>3. /\ job'[h].step = "reread" /\ job'[h].op = job[h].op /\ job'[h].id = job[h].id
          /\ job'[h].seen = job[h].seen /\ job'[h].text = job[h].text
      BY <3>1, <3>2 DEF Job
    <3>4. /\ job[h].id \in Ids /\ job[h].id < next /\ job[h].seen \in Row
          /\ row[job[h].id] # Absent => row[job[h].id].kind = job[h].seen.kind
          /\ job[h].seen.kind # "summary" /\ job[h].op \in Targeted
      BY <2>4, <3>1, ChangeKnows DEF Targeted
    <3>5. /\ job[h].id < next'
          /\ row'[job[h].id] # Absent => row'[job[h].id].kind = job[h].seen.kind
      BY <2>1, <3>4, RowStays
    <3>6. JobKnows(h)'
      BY <2>4, <3>3, <3>4, <3>5 DEF JobKnows
    <3>7. Jobs'
      BY <2>1, <3>2, <3>6, JobsFollow
    <3> QED
      BY <2>1, <2>2, <3>7
  <2> QED
    BY <1>2, <2>3, <2>4 DEF SaveChange
<1>3. CASE Reread(h)
  <2> DEFINE i == job[h].id
             new == [job[h] EXCEPT !.step = "write", !.op = "unhide", !.seen = row[i]]
  <2>1. /\ job[h].step = "reread" /\ row[i] # Absent /\ UNCHANGED dbVars
        /\ UNCHANGED <<exec, requests, crashes>>
        /\ Finish(h) \/ job' = [job EXCEPT ![h] = new]
        /\ job \in [Handlers -> Job] /\ JobKnows(h)
    BY <1>3 DEF Reread, Jobs
  <2>2. Tables' /\ Evolves /\ NoneAutomatic
    BY <2>1, SameTables DEF dbVars
  <2>3. CASE Finish(h)
    BY <2>1, <2>2, <2>3, FinishJobs DEF dbVars
  <2>4. CASE job' = [job EXCEPT ![h] = new]
    <3>1. /\ i \in Ids /\ i < next /\ row[i] \in Row /\ row[i].kind # "summary"
      BY <2>1, ChangeKnows DEF JobKnows
    <3>2. /\ new \in Job /\ new.step = "write" /\ new.op = "unhide" /\ new.id = i
          /\ new.seen = row[i]
      BY <2>1, <3>1 DEF Job, Operations, Changes
    <3> HIDE DEF new
    <3>3. job' \in [Handlers -> Job] /\ job'[h] = new /\ \A k \in Handlers \ {h} : job'[k] = job[k]
      BY <2>1, <2>4, <3>2
    <3>4. JobKnows(h)'
      BY <2>1, <3>1, <3>2, <3>3 DEF JobKnows, Targeted, Changes, dbVars
    <3> QED
      BY <2>1, <2>2, <3>3, <3>4, JobsFollow DEF dbVars
  <2> QED
    BY <2>1, <2>3, <2>4
<1>4. CASE Insert(h)
  <2>1. Tables' /\ Evolves /\ NoneAutomatic
    BY <1>4, InsertTables
  <2>2. UNCHANGED <<recalls, recent, talk, exec, requests, crashes>>
    BY <1>4 DEF Insert
  <2>3. CASE job[h].op # "create"
    <3>1. Finish(h)
      BY <1>4, <2>3 DEF Insert, Finish, Jobs
    <3> QED
      BY <2>1, <2>2, <3>1, FinishJobs
  <2>4. CASE job[h].op = "create"
    <3>1. /\ job \in [Handlers -> Job] /\ next \in Ids /\ next' = next + 1 /\ next \in Nat
          /\ job' = [job EXCEPT ![h] = [@ EXCEPT !.step = "enrich", !.id = next]]
      BY <1>4, <2>4 DEF Jobs, Insert, Tables
    <3>2. [job[h] EXCEPT !.step = "enrich", !.id = next] \in Job
      BY <3>1 DEF Job
    <3>3. /\ job' \in [Handlers -> Job] /\ \A k \in Handlers \ {h} : job'[k] = job[k]
          /\ job'[h] = [job[h] EXCEPT !.step = "enrich", !.id = next]
      BY <3>1, <3>2
    <3>4. job'[h].step = "enrich" /\ job'[h].id = next /\ job'[h].op = "create"
      BY <2>4, <3>1, <3>3 DEF Job
    <3>5. JobKnows(h)'
      BY <3>1, <3>4 DEF JobKnows
    <3> QED
      BY <2>1, <2>2, <3>3, <3>5, JobsFollow
  <2> QED
    BY <2>3, <2>4
<1>5. CASE Enrich(h)
  <2>1. Finish(h) /\ UNCHANGED <<recalls, recent, talk, exec, requests, crashes>>
    BY <1>5 DEF Enrich
  <2> QED
    BY <1>5, <2>1, EnrichTables, FinishJobs
<1>6. CASE SaveOverride(h)
  <2>1. Finish(h) /\ UNCHANGED <<recalls, recent, talk, exec, requests, crashes>>
    BY <1>6 DEF SaveOverride
  <2> QED
    BY <1>6, <2>1, OverrideTables, FinishJobs
<1>7. CASE SaveErase(h)
  <2>1. Finish(h) /\ UNCHANGED <<recalls, recent, talk, exec, requests, crashes>>
    BY <1>7 DEF SaveErase
  <2> QED
    BY <1>7, <2>1, EraseTables, FinishJobs
<1> QED
  BY <1>1, <1>2, <1>3, <1>4, <1>5, <1>6, <1>7

-----------------------------------------------------------------------------
(* Summaries of runs, and what is banned. *)

\* No execution is forgotten or moves to another session.
ExecFollows ==
  \A r \in Runs :
    \/ exec'[r] = exec[r]
    \/ exec'[r].step # "none" /\ (exec[r].step # "none" => exec'[r].session = exec[r].session)

LEMMA CloserKept ==
  ASSUME CloserInv, ExecFollows, closer' = closer
  PROVE  CloserInv'
<1>1. \A c \in Closers : closer[c].run \in Runs \cup {NoRun}
  BY DEF CloserInv, Closer
<1>2. \A r \in Runs : exec[r].step # "none" =>
        exec'[r].step # "none" /\ exec'[r].session = exec[r].session
  BY DEF ExecFollows
<1>3. \A r \in Runs : exec'[r].step = "none" => exec'[r].session = NoSession
  BY DEF ExecFollows, CloserInv
<1> QED
  BY <1>1, <1>2, <1>3 DEF CloserInv

LEMMA NoneAdded ==
  ASSUME Tables, Evolves, NoneAutomatic
  PROVE  \A i \in Ids, r \in Runs : Automatic(i, r)' => Automatic(i, r)
<1> SUFFICES ASSUME NEW i \in Ids, NEW r \in Runs, Automatic(i, r)' PROVE Automatic(i, r)
  OBVIOUS
<1>1. i \in Nat /\ next \in Nat
  BY ConstantsAssumption DEF Ids, Tables
<1>2. i < next
  BY <1>1 DEF NoneAutomatic
<1> QED
  BY <1>2 DEF Evolves, Automatic

\* Where no automatic summary is added, and a capture that newly stands found none.
LEMMA AutoKept ==
  ASSUME AutoInv, ExecFollows, Evolves, NoneAutomatic, Tables, Observe,
         \A r \in Runs : Standing(r)' => Standing(r) \/ \A i \in Ids : ~Automatic(i, r),
         \A r \in Runs : exec'[r].step = "store" /\ exec'[r].verdict # "skip" =>
           exec'[r].text # NoText
  PROVE  AutoInv'
<1>1. \A i \in Ids, r \in Runs : Automatic(i, r)' => Automatic(i, r)
  BY NoneAdded
<1>2. raced' = raced
  <2>1. \A r \in Runs : AutoSummaries(r)' \ AutoSummaries(r) = {}
    BY <1>1 DEF AutoSummaries, SummaryOf, Summaries, Automatic
  <2> QED
    BY <2>1 DEF Observe
<1>3. \A r \in Runs : exec[r].step # "none" =>
        exec'[r].step # "none" /\ exec'[r].session = exec[r].session
  BY DEF ExecFollows
<1> HIDE DEF Standing
<1>4. ASSUME NEW r \in Runs
      PROVE  /\ r \in raced' => exec'[r].step # "none" /\ Parent[exec'[r].session] # NoSession
             /\ r \notin raced' =>
                  /\ \A i, j \in Ids : Automatic(i, r)' /\ Automatic(j, r)' => i = j
                  /\ Standing(r)' => \A i \in Ids : ~Automatic(i, r)'
  BY <1>1, <1>2, <1>3 DEF AutoInv
<1> QED
  BY <1>2, <1>4 DEF AutoInv

\* Where a capture of r writes: it found none while it stood, or it looks in its transaction.
LEMMA AutoStored ==
  ASSUME NEW r \in Runs \cup {NoRun}, NEW verdict, AutoInv, ExecFollows, Evolves, Tables, Observe,
         \A i \in Ids, q \in Runs : i >= next /\ Automatic(i, q)' => i = next /\ q = r /\ verdict # "skip",
         verdict # "skip" /\ r \in Runs => Standing(r) \/ \A i \in Ids : ~Automatic(i, r),
         \A q \in Runs : Standing(q)' => Standing(q),
         r \in Runs /\ Standing(r)' => exec[r].step # "none" /\ Parent[exec[r].session] # NoSession,
         \A q \in Runs : exec'[q].step = "store" /\ exec'[q].verdict # "skip" =>
           exec'[q].text # NoText
  PROVE  AutoInv'
<1>1. \A i \in Ids, q \in Runs : Automatic(i, q)' =>
        Automatic(i, q) \/ (i = next /\ q = r /\ verdict # "skip")
  <2> SUFFICES ASSUME NEW i \in Ids, NEW q \in Runs, Automatic(i, q)'
               PROVE  Automatic(i, q) \/ (i = next /\ q = r /\ verdict # "skip")
    OBVIOUS
  <2>1. i \in Nat /\ next \in Nat
    BY ConstantsAssumption DEF Ids, Tables
  <2>2. CASE i < next
    BY <2>2 DEF Evolves, Automatic
  <2>3. CASE i >= next
    BY <2>3
  <2> QED
    BY <2>1, <2>2, <2>3
<1>2. \A q \in Runs : exec[q].step # "none" =>
        exec'[q].step # "none" /\ exec'[q].session = exec[q].session
  BY DEF ExecFollows
<1>3. /\ raced \subseteq raced' /\ raced' \subseteq Runs
      /\ \A q \in Runs : q \in raced' => q \in raced \/ (q = r /\ Standing(q)')
      /\ \A q \in Runs, i \in Ids :
           Automatic(i, q)' /\ ~Automatic(i, q) /\ Standing(q)' => q \in raced'
  <2>1. \A q \in Runs, i \in Ids :
          /\ i \in AutoSummaries(q)' <=> Automatic(i, q)'
          /\ i \in AutoSummaries(q) <=> Automatic(i, q)
    BY DEF AutoSummaries, SummaryOf, Summaries, Automatic
  <2>2. \A q \in Runs : AutoSummaries(q)' \subseteq Ids
    BY DEF AutoSummaries, SummaryOf, Summaries
  <2>3. raced' = raced \cup {q \in Runs : AutoSummaries(q)' \ AutoSummaries(q) # {} /\ Standing(q)'}
    BY DEF Observe
  <2> HIDE DEF AutoSummaries, Standing, Automatic
  <2>4. raced \subseteq Runs
    BY DEF AutoInv
  <2> QED
    BY <1>1, <2>1, <2>2, <2>3, <2>4
<1>4. ASSUME NEW q \in Runs, q \in raced'
      PROVE  exec'[q].step # "none" /\ Parent[exec'[q].session] # NoSession
  <2>1. exec[q].step # "none" /\ Parent[exec[q].session] # NoSession
    BY <1>3, <1>4 DEF AutoInv
  <2> QED
    BY <1>2, <2>1
<1> HIDE DEF Standing, Automatic
<1>5. ASSUME NEW q \in Runs, q \notin raced'
      PROVE  /\ \A i, j \in Ids : Automatic(i, q)' /\ Automatic(j, q)' => i = j
             /\ Standing(q)' => \A i \in Ids : ~Automatic(i, q)'
  <2>1. q \notin raced
    BY <1>3, <1>5
  <2>2. /\ \A i, j \in Ids : Automatic(i, q) /\ Automatic(j, q) => i = j
        /\ Standing(q) => \A i \in Ids : ~Automatic(i, q)
    BY <2>1 DEF AutoInv
  <2>3. CASE q = r /\ verdict # "skip"
    <3>1. \A i \in Ids : ~Automatic(i, q)
      BY <2>2, <2>3
    <3>2. \A i \in Ids : Automatic(i, q)' => i = next
      BY <1>1, <3>1
    <3>3. Standing(q)' => \A i \in Ids : ~Automatic(i, q)'
      BY <1>3, <1>5, <3>1
    <3> QED
      BY <3>2, <3>3
  <2>4. CASE ~(q = r /\ verdict # "skip")
    <3>1. \A i \in Ids : Automatic(i, q)' => Automatic(i, q)
      BY <1>1, <2>4
    <3> QED
      BY <2>2, <3>1
  <2> QED
    BY <2>3, <2>4
<1> QED
  BY <1>3, <1>4, <1>5 DEF AutoInv

LEMMA SuppressedTexts ==
  ASSUME Tables
  PROVE  Suppressed \subseteq Texts
<1>1. \A i \in Entries : row[i] \in EntryRow
  BY RowKinds DEF Entries, Tables
<1> QED
  BY <1>1 DEF Suppressed, EntryRow

\* What is banned is cut down to what is suppressed; a run that begins bans what is.
LEMMA BannedKept ==
  ASSUME BannedInv, Tables, Tables', Observe, banned \in [Runs \cup Closers -> SUBSET Texts],
         \/ Suppressed \subseteq Suppressed'
         \/ /\ \A r \in Runs : exec[r].step = "none" => exec'[r].step = "none"
            /\ \A c \in Closers : closer[c].step = "none" => closer'[c].step = "none",
         \A r \in Runs : exec'[r].step = "store" /\ exec'[r].verdict = "insert" =>
           /\ exec[r].step # "none"
           /\ \/ exec[r].step = "store" /\ exec[r].verdict = "insert" /\ exec'[r].text = exec[r].text
              \/ exec'[r].text \notin Suppressed,
         \A c \in Closers : closer'[c].step = "store" /\ closer'[c].verdict = "insert" =>
           closer'[c] = closer[c] \/ (closer[c].step = "none" /\ closer'[c].text \notin Suppressed)
  PROVE  BannedInv' /\ banned' \in [Runs \cup Closers -> SUBSET Texts]
<1>0. \A c \in Closers : c \notin Runs
  BY ConstantsAssumption
<1>1. /\ \A r \in Runs : banned'[r] = IF exec'[r].step = "none" THEN {}
           ELSE IF exec[r].step = "none" THEN Suppressed ELSE banned[r] \cap Suppressed'
      /\ \A c \in Closers : banned'[c] = IF closer'[c].step = "none" THEN {}
           ELSE IF closer[c].step = "none" THEN Suppressed ELSE banned[c] \cap Suppressed'
  BY <1>0 DEF Observe, Begun
<1>2. Suppressed \subseteq Texts
  BY SuppressedTexts
<1>3. banned' \in [Runs \cup Closers -> SUBSET Texts]
  <2>1. \A x \in Runs \cup Closers : banned'[x] \subseteq Texts
    BY <1>1, <1>2
  <2>2. banned' = [x \in Runs \cup Closers |-> banned'[x]]
    BY DEF Observe
  <2> QED
    BY <2>1, <2>2
<1>a. \A r \in Runs : exec'[r].step # "none" /\ exec[r].step = "none" => Suppressed \subseteq Suppressed'
  OBVIOUS
<1>b. \A c \in Closers : closer'[c].step # "none" /\ closer[c].step = "none" => Suppressed \subseteq Suppressed'
  OBVIOUS
<1>4. ASSUME NEW x \in Runs \cup Closers PROVE banned'[x] \subseteq Suppressed'
  <2>1. CASE x \in Runs
    <3>1. banned'[x] = {} \/ banned'[x] \subseteq Suppressed' \/ (banned'[x] = Suppressed /\ Suppressed \subseteq Suppressed')
      BY <1>1, <1>a, <2>1
    <3> QED
      BY <3>1
  <2>2. CASE x \in Closers
    <3>1. banned'[x] = {} \/ banned'[x] \subseteq Suppressed' \/ (banned'[x] = Suppressed /\ Suppressed \subseteq Suppressed')
      BY <1>1, <1>b, <2>2
    <3> QED
      BY <3>1
  <2> QED
    BY <2>1, <2>2
<1>5. ASSUME NEW r \in Runs, exec'[r].step = "store", exec'[r].verdict = "insert"
      PROVE  exec'[r].text \notin banned'[r]
  <2>1. banned'[r] = banned[r] \cap Suppressed' /\ banned[r] \subseteq Suppressed
    BY <1>1, <1>5 DEF BannedInv
  <2>2. exec'[r].text \notin banned[r]
    BY <1>5, <2>1 DEF BannedInv
  <2> QED
    BY <2>1, <2>2
<1>6. ASSUME NEW c \in Closers, closer'[c].step = "store", closer'[c].verdict = "insert"
      PROVE  closer'[c].text \notin banned'[c]
  <2>1. CASE closer[c].step = "none" /\ closer'[c].text \notin Suppressed
    BY <1>1, <1>6, <2>1
  <2>2. CASE closer'[c] = closer[c]
    <3>1. closer[c].step = "store" /\ closer[c].text \notin banned[c]
      BY <1>6, <2>2 DEF BannedInv
    <3>2. banned'[c] = banned[c] \cap Suppressed'
      BY <1>1, <2>2, <3>1
    <3> QED
      BY <2>2, <3>1, <3>2
  <2> QED
    BY <1>6, <2>1, <2>2
<1> QED
  BY <1>3, <1>4, <1>5, <1>6 DEF BannedInv

LEMMA HandlerKeeps ==
  ASSUME MemoryInv, HandlerStep, Observe, closer' = closer
  PROVE  MemoryInv'
<1>1. PICK h \in Handlers :
        \/ Request(h)
        \/ Rollback(h) \/ SaveChange(h) \/ Reread(h) \/ Insert(h) \/ Enrich(h)
        \/ SaveOverride(h) \/ SaveErase(h)
  BY DEF HandlerStep
<1>2. /\ Tables' /\ Evolves /\ NoneAutomatic /\ Jobs'
      /\ UNCHANGED <<recalls, recent, talk, exec, crashes>>
      /\ requests' = requests \/ (requests < MaxRequests /\ requests' = requests + 1)
  <2>1. CASE Request(h)
    BY <2>1, RequestJobs, SameTables DEF MemoryInv, dbVars
  <2>2. CASE ~Request(h)
    BY <1>1, <2>2, HandlerWrites DEF MemoryInv
  <2> QED
    BY <2>1, <2>2
<1>a. ExecFollows
  BY <1>2 DEF ExecFollows
<1>b. CloserInv'
  BY <1>a, CloserKept DEF MemoryInv
<1>3. AutoInv'
  <2>1. /\ \A r \in Runs : Standing(r)' = Standing(r)
        /\ \A r \in Runs : exec'[r].step = "store" /\ exec'[r].verdict # "skip" => exec'[r].text # NoText
    BY <1>2 DEF Standing, MemoryInv, AutoInv
  <2> HIDE DEF Standing
  <2> QED
    BY <1>2, <1>a, <2>1, AutoKept DEF MemoryInv
<1>4. RecallInv'
  BY <1>2 DEF MemoryInv, RecallInv
<1>5. BannedInv' /\ banned' \in [Runs \cup Closers -> SUBSET Texts]
  BY <1>2, BannedKept DEF MemoryInv, Counters
<1>6. Counters'
  BY <1>2, <1>5, ConstantsAssumption DEF MemoryInv, Counters
<1> QED
  BY <1>2, <1>3, <1>4, <1>5, <1>6, <1>b DEF MemoryInv

-----------------------------------------------------------------------------
(* Recall. *)

\* What is selected was not shown to the session of late.
LEMMA SelectedIsNew ==
  ASSUME NEW s, NEW query, NEW picked \in Recallable(query, s)
  PROVE  picked \subseteq Ids \ RecentIn(s)
<1>1. PICK found \in Searched(query, s, 4 * Limit) : picked \in Best(found \ RecentIn(s), Limit)
  BY DEF Recallable
<1>2. found \subseteq Found(query, s) /\ picked \subseteq found \ RecentIn(s)
  BY <1>1 DEF Searched, Best
<1>3. Found(query, s) \subseteq Ids
  BY DEF Found, Matching, Indexed, Entries, Summaries
<1> QED
  BY <1>2, <1>3

LEMMA RecallSelected ==
  ASSUME NEW r \in Runs, NEW s \in Sessions \cup {NoSession}, NEW query, NEW step \in {"running", "resumed"},
         RecallInv, Select(r, s, query, step), exec[r].step \in {"none", "queued", "paused"},
         UNCHANGED <<recalls, recent>>
  PROVE  /\ RecallInv'
         /\ exec'[r].step = step /\ exec'[r].session = s
         /\ \A q \in Runs \ {r} : exec'[q] = exec[q]
<1>1. PICK picked \in Recallable(query, s) :
        exec' = [exec EXCEPT ![r] = [NotRun EXCEPT !.step = step, !.session = s,
                   !.picked = picked, !.after = Reported(s)]]
  BY DEF Select
<1> DEFINE new == [NotRun EXCEPT !.step = step, !.session = s, !.picked = picked, !.after = Reported(s)]
<1>2. picked \subseteq Ids \ RecentIn(s)
  BY SelectedIsNew
<1>3. /\ new \in Exec
      /\ new.step = step /\ new.session = s /\ new.picked = picked /\ new.after = Reported(s)
  BY <1>2 DEF NotRun, Exec, Verdicts, RunSteps, Reported
<1> HIDE DEF new
<1>4. /\ exec' \in [Runs -> Exec] /\ exec'[r] = new /\ \A q \in Runs \ {r} : exec'[q] = exec[q]
  BY <1>1, <1>3 DEF RecallInv, new
<1>5. \A q \in Reported(s) : q \in Runs /\ q # r /\ exec[q].step \notin Untold
  BY DEF Reported, RecallInv, Untold
<1>6. \A q \in Reported(s), i \in picked : <<q, i>> \notin recent
  <2> SUFFICES ASSUME NEW q \in Reported(s), NEW i \in Ids, <<q, i>> \in recent PROVE i \in RecentIn(s)
    BY <1>2
  <2> DEFINE p == <<q, i>>
  <2>1. p \in {x \in recent : exec[x[1]].session = s} /\ p[2] = i
    BY DEF Reported
  <2> QED
    BY <2>1 DEF RecentIn
<1>7. \A i \in Ids : <<r, i>> \notin recent
  BY DEF RecallInv, Untold
<1>8. \A q, p \in Runs : q \in exec[p].after => q # r
  BY DEF RecallInv, Untold
<1>9. \A p, i : <<p, i>> \in recalls => p \in Runs /\ i \in Ids
  BY DEF RecallInv, RecallLog
<1>10. \A q \in Runs, i \in Ids : <<q, i>> \in recalls' => exec'[q].step \notin Untold
  BY <1>4 DEF RecallInv, Untold
<1>11. ASSUME NEW p \in Runs, NEW q \in Runs, q \in exec'[p].after
       PROVE  /\ q # p /\ exec'[q].step \notin Untold
              /\ \A i \in Ids : /\ i \in exec'[p].picked => <<q, i>> \notin recent'
                                /\ <<p, i>> \in recent' => <<q, i>> \notin recent'
  <2>1. CASE p = r
    BY <1>3, <1>4, <1>5, <1>6, <1>7, <1>11, <2>1
  <2>2. CASE p # r
    BY <1>4, <1>8, <1>11, <2>2 DEF RecallInv
  <2> QED
    BY <2>1, <2>2
<1> QED
  BY <1>3, <1>4, <1>10, <1>11 DEF RecallInv

\* Nothing new is told, and nobody selects.
LEMMA RecallKept ==
  ASSUME RecallInv, exec' \in [Runs -> Exec], recalls' = recalls, recent' \subseteq recent,
         \A r \in Runs : /\ exec[r].step \notin Untold => exec'[r].step \notin Untold
                         /\ exec'[r].after \subseteq exec[r].after
                         /\ exec'[r].picked \subseteq exec[r].picked
  PROVE  RecallInv'
BY DEF RecallInv

\* A run tells what it had selected.
LEMMA RecallTold ==
  ASSUME NEW r \in Runs, RecallInv, RecordRecall(r), exec[r].step \in Untold,
         exec' \in [Runs -> Exec], \A q \in Runs \ {r} : exec'[q] = exec[q],
         exec'[r].step \notin Untold, exec'[r].after = exec[r].after, exec'[r].picked = {}
  PROVE  RecallInv'
<1>1. /\ recalls' = recalls \cup {r} \X exec[r].picked
      /\ recent' = recent \cup {r} \X exec[r].picked
  BY DEF RecordRecall
<1>2. exec[r].picked \subseteq Ids
  BY DEF RecallInv, Exec
<1>3. /\ recalls' \subseteq RecallLog /\ recent' \subseteq recalls'
      /\ \A q, i : <<q, i>> \in recalls' => <<q, i>> \in recalls \/ (q = r /\ i \in exec[r].picked)
      /\ \A q, i : <<q, i>> \in recent' => <<q, i>> \in recent \/ (q = r /\ i \in exec[r].picked)
  BY <1>1, <1>2 DEF RecallInv, RecallLog
<1>4. \A q \in Runs, i \in Ids : <<q, i>> \in recalls' => exec'[q].step \notin Untold
  BY <1>3 DEF RecallInv
<1>5. ASSUME NEW p \in Runs, NEW q \in Runs, q \in exec'[p].after
      PROVE  /\ q # p /\ exec'[q].step \notin Untold
             /\ \A i \in Ids : /\ i \in exec'[p].picked => <<q, i>> \notin recent'
                               /\ <<p, i>> \in recent' => <<q, i>> \notin recent'
  <2>1. q \in exec[p].after
    BY <1>5
  <2>2. /\ q # p /\ exec[q].step \notin Untold /\ q # r
        /\ \A i \in Ids : /\ i \in exec[p].picked => <<q, i>> \notin recent
                          /\ <<p, i>> \in recent => <<q, i>> \notin recent
    BY <2>1 DEF RecallInv
  <2> QED
    BY <1>3, <2>2
<1> QED
  BY <1>3, <1>4, <1>5 DEF RecallInv

-----------------------------------------------------------------------------
(* The steps of an execution. *)

\* What is left of an execution.
LEMMA EndedExec ==
  ASSUME NEW e \in Exec, NEW step \in RunSteps
  PROVE  /\ Ended(e, step) \in Exec /\ Ended(e, step).step = step
         /\ Ended(e, step).after = e.after /\ Ended(e, step).picked = {}
         /\ Ended(e, step).session = e.session
BY DEF Ended, Exec, NotRun, RunSteps, Verdicts

\* capture_execution_result finds no summary of the run, and nothing of the user's that
\* forbids the text.
LEMMA VerdictFacts ==
  ASSUME NEW r \in Runs \cup {NoRun}, NEW t
  PROVE  /\ Verdict(r, t) \in Verdicts
         /\ Verdict(r, t) # "skip" => t # NoText /\ (r \in Runs => \A i \in Ids : ~Automatic(i, r))
         /\ Verdict(r, t) = "insert" => t \notin Suppressed
<1>1. /\ Verdict(r, t) \in Verdicts
      /\ Verdict(r, t) # "skip" => t # NoText /\ ~Summarized(r)
      /\ Verdict(r, t) = "insert" => Tombstones(t) = {}
  BY DEF Verdict, Verdicts
<1>2. ~Summarized(r) /\ r \in Runs => \A i \in Ids : ~Automatic(i, r)
  BY ConstantsAssumption DEF Summarized, SummaryOf, Summaries, Automatic
<1>3. Tombstones(t) = {} => t \notin Suppressed
  BY DEF Tombstones, Suppressed
<1> QED
  BY <1>1, <1>2, <1>3

\* An execution begins, is claimed, or is built again after an approval.
LEMMA SelectKeeps ==
  ASSUME NEW r \in Runs, NEW s \in Sessions \cup {NoSession}, NEW query, NEW step \in {"running", "resumed"},
         MemoryInv, Observe, Select(r, s, query, step), Refresh(s),
         exec[r].step \in {"none", "queued", "paused"},
         exec[r].step = "none" \/ s = exec[r].session, closer' = closer,
         UNCHANGED <<logged, recalls, recent, job, crashes>>, talk' \in [Sessions -> BOOLEAN],
         requests' \in 0 .. MaxRequests
  PROVE  MemoryInv'
<1>1. Tables' /\ Evolves /\ NoneAutomatic /\ Suppressed' = Suppressed
  BY RefreshTables DEF MemoryInv
<1>2. /\ RecallInv' /\ exec'[r].step = step /\ exec'[r].session = s
      /\ \A q \in Runs \ {r} : exec'[q] = exec[q]
  <2>1. RecallInv /\ UNCHANGED <<recalls, recent>>
    BY DEF MemoryInv
  <2> QED
    BY <2>1, RecallSelected
<1>a. ExecFollows
  BY <1>2 DEF ExecFollows
<1>b. CloserInv'
  BY <1>a, CloserKept DEF MemoryInv
<1>3. \A q \in Runs : exec'[q].step = "store" => exec'[q] = exec[q]
  BY <1>2
<1>4. Jobs'
  BY <1>1, JobsFollow DEF MemoryInv, Jobs
<1>5. AutoInv'
  <2>1. /\ \A q \in Runs : Standing(q)' => Standing(q)
        /\ \A q \in Runs : exec'[q].step = "store" /\ exec'[q].verdict # "skip" => exec'[q].text # NoText
    BY <1>3 DEF Standing, MemoryInv, AutoInv
  <2> HIDE DEF Standing
  <2> QED
    BY <1>1, <1>a, <2>1, AutoKept DEF MemoryInv
<1>6. BannedInv' /\ banned' \in [Runs \cup Closers -> SUBSET Texts]
  BY <1>1, <1>3, BannedKept DEF MemoryInv, Counters
<1> QED
  BY <1>1, <1>2, <1>4, <1>5, <1>6, <1>b DEF MemoryInv, Counters

LEMMA PrepareKeeps ==
  ASSUME NEW r \in Runs, NEW s \in Sessions, NEW query, MemoryInv, Observe, closer' = closer, Prepare(r, s, query)
  PROVE  MemoryInv'
<1>1. talk' \in [Sessions -> BOOLEAN] /\ requests' \in 0 .. MaxRequests
  BY ConstantsAssumption DEF MemoryInv, Counters, Prepare
<1> QED
  BY <1>1, SelectKeeps DEF Prepare

LEMMA AgainKeeps ==
  ASSUME NEW r \in Runs, NEW query, MemoryInv, Observe, closer' = closer,
         Claim(r, query) \/ Resume(r, query)
  PROVE  MemoryInv'
<1>1. exec[r].session \in Sessions \cup {NoSession}
  BY DEF MemoryInv, RecallInv, Exec
<1>2. talk' \in [Sessions -> BOOLEAN] /\ requests' \in 0 .. MaxRequests
  BY DEF MemoryInv, Counters, Claim, Resume
<1>3. CASE Claim(r, query)
  BY <1>1, <1>2, <1>3, SelectKeeps DEF Claim
<1>4. CASE Resume(r, query)
  BY <1>1, <1>2, <1>4, SelectKeeps DEF Resume
<1> QED
  BY <1>3, <1>4

\* Of the request built when a message is accepted only the summary is kept.
LEMMA AcceptKeeps ==
  ASSUME NEW r \in Runs, NEW s \in Sessions, MemoryInv, Observe, closer' = closer, Accept(r, s)
  PROVE  MemoryInv'
<1> DEFINE new == [NotRun EXCEPT !.step = "queued", !.session = s]
<1>1. /\ exec \in [Runs -> Exec] /\ RecallInv /\ exec[r].step = "none"
      /\ exec' = [exec EXCEPT ![r] = new]
      /\ Refresh(s) /\ UNCHANGED <<logged, recalls, recent, job, crashes>>
  BY DEF MemoryInv, RecallInv, Accept
<1>2. new \in Exec /\ new.step = "queued" /\ new.picked = {} /\ new.after = {}
  BY DEF NotRun, Exec, RunSteps, Verdicts
<1> HIDE DEF new
<1>3. exec' \in [Runs -> Exec] /\ exec'[r] = new /\ \A q \in Runs \ {r} : exec'[q] = exec[q]
  BY <1>1, <1>2
<1>4. talk' \in [Sessions -> BOOLEAN] /\ requests' \in 0 .. MaxRequests
  BY ConstantsAssumption DEF MemoryInv, Counters, Accept
<1>5. Tables' /\ Evolves /\ NoneAutomatic /\ Suppressed' = Suppressed
  BY <1>1, RefreshTables DEF MemoryInv
<1>6. RecallInv'
  BY <1>1, <1>2, <1>3, RecallKept DEF Untold
<1>7. ExecFollows /\ \A q \in Runs : exec'[q].step = "store" => exec'[q] = exec[q]
  BY <1>1, <1>2, <1>3 DEF ExecFollows
<1>8. CloserInv'
  BY <1>7, CloserKept DEF MemoryInv
<1>9. Jobs'
  BY <1>1, <1>5, JobsFollow DEF MemoryInv, Jobs
<1>10. AutoInv'
  <2>1. /\ \A q \in Runs : Standing(q)' => Standing(q)
        /\ \A q \in Runs : exec'[q].step = "store" /\ exec'[q].verdict # "skip" => exec'[q].text # NoText
    BY <1>7 DEF Standing, MemoryInv, AutoInv
  <2> HIDE DEF Standing
  <2> QED
    BY <1>5, <1>7, <2>1, AutoKept DEF MemoryInv
<1>11. BannedInv' /\ banned' \in [Runs \cup Closers -> SUBSET Texts]
  BY <1>5, <1>7, BannedKept DEF MemoryInv, Counters
<1> QED
  BY <1>1, <1>4, <1>5, <1>6, <1>8, <1>9, <1>10, <1>11 DEF MemoryInv, Counters

\* A step that leaves the tables alone.
LEMMA StillKeeps ==
  ASSUME MemoryInv, Observe, UNCHANGED <<row, next, logged, job, crashes>>, RecallInv', CloserInv',
         talk' \in [Sessions -> BOOLEAN], requests' \in 0 .. MaxRequests, ExecFollows,
         \A c \in Closers :
           \/ closer'[c] = closer[c]
           \/ /\ closer[c].step = "none"
              /\ closer'[c].run \in Runs => \A i \in Ids : ~Automatic(i, closer'[c].run)
              /\ closer'[c].verdict = "insert" => closer'[c].text \notin Suppressed,
         \A q \in Runs : exec'[q].step = "store" =>
           \/ exec'[q] = exec[q]
           \/ /\ exec[q].step # "none"
              /\ exec'[q].verdict # "skip" =>
                   exec'[q].text # NoText /\ \A i \in Ids : ~Automatic(i, q)
              /\ exec'[q].verdict = "insert" => exec'[q].text \notin Suppressed
  PROVE  MemoryInv'
<1>1. Tables' /\ Evolves /\ NoneAutomatic
  BY SameTables DEF MemoryInv
<1>2. Jobs'
  BY <1>1, JobsFollow DEF MemoryInv, Jobs
<1>3. AutoInv'
  <2>1. ASSUME NEW q \in Runs, Standing(q)' PROVE Standing(q) \/ \A i \in Ids : ~Automatic(i, q)
    <3>1. CASE exec'[q].step = "store" /\ exec'[q].verdict # "skip"
      BY <3>1 DEF Standing
    <3>2. CASE \E c \in Closers : closer'[c].run = q
      BY <3>2 DEF Standing
    <3> QED
      BY <2>1, <3>1, <3>2 DEF Standing
  <2>2. \A q \in Runs : exec'[q].step = "store" /\ exec'[q].verdict # "skip" => exec'[q].text # NoText
    BY DEF MemoryInv, AutoInv
  <2> HIDE DEF Standing
  <2> QED
    BY <1>1, <2>1, <2>2, AutoKept DEF MemoryInv
<1>4. BannedInv' /\ banned' \in [Runs \cup Closers -> SUBSET Texts]
  <2>1. Suppressed' = Suppressed
    BY DEF Suppressed, Entries
  <2> QED
    BY <1>1, <2>1, BannedKept DEF MemoryInv, Counters
<1> QED
  BY <1>1, <1>2, <1>3, <1>4 DEF MemoryInv, Counters

\* An execution's own step leaves what follows a finalization alone.
LEMMA RunKeeps ==
  ASSUME NEW r \in Runs, MemoryInv, exec[r].step # "none", exec'[r].step # "none",
         exec'[r].session = exec[r].session, \A q \in Runs \ {r} : exec'[q] = exec[q],
         closer' = closer
  PROVE  ExecFollows /\ CloserInv'
<1>1. ExecFollows
  BY DEF ExecFollows
<1> QED
  BY <1>1, CloserKept DEF MemoryInv

LEMMA PersistWithRecallKeeps ==
  ASSUME NEW r \in Runs, NEW t \in Texts, MemoryInv, Observe, closer' = closer, PersistWithRecall(r, t)
  PROVE  MemoryInv'
<1> DEFINE new == [exec[r] EXCEPT !.step = "capture", !.picked = {}, !.text = t]
<1>1. exec \in [Runs -> Exec] /\ exec[r] \in Exec /\ RecallInv
  BY DEF MemoryInv, RecallInv
<1>2. /\ new \in Exec /\ new.step = "capture" /\ new.picked = {} /\ new.after = exec[r].after
      /\ new.session = exec[r].session
  BY <1>1 DEF Exec, RunSteps
<1>3. exec' = [exec EXCEPT ![r] = new]
  BY <1>1 DEF PersistWithRecall
<1> HIDE DEF new
<1>4. exec' \in [Runs -> Exec] /\ exec'[r] = new /\ \A q \in Runs \ {r} : exec'[q] = exec[q]
  BY <1>1, <1>2, <1>3
<1>5. RecallInv'
  BY <1>1, <1>2, <1>4, RecallTold DEF PersistWithRecall, Untold
<1>6. \A q \in Runs : exec'[q].step = "store" => exec'[q] = exec[q]
  BY <1>2, <1>4 DEF PersistWithRecall
<1>7. ExecFollows /\ CloserInv'
  BY <1>2, <1>3, <1>4, RunKeeps DEF PersistWithRecall
<1> QED
  BY <1>5, <1>6, <1>7, StillKeeps DEF PersistWithRecall, MemoryInv, Counters

LEMMA PersistResumedKeeps ==
  ASSUME NEW r \in Runs, NEW completed \in BOOLEAN, MemoryInv, Observe, closer' = closer, PersistResumed(r, completed)
  PROVE  MemoryInv'
<1> DEFINE new == Ended(exec[r], "done")
<1>1. exec \in [Runs -> Exec] /\ exec[r] \in Exec /\ RecallInv
  BY DEF MemoryInv, RecallInv
<1>2. new \in Exec /\ new.step = "done" /\ new.picked = {} /\ new.after = exec[r].after
      /\ new.session = exec[r].session
  BY <1>1, EndedExec DEF RunSteps
<1>3. exec' = [exec EXCEPT ![r] = new] /\ exec[r].step = "resumed"
  BY <1>1 DEF PersistResumed
<1> HIDE DEF new
<1>4. exec' \in [Runs -> Exec] /\ exec'[r] = new /\ \A q \in Runs \ {r} : exec'[q] = exec[q]
  BY <1>1, <1>2, <1>3
<1>5. RecallInv'
  <2>1. CASE completed
    BY <1>1, <1>2, <1>3, <1>4, <2>1, RecallTold DEF PersistResumed, Untold
  <2>2. CASE ~completed
    BY <1>1, <1>2, <1>3, <1>4, <2>2, RecallKept DEF PersistResumed, Untold
  <2> QED
    BY <2>1, <2>2
<1>6. \A q \in Runs : exec'[q].step = "store" => exec'[q] = exec[q]
  BY <1>2, <1>3, <1>4
<1>7. ExecFollows /\ CloserInv'
  BY <1>2, <1>3, <1>4, RunKeeps
<1> QED
  BY <1>5, <1>6, <1>7, StillKeeps DEF PersistResumed, MemoryInv, Counters

\* The verdict is taken here; the write comes later.
LEMMA LookKeeps ==
  ASSUME NEW r \in Runs, MemoryInv, Observe, closer' = closer, Look(r)
  PROVE  MemoryInv'
<1> DEFINE verdict == Verdict(r, exec[r].text)
           new == [exec[r] EXCEPT !.step = "store", !.verdict = verdict]
<1>1. exec \in [Runs -> Exec] /\ exec[r] \in Exec /\ RecallInv
  BY DEF MemoryInv, RecallInv
<1>2. /\ verdict \in Verdicts
      /\ verdict # "skip" => exec[r].text # NoText /\ \A i \in Ids : ~Automatic(i, r)
      /\ verdict = "insert" => exec[r].text \notin Suppressed
  BY VerdictFacts
<1>3. exec' = [exec EXCEPT ![r] = new] /\ exec[r].step = "capture"
  BY <1>1 DEF Look
<1> HIDE DEF verdict
<1>4. /\ new \in Exec /\ new.step = "store" /\ new.verdict = verdict /\ new.text = exec[r].text
      /\ new.picked = exec[r].picked /\ new.after = exec[r].after
      /\ new.session = exec[r].session
  BY <1>1, <1>2 DEF Exec, RunSteps
<1> HIDE DEF new
<1>5. exec' \in [Runs -> Exec] /\ exec'[r] = new /\ \A q \in Runs \ {r} : exec'[q] = exec[q]
  BY <1>1, <1>3, <1>4
<1>6. RecallInv'
  BY <1>1, <1>4, <1>5, RecallKept DEF Look, Untold, dbVars
<1>7. \A q \in Runs : /\ exec'[q].step = "store" =>
                           \/ exec'[q] = exec[q]
                           \/ /\ exec[q].step # "none"
                              /\ exec'[q].verdict # "skip" =>
                                   exec'[q].text # NoText /\ \A i \in Ids : ~Automatic(i, q)
                              /\ exec'[q].verdict = "insert" => exec'[q].text \notin Suppressed
  BY <1>2, <1>3, <1>4, <1>5
<1>8. ExecFollows /\ CloserInv'
  BY <1>3, <1>4, <1>5, RunKeeps
<1> QED
  BY <1>6, <1>7, <1>8, StillKeeps DEF Look, dbVars, MemoryInv, Counters

\* A capture in the transaction of the result, or after it.
LEMMA CapturedKeeps ==
  ASSUME NEW r \in Runs, NEW t \in Texts \cup {NoText}, NEW verdict \in Verdicts,
         NEW step \in {"paused", "done"}, MemoryInv, Observe, closer' = closer,
         Store(r, exec[r].session, t, verdict), exec' = [exec EXCEPT ![r] = Ended(@, step)],
         exec[r].step = "running" \/ (exec[r].step = "store" /\ step = "done"),
         verdict # "skip" => t # NoText /\ (Standing(r) \/ \A i \in Ids : ~Automatic(i, r)),
         UNCHANGED <<recalls, recent, talk, job, requests, crashes>>
  PROVE  MemoryInv'
<1>1. exec \in [Runs -> Exec] /\ exec[r] \in Exec /\ RecallInv
  BY DEF MemoryInv, RecallInv
<1>2. /\ Ended(exec[r], step) \in Exec /\ Ended(exec[r], step).step = step
      /\ Ended(exec[r], step).after = exec[r].after /\ Ended(exec[r], step).picked = {}
      /\ Ended(exec[r], step).session = exec[r].session
  BY <1>1, EndedExec DEF RunSteps
<1>3. /\ exec' \in [Runs -> Exec] /\ exec'[r] = Ended(exec[r], step)
      /\ \A q \in Runs \ {r} : exec'[q] = exec[q]
  BY <1>1, <1>2
<1>4. /\ Tables' /\ Evolves
      /\ \A i \in Ids, q \in Runs : i >= next /\ Automatic(i, q)' => i = next /\ q = r /\ verdict # "skip"
  <2>1. exec[r].session \in Sessions \cup {NoSession}
    BY <1>1 DEF Exec
  <2> QED
    BY <2>1, StoreTables DEF MemoryInv
<1>5. Jobs'
  BY <1>4, JobsFollow DEF MemoryInv, Jobs
<1>6. RecallInv'
  BY <1>1, <1>2, <1>3, RecallKept DEF Untold
<1>7. \A q \in Runs : /\ exec[q].step = "none" => exec'[q].step = "none"
                      /\ exec'[q].step = "store" => exec'[q] = exec[q]
  BY <1>2, <1>3
<1>8. BannedInv' /\ banned' \in [Runs \cup Closers -> SUBSET Texts]
  BY <1>4, <1>7, BannedKept DEF MemoryInv, Counters
<1>9. ExecFollows /\ CloserInv'
  BY <1>2, <1>3, RunKeeps
<1>10. AutoInv'
  <2>1. \A q \in Runs : Standing(q)' => Standing(q)
    BY <1>7 DEF Standing
  <2>2. Standing(r)' => exec[r].step # "none" /\ Parent[exec[r].session] # NoSession
    <3>1. exec'[r].step # "store"
      BY <1>2, <1>3
    <3>2. ASSUME NEW c \in Closers, closer[c].run = r
          PROVE  exec[r].step # "none" /\ Parent[exec[r].session] # NoSession
      BY <3>2, ConstantsAssumption DEF MemoryInv, CloserInv, Closer
    <3> QED
      BY <3>1, <3>2 DEF Standing
  <2>3. \A q \in Runs : exec'[q].step = "store" /\ exec'[q].verdict # "skip" => exec'[q].text # NoText
    BY <1>7 DEF MemoryInv, AutoInv
  <2> HIDE DEF Standing
  <2> QED
    BY <1>4, <1>9, <2>1, <2>2, <2>3, AutoStored DEF MemoryInv
<1> QED
  BY <1>4, <1>5, <1>6, <1>8, <1>9, <1>10 DEF MemoryInv, Counters

LEMMA PersistAndCaptureKeeps ==
  ASSUME NEW r \in Runs, NEW t \in Texts \cup {NoText}, NEW pause \in BOOLEAN,
         MemoryInv, Observe, closer' = closer, PersistAndCapture(r, t, pause)
  PROVE  MemoryInv'
<1>1. /\ Verdict(r, t) \in Verdicts
      /\ Verdict(r, t) # "skip" => t # NoText /\ \A i \in Ids : ~Automatic(i, r)
  BY VerdictFacts
<1> DEFINE step == IF pause THEN "paused" ELSE "done"
<1>2. step \in {"paused", "done"} /\ exec' = [exec EXCEPT ![r] = Ended(@, step)]
  BY DEF PersistAndCapture
<1> HIDE DEF step
<1> QED
  BY <1>1, <1>2, CapturedKeeps DEF PersistAndCapture

LEMMA CaptureKeeps ==
  ASSUME NEW r \in Runs, MemoryInv, Observe, closer' = closer, Capture(r)
  PROVE  MemoryInv'
<1>1. exec[r].text \in Texts \cup {NoText} /\ exec[r].verdict \in Verdicts
  BY DEF MemoryInv, RecallInv, Exec
<1>2. exec[r].verdict # "skip" => exec[r].text # NoText /\ Standing(r)
  BY DEF MemoryInv, AutoInv, Capture, Standing
<1> HIDE DEF Standing
<1> QED
  BY <1>1, <1>2, CapturedKeeps DEF Capture

-----------------------------------------------------------------------------
(* The captures that follow a finalization. *)

LEMMA CloseKeeps ==
  ASSUME NEW c \in Closers, NEW s \in Sessions, NEW r \in Runs \cup {NoRun}, NEW t \in Texts,
         MemoryInv, Observe, Close(c, s, r, t)
  PROVE  MemoryInv'
<1> DEFINE verdict == Verdict(r, t)
           new == [step |-> "store", session |-> s, run |-> r, text |-> t, verdict |-> verdict]
<1>1. /\ closer \in [Closers -> Closer] /\ closer[c].step = "none" /\ verdict # "skip"
      /\ closer' = [closer EXCEPT ![c] = new] /\ UNCHANGED <<dbVars, job, exec, crashes>>
      /\ Parent[s] # NoSession
      /\ r \in Runs => exec[r].session = s
  BY ConstantsAssumption DEF MemoryInv, CloserInv, Close, Attached
<1>2. /\ verdict \in Verdicts
      /\ r \in Runs => \A i \in Ids : ~Automatic(i, r)
      /\ verdict = "insert" => t \notin Suppressed
  BY <1>1, VerdictFacts
<1> HIDE DEF verdict
<1>3. new \in Closer /\ new.step = "store" /\ new.run = r /\ new.text = t /\ new.verdict = verdict
  BY <1>2 DEF Closer
<1> HIDE DEF new
<1>4. closer' \in [Closers -> Closer] /\ closer'[c] = new /\ \A k \in Closers \ {c} : closer'[k] = closer[k]
  BY <1>1, <1>3
<1>5. requests' \in 0 .. MaxRequests
  <2>1. r = NoRun => requests < MaxRequests
    BY ConstantsAssumption DEF Close, Attached
  <2>2. requests' = IF r = NoRun THEN requests + 1 ELSE requests
    BY DEF Close
  <2> QED
    BY <2>1, <2>2, ConstantsAssumption DEF MemoryInv, Counters
<1>6. CloserInv'
  <2>1. r # NoRun => exec[r].step # "none" /\ Parent[exec[r].session] # NoSession
    <3>1. r # NoRun => r \in Runs /\ exec[r].session = s /\ s # NoSession
      BY <1>1, ConstantsAssumption
    <3> QED
      BY <1>1, <3>1 DEF MemoryInv, CloserInv
  <2>2. ASSUME NEW k \in Closers
        PROVE  /\ closer'[k].step = "none" => closer'[k].run = NoRun
               /\ closer'[k].step = "store" =>
                    /\ closer'[k].text \in Texts /\ closer'[k].verdict # "skip"
                    /\ closer'[k].run # NoRun =>
                         /\ exec[closer'[k].run].step # "none"
                         /\ Parent[exec[closer'[k].run].session] # NoSession
    <3>1. CASE k = c
      BY <1>1, <1>3, <1>4, <2>1, <3>1
    <3>2. CASE k # c
      BY <1>4, <3>2 DEF MemoryInv, CloserInv
    <3> QED
      BY <3>1, <3>2
  <2> QED
    BY <1>1, <1>4, <2>2 DEF MemoryInv, CloserInv
<1>7. RecallInv' /\ ExecFollows
  BY <1>1 DEF MemoryInv, RecallInv, dbVars, ExecFollows
<1>8. \A k \in Closers :
        \/ closer'[k] = closer[k]
        \/ /\ closer[k].step = "none"
           /\ closer'[k].run \in Runs => \A i \in Ids : ~Automatic(i, closer'[k].run)
           /\ closer'[k].verdict = "insert" => closer'[k].text \notin Suppressed
  BY <1>1, <1>2, <1>3, <1>4
<1> QED
  BY <1>1, <1>5, <1>6, <1>7, <1>8, StillKeeps DEF dbVars, MemoryInv, Counters

LEMMA CloseStoreKeeps ==
  ASSUME NEW c \in Closers, MemoryInv, Observe, CloseStore(c)
  PROVE  MemoryInv'
<1> DEFINE r == closer[c].run
           verdict == closer[c].verdict
<1>1. /\ closer \in [Closers -> Closer] /\ closer[c].step = "store" /\ closer[c] \in Closer
      /\ closer' = [closer EXCEPT ![c] = NotClosing]
      /\ Store(r, closer[c].session, closer[c].text, verdict)
      /\ UNCHANGED <<recalls, recent, talk, job, exec, requests, crashes>>
  BY DEF MemoryInv, CloserInv, CloseStore
<1>2. /\ r \in Runs \cup {NoRun} /\ closer[c].session \in Sessions \cup {NoSession}
      /\ verdict \in Verdicts /\ closer[c].text \in Texts
  BY <1>1 DEF MemoryInv, CloserInv, Closer
<1>3. NotClosing \in Closer /\ NotClosing.step = "none" /\ NotClosing.run = NoRun
  BY DEF NotClosing, Closer, Verdicts
<1>4. /\ closer' \in [Closers -> Closer] /\ closer'[c] = NotClosing
      /\ \A k \in Closers \ {c} : closer'[k] = closer[k]
  BY <1>1, <1>3
<1>5. /\ Tables' /\ Evolves
      /\ \A i \in Ids, q \in Runs : i >= next /\ Automatic(i, q)' => i = next /\ q = r /\ verdict # "skip"
  <2> DEFINE s == closer[c].session
             t == closer[c].text
  <2>1. /\ Store(r, s, t, verdict) /\ r \in Runs \cup {NoRun} /\ s \in Sessions \cup {NoSession}
        /\ verdict \in Verdicts /\ t \in Texts
    BY <1>1, <1>2
  <2>2. Tables
    BY DEF MemoryInv
  <2> HIDE DEF r, s, t, verdict
  <2> QED
    BY <2>1, <2>2, StoreTables
<1>6. Jobs'
  BY <1>1, <1>5, JobsFollow DEF MemoryInv, Jobs
<1>7. RecallInv' /\ ExecFollows
  BY <1>1 DEF MemoryInv, RecallInv, ExecFollows
<1>8. CloserInv'
  BY <1>1, <1>3, <1>4 DEF MemoryInv, CloserInv
<1>9. BannedInv' /\ banned' \in [Runs \cup Closers -> SUBSET Texts]
  BY <1>1, <1>3, <1>4, <1>5, BannedKept DEF MemoryInv, Counters
<1>10. AutoInv'
  <2>1. \A q \in Runs : Standing(q)' => Standing(q)
    BY <1>1, <1>3, <1>4, ConstantsAssumption DEF Standing
  <2>2. r \in Runs => Standing(r) /\ exec[r].step # "none" /\ Parent[exec[r].session] # NoSession
    BY <1>1, ConstantsAssumption DEF Standing, MemoryInv, CloserInv
  <2>3. \A q \in Runs : exec'[q].step = "store" /\ exec'[q].verdict # "skip" => exec'[q].text # NoText
    BY <1>1 DEF MemoryInv, AutoInv
  <2> HIDE DEF Standing, r, verdict
  <2> QED
    BY <1>2, <1>5, <1>7, <2>1, <2>2, <2>3, AutoStored DEF MemoryInv
<1> QED
  BY <1>1, <1>5, <1>6, <1>7, <1>8, <1>9, <1>10 DEF MemoryInv, Counters

-----------------------------------------------------------------------------
(* Sessions, time and crashes. *)

LEMMA ResetKeeps ==
  ASSUME NEW s \in Sessions, MemoryInv, Observe, closer' = closer, Reset(s)
  PROVE  MemoryInv'
<1>1. RecallInv'
  BY RecallKept DEF MemoryInv, RecallInv, Reset
<1>2. talk' \in [Sessions -> BOOLEAN] /\ requests' \in 0 .. MaxRequests
  BY ConstantsAssumption DEF MemoryInv, Counters, Reset
<1>3. ExecFollows /\ CloserInv'
  BY CloserKept DEF ExecFollows, Reset, MemoryInv
<1> QED
  BY <1>1, <1>2, <1>3, StillKeeps DEF Reset

LEMMA TimeKeeps ==
  ASSUME MemoryInv, Observe, closer' = closer, TwelveHoursPass
  PROVE  MemoryInv'
<1>1. RecallInv'
  BY RecallKept DEF MemoryInv, RecallInv, TwelveHoursPass
<1>3. ExecFollows /\ CloserInv'
  BY CloserKept DEF ExecFollows, TwelveHoursPass, MemoryInv
<1> QED
  BY <1>1, <1>3, StillKeeps DEF TwelveHoursPass, MemoryInv, Counters

LEMMA CrashKeeps ==
  ASSUME MemoryInv, Observe, Crash
  PROVE  MemoryInv'
<1>1. /\ exec \in [Runs -> Exec] /\ UNCHANGED dbVars /\ requests' = requests
      /\ job' = [h \in Handlers |-> Idle]
      /\ crashes' = crashes + 1 /\ crashes < MaxCrashes
      /\ exec' = [r \in Runs |-> IF exec[r].step \in {"none", "queued", "paused", "done"} THEN exec[r]
                                 ELSE Ended(exec[r], "lost")]
      /\ closer' = [c \in Closers |-> NotClosing]
  BY DEF Crash, MemoryInv, RecallInv
<1>2. \A r \in Runs : /\ Ended(exec[r], "lost") \in Exec /\ Ended(exec[r], "lost").step = "lost"
                      /\ Ended(exec[r], "lost").after = exec[r].after
                      /\ Ended(exec[r], "lost").picked = {}
                      /\ Ended(exec[r], "lost").session = exec[r].session
  BY <1>1, EndedExec DEF RunSteps
<1>3. /\ exec' \in [Runs -> Exec]
      /\ \A r \in Runs : /\ exec[r].step \notin Untold => exec'[r].step \notin Untold
                         /\ exec'[r].after = exec[r].after /\ exec'[r].picked \subseteq exec[r].picked
                         /\ exec[r].step = "none" => exec'[r].step = "none"
                         /\ exec'[r].step # "store"
      /\ ExecFollows
  BY <1>1, <1>2 DEF Untold, ExecFollows
<1>a. NotClosing \in Closer /\ NotClosing.step = "none" /\ NotClosing.run = NoRun
  BY DEF NotClosing, Closer, Verdicts
<1>b. closer' \in [Closers -> Closer] /\ \A c \in Closers : closer'[c] = NotClosing
  BY <1>1, <1>a
<1>c. CloserInv'
  BY <1>3, <1>a, <1>b DEF MemoryInv, CloserInv, ExecFollows
<1>4. Tables' /\ Evolves /\ NoneAutomatic
  BY <1>1, SameTables DEF MemoryInv, dbVars
<1>5. job' \in [Handlers -> Job] /\ \A h \in Handlers : job'[h] = Idle
  <2>1. Idle \in Job
    BY DEF Idle, Job
  <2> QED
    BY <1>1, <2>1
<1>6. Jobs'
  BY <1>4, <1>5, JobsFollow DEF MemoryInv
<1>7. AutoInv'
  <2>1. \A r \in Runs : ~Standing(r)'
    BY <1>3, <1>a, <1>b, ConstantsAssumption DEF Standing
  <2> HIDE DEF Standing
  <2> QED
    BY <1>3, <1>4, <2>1, AutoKept DEF MemoryInv
<1>8. RecallInv'
  BY <1>1, <1>3, RecallKept DEF MemoryInv, dbVars
<1>9. BannedInv' /\ banned' \in [Runs \cup Closers -> SUBSET Texts]
  BY <1>3, <1>4, <1>a, <1>b, BannedKept DEF MemoryInv, Counters
<1>10. Counters'
  BY <1>1, <1>9, ConstantsAssumption DEF MemoryInv, Counters, dbVars
<1> QED
  BY <1>4, <1>6, <1>7, <1>8, <1>9, <1>10, <1>c DEF MemoryInv

-----------------------------------------------------------------------------
(* The theorems. *)

LEMMA InitMemoryInv == Init => MemoryInv
<1> SUFFICES ASSUME Init PROVE MemoryInv
  OBVIOUS
<1>1. PICK old \in OldRows \cup {Absent} :
        /\ row = [i \in Ids |-> IF i = 1 THEN old ELSE Absent]
        /\ next = IF old = Absent THEN 1 ELSE 2
        /\ logged = [i \in Ids |-> IF i = 1 THEN Told(old) ELSE Absent]
        /\ talk = [s \in Sessions |-> old # Absent /\ old.kind = "summary" /\ old.session = s]
  BY DEF Init
<1>2. /\ MaxRows \in Nat /\ MaxRows > 0 /\ Ids = 1 .. MaxRows /\ old \in Row \cup {Absent}
      /\ MaxRequests \in Nat /\ MaxCrashes \in Nat
  BY ConstantsAssumption DEF Ids
<1>3. Told(old) \in Views \cup {Absent}
  BY <1>2, RowKinds, ViewOfEntry DEF Told
<1>4. /\ row \in [Ids -> Row \cup {Absent}] /\ next \in 1 .. MaxRows + 1
      /\ logged \in [Ids -> Views \cup {Absent}]
      /\ \A i \in Ids : i # 1 => row[i] = Absent /\ logged[i] = Absent
      /\ 1 \in Ids => row[1] = old /\ logged[1] = Told(old)
  BY <1>1, <1>2, <1>3
<1>5. Fresh
  <2>1. old = Absent => Told(old) = Absent
    BY DEF Told
  <2> QED
    BY <1>1, <1>2, <1>4, <2>1 DEF Fresh
<1>6. LogTellsState
  BY <1>4 DEF LogTellsState, Entries, Told
<1>7. Tables
  BY <1>4, <1>5, <1>6 DEF Tables
<1>8. Idle \in Job /\ Idle.step = "idle"
  BY DEF Idle, Job
<1>9. Jobs
  BY <1>8 DEF Jobs, JobKnows, Init
<1>10. /\ NotRun \in Exec /\ NotRun.step = "none" /\ NotRun.after = {} /\ NotRun.picked = {}
       /\ NotRun.session = NoSession
  BY DEF NotRun, Exec, RunSteps, Verdicts
<1>11. /\ exec \in [Runs -> Exec]
       /\ \A r \in Runs : exec[r].step = "none" /\ exec[r].after = {} /\ exec[r].session = NoSession
  BY <1>10 DEF Init
<1>a. NotClosing \in Closer /\ NotClosing.step = "none" /\ NotClosing.run = NoRun
  BY DEF NotClosing, Closer, Verdicts
<1>b. CloserInv /\ \A c \in Closers : closer[c].step = "none" /\ closer[c].run = NoRun
  BY <1>11, <1>a DEF Init, CloserInv
<1>12. AutoInv
  <2>1. \A r \in Runs : ~Standing(r)
    BY <1>11, <1>b, ConstantsAssumption DEF Standing
  <2>2. raced = {}
    BY DEF Init
  <2> HIDE DEF Standing
  <2> QED
    BY <1>4, <1>11, <2>1, <2>2 DEF AutoInv, Automatic
<1>13. RecallInv
  BY <1>11 DEF RecallInv, Init
<1>14. BannedInv /\ Counters
  BY <1>1, <1>2, <1>11, <1>b DEF BannedInv, Counters, Init
<1> QED
  BY <1>7, <1>9, <1>12, <1>13, <1>14, <1>b DEF MemoryInv

LEMMA ExecutionKeeps ==
  ASSUME MemoryInv, ExecutionStep, Observe, closer' = closer
  PROVE  MemoryInv'
BY PrepareKeeps, AcceptKeeps, AgainKeeps, PersistWithRecallKeeps, PersistAndCaptureKeeps,
   PersistResumedKeeps, LookKeeps, CaptureKeeps DEF ExecutionStep

LEMMA FinalKeeps ==
  ASSUME MemoryInv, FinalStep, Observe
  PROVE  MemoryInv'
BY CloseKeeps, CloseStoreKeeps DEF FinalStep

LEMMA SameMemory ==
  ASSUME MemoryInv, UNCHANGED vars
  PROVE  MemoryInv'
<1>1. /\ UNCHANGED <<row, next, logged, recalls, recent, talk, job, exec, closer, banned, raced, requests, crashes>>
  BY DEF vars, dbVars
<1>2. Tables' /\ Evolves
  BY <1>1, SameTables DEF MemoryInv
<1>3. Jobs'
  BY <1>1, <1>2, JobsFollow DEF MemoryInv, Jobs
<1>4. AutoInv' /\ CloserInv' /\ RecallInv' /\ Counters'
  BY <1>1 DEF MemoryInv, AutoInv, Automatic, Standing, CloserInv, RecallInv, Counters
<1>5. BannedInv'
  BY <1>1 DEF MemoryInv, BannedInv, Suppressed, Entries
<1> QED
  BY <1>2, <1>3, <1>4, <1>5 DEF MemoryInv

LEMMA NextMemoryInv == MemoryInv /\ [Next]_vars => MemoryInv'
<1> SUFFICES ASSUME MemoryInv, [Next]_vars PROVE MemoryInv'
  OBVIOUS
<1>1. CASE Next
  BY <1>1, HandlerKeeps, ExecutionKeeps, FinalKeeps, ResetKeeps, TimeKeeps, CrashKeeps DEF Next, Step
<1>2. CASE UNCHANGED vars
  BY <1>2, SameMemory
<1> QED
  BY <1>1, <1>2

LEMMA MemoryInvariant == Spec => []MemoryInv
<1>1. Init => MemoryInv
  BY InitMemoryInv
<1>2. MemoryInv /\ [Next]_vars => MemoryInv'
  BY NextMemoryInv
<1> QED
  BY <1>1, <1>2, PTL DEF Spec

\* Every row, whatever two requests wrote of it, and all that the threads hold keep their
\* types (memory_entries, session_summaries, memory_change_log, memory_recall_log).
THEOREM MemoryTyped == Spec => []TypeOK
<1>1. MemoryInv => TypeOK
  BY DEF MemoryInv, Tables, Jobs, AutoInv, CloserInv, RecallInv, Counters, TypeOK
<1> QED
  BY <1>1, MemoryInvariant, PTL

\* A run of a main session has one automatic summary at most; so has a delegated run, which
\* its worker, a sweep and a cancel may all capture, unless two of them overlapped
\* (capture_execution_result, _capture_terminal_memory).
THEOREM RunsSummarizedOnce == Spec => []OneSummaryPerRun
<1>1. ASSUME MemoryInv PROVE OneSummaryPerRun
  <2> SUFFICES ASSUME NEW r \in Runs
               PROVE  \/ Cardinality(AutoSummaries(r)) <= 1
                      \/ r \in raced /\ Parent[exec[r].session] # NoSession
    BY DEF OneSummaryPerRun
  <2>1. CASE r \in raced
    BY <1>1, <2>1 DEF MemoryInv, AutoInv
  <2>2. CASE r \notin raced
    <3>1. \A i, j \in AutoSummaries(r) : i = j
      BY <1>1, <2>2 DEF MemoryInv, AutoInv, Automatic, AutoSummaries, SummaryOf, Summaries
    <3>2. AutoSummaries(r) = {} \/ \E i : AutoSummaries(r) = {i}
      BY <3>1
    <3>3. Cardinality(AutoSummaries(r)) = 0 \/ Cardinality(AutoSummaries(r)) = 1
      BY <3>2, FS_EmptySet, FS_Singleton, Zenon
    <3> QED
      BY <3>3
  <2> QED
    BY <2>1, <2>2
<1> QED
  BY <1>1, MemoryInvariant, PTL

\* The change log tells what an entry is after any two writes (_log_change).
THEOREM LogFollowsRows == Spec => []LogTellsState
<1>1. MemoryInv => LogTellsState
  BY DEF MemoryInv, Tables
<1> QED
  BY <1>1, MemoryInvariant, PTL

\* What was told to a session is not told to it again within twelve hours by a run that
\* began after that (select_for_recall, record_recall_event).
THEOREM NotToldTwice == Spec => []RecalledOnce
<1>1. MemoryInv => RecalledOnce
  BY DEF MemoryInv, RecallInv, RecalledOnce
<1> QED
  BY <1>1, MemoryInvariant, PTL

\* A capture never brings back what the user suppresses since before the run
\* (capture_execution_result).
THEOREM SuppressedStaysOut == Spec => NoBlindRecapture
<1> DEFINE New(i) == row[i] = Absent /\ row'[i] # Absent /\ row'[i].kind = "entry"
           Clean(i) == /\ \A r \in Runs : exec[r].step \in {"running", "store"} /\ exec'[r] # exec[r]
                                            => row'[i].text \notin banned[r]
                       /\ \A c \in Closers : closer'[c] # closer[c] => row'[i].text \notin banned[c]
<1>1. ASSUME MemoryInv, ExecutionStep, closer' = closer, NEW i \in Ids, New(i), NEW r \in Runs,
             exec[r].step \in {"running", "store"}, exec'[r] # exec[r]
      PROVE  row'[i].text \notin banned[r]
  <2>1. exec' # exec /\ row' # row /\ exec \in [Runs -> Exec]
    BY <1>1 DEF MemoryInv, RecallInv
  <2>4. PICK q \in Runs :
          \/ \E s \in Sessions : Accept(q, s) \/ \E query \in Queries : Prepare(q, s, query)
          \/ \E query \in Queries : Claim(q, query) \/ Resume(q, query)
          \/ \E t \in Texts : PersistWithRecall(q, t)
          \/ \E t \in Texts \cup {NoText}, pause \in BOOLEAN : PersistAndCapture(q, t, pause)
          \/ \E completed \in BOOLEAN : PersistResumed(q, completed)
          \/ Look(q) \/ Capture(q)
    BY <1>1 DEF ExecutionStep
  <2>5. q = r
    <3>1. \E new : exec' = [exec EXCEPT ![q] = new]
      BY <2>1, <2>4 DEF Accept, Prepare, Claim, Resume, Select, PersistWithRecall, PersistAndCapture,
           PersistResumed, Look, Capture
    <3> QED
      BY <1>1, <2>1, <3>1
  <2>6. exec[r].session \in Sessions \cup {NoSession} /\ exec[r].verdict \in Verdicts
    BY <2>1 DEF Exec
  <2>7. ASSUME NEW t \in Texts \cup {NoText}, NEW pause \in BOOLEAN, PersistAndCapture(r, t, pause)
        PROVE  row'[i].text \notin banned[r]
    <3>1. Store(r, exec[r].session, t, Verdict(r, t))
      BY <2>7 DEF PersistAndCapture
    <3>2. /\ Verdict(r, t) \in Verdicts /\ (Verdict(r, t) # "skip" => t \in Texts)
          /\ Verdict(r, t) = "insert" => t \notin Suppressed
      BY VerdictFacts
    <3>3. Verdict(r, t) = "insert" /\ row'[i].text = t
      BY <1>1, <2>6, <3>1, <3>2, StoreTables DEF MemoryInv
    <3> QED
      BY <1>1, <3>2, <3>3 DEF MemoryInv, BannedInv
  <2>8. CASE Capture(r)
    <3>1. /\ Store(r, exec[r].session, exec[r].text, exec[r].verdict) /\ exec[r].step = "store"
      BY <2>8 DEF Capture
    <3>2. exec[r].verdict # "skip" => exec[r].text \in Texts
      BY <1>1, <2>1, <3>1 DEF MemoryInv, AutoInv, Exec
    <3>3. exec[r].verdict = "insert" /\ row'[i].text = exec[r].text
      BY <1>1, <2>6, <3>1, <3>2, StoreTables DEF MemoryInv
    <3> QED
      BY <1>1, <3>1, <3>3 DEF MemoryInv, BannedInv
  <2> QED
    BY <1>1, <2>1, <2>4, <2>5, <2>7, <2>8
    DEF Accept, Prepare, Claim, Resume, PersistWithRecall, PersistResumed, Look, dbVars
<1>2. ASSUME MemoryInv, NEW c \in Closers, CloseStore(c), NEW i \in Ids, New(i), NEW k \in Closers,
             closer'[k] # closer[k]
      PROVE  row'[i].text \notin banned[k]
  <2>1. /\ closer \in [Closers -> Closer] /\ closer[c].step = "store"
        /\ Store(closer[c].run, closer[c].session, closer[c].text, closer[c].verdict)
        /\ closer' = [closer EXCEPT ![c] = NotClosing]
    BY <1>2 DEF CloseStore, MemoryInv, CloserInv
  <2>2. k = c
    BY <1>2, <2>1
  <2>3. /\ closer[c].run \in Runs \cup {NoRun} /\ closer[c].session \in Sessions \cup {NoSession}
        /\ closer[c].verdict \in Verdicts /\ closer[c].text \in Texts
    BY <1>2, <2>1 DEF MemoryInv, CloserInv, Closer
  <2>4. closer[c].verdict = "insert" /\ row'[i].text = closer[c].text
    <3>1. \A j \in Ids : row[j] = Absent /\ row'[j] # Absent /\ row'[j].kind = "entry" =>
            closer[c].verdict = "insert" /\ row'[j].text = closer[c].text
      BY <1>2, <2>1, <2>3, StoreTables DEF MemoryInv
    <3> QED
      BY <1>2, <3>1
  <2> QED
    BY <1>2, <2>1, <2>2, <2>4 DEF MemoryInv, BannedInv
<1>3. ASSUME MemoryInv, Next, NEW i \in Ids, New(i) PROVE Clean(i)
  <2>1. CASE HandlerStep /\ closer' = closer
    <3>1. exec' = exec
      BY <1>3, <2>1, RequestJobs, HandlerWrites DEF HandlerStep, MemoryInv
    <3> QED
      BY <2>1, <3>1
  <2>2. CASE ExecutionStep /\ closer' = closer
    BY <1>1, <1>3, <2>2
  <2>3. CASE FinalStep
    <3>1. PICK c \in Closers : CloseStore(c)
      BY <1>3, <2>3 DEF FinalStep, Close, dbVars
    <3>2. exec' = exec
      BY <3>1 DEF CloseStore
    <3> QED
      BY <1>2, <1>3, <3>1, <3>2
  <2>4. CASE (\E s \in Sessions : Reset(s)) \/ TwelveHoursPass \/ Crash
    BY <1>3, <2>4 DEF Reset, TwelveHoursPass, Crash, dbVars
  <2> QED
    BY <1>3, <2>1, <2>2, <2>3, <2>4 DEF Next, Step
<1>4. MemoryInv /\ [Next]_vars => [\A i \in Ids : New(i) => Clean(i)]_vars
  BY <1>3
<1> QED
  BY <1>4, MemoryInvariant, PTL DEF Spec, NoBlindRecapture
=============================================================================
