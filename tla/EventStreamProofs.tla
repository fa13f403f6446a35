-------------------------- MODULE EventStreamProofs --------------------------
(***************************************************************************)
(* Theorems about EventStream, for any runs, scripts and number of lost      *)
(* connections: what the desktop shows is in order, complete when the server *)
(* says so, and summed up by the card.                                       *)
(***************************************************************************)
EXTENDS EventStream, TLAPS

-----------------------------------------------------------------------------
(* The inductive invariant. *)

Cards == {"none", "connecting", "running", "awaiting_approval", "completed", "failed"}

Types ==
  /\ script \in [Runs -> Seq(Seq(Kinds) \ {<<>>})]
  /\ stage \in [Runs -> Nat]
  /\ open \in [Runs -> Nat]
  /\ clock \in Nat
  /\ log \subseteq Events
  /\ conn \in {"closed", "open", "ended"}
  /\ polled \in BOOLEAN /\ ready \in BOOLEAN
  /\ cursor \in log \cup {None} /\ last \in log \cup {None}
  /\ batch \subseteq log /\ seen \subseteq log
  /\ shown \in Seq(Events) /\ \A i \in DOMAIN shown : shown[i] \in seen
  /\ card \in [Runs -> Cards]

\* The stamps of the transaction under way.
Held(r) ==
  IF open[r] = 0 THEN {}
  ELSE open[r] .. (open[r] + Len(script[r][stage[r] + 1]) - 1)

\* No stamp is given twice, although transactions overlap.
StampsUnique ==
  /\ \A r \in Runs : open[r] # 0 => stage[r] < Len(script[r])
  /\ \A r \in Runs : Held(r) \subseteq 1 .. clock
  /\ \A r, q \in Runs : r # q => Held(r) \cap Held(q) = {}
  /\ \A e \in log : e.at \in 1 .. clock /\ \A r \in Runs : e.at \notin Held(r)
  /\ \A e, f \in log : e.at = f.at => e = f

\* What was seen lies up to the last event, what is to be sent behind it.
CursorSplits ==
  /\ conn = "open" => cursor = last
  /\ conn # "open" \/ ~polled => batch = {}
  /\ last = None => seen = {}
  /\ last # None => \A e \in seen : e.at <= last.at
  /\ \A e \in batch : cursor # None => cursor.at < e.at

\* Until stream.ready, the history is on its way.
HistoryOnItsWay ==
  follow = Session /\ conn = "open" /\ ~ready =>
    backlog \subseteq IF polled THEN seen \cup batch ELSE After(cursor)

\* The card of a run says what the last event that was shown of it says.
CardAgrees ==
  \A r \in Runs \ late, e \in seen :
    e.run = r /\ (\A f \in seen : f.run = r => f.at <= e.at)
      => /\ e.kind = "approval" => card[r] = "awaiting_approval"
         /\ e.kind \in {"completed", "failed"} => card[r] = e.kind

StreamInv ==
  Types /\ StampsUnique /\ CursorSplits /\ ShownInOrder /\ HistoryOnItsWay /\ CardAgrees

-----------------------------------------------------------------------------
(* The stamps. *)

Stamping == Types /\ StampsUnique

\* What an execution is about to commit is a transaction of its script.
LEMMA NextTransaction ==
  ASSUME NEW r \in Runs, Types, stage[r] < Len(script[r])
  PROVE  /\ script[r][stage[r] + 1] \in Seq(Kinds)
         /\ Len(script[r][stage[r] + 1]) \in Nat \ {0}
<1>1. script[r] \in Seq(Seq(Kinds) \ {<<>>}) /\ stage[r] + 1 \in 1 .. Len(script[r])
  BY DEF Types
<1>2. script[r][stage[r] + 1] \in Seq(Kinds) \ {<<>>}
  BY <1>1
<1> QED
  BY <1>2

\* The events of a transaction carry the stamps it holds, each its own.
LEMMA ProjectedEvents ==
  ASSUME NEW r \in Runs, Stamping, open[r] # 0
  PROVE  /\ Projected(r) \subseteq Events
         /\ \A e \in Projected(r) : e.run = r /\ e.at \in Held(r)
         /\ \A e, f \in Projected(r) : e.at = f.at => e = f
<1> DEFINE kinds == script[r][stage[r] + 1]
<1>1. kinds \in Seq(Kinds) /\ Len(kinds) \in Nat \ {0} /\ open[r] \in Nat \ {0}
  BY NextTransaction DEF Stamping, Types, StampsUnique
<1>2. DOMAIN kinds = 1 .. Len(kinds) /\ \A k \in DOMAIN kinds : kinds[k] \in Kinds
  BY <1>1
<1>3. Projected(r) = {[run |-> r, kind |-> kinds[k], at |-> open[r] + k - 1] : k \in 1 .. Len(kinds)}
  BY <1>2 DEF Projected
<1>4. Held(r) = open[r] .. (open[r] + Len(kinds) - 1)
  BY DEF Stamping, Held
<1> HIDE DEF kinds
<1>5. \A k \in 1 .. Len(kinds) :
        /\ [run |-> r, kind |-> kinds[k], at |-> open[r] + k - 1] \in Events
        /\ open[r] + k - 1 \in Held(r)
  BY <1>1, <1>2, <1>4 DEF Events
<1> QED
  BY <1>1, <1>3, <1>5

\* A transaction that begins takes stamps nobody has.
LEMMA StampStamps ==
  ASSUME NEW r \in Runs, Stamping, Stamp(r)
  PROVE  StampsUnique' /\ open' \in [Runs -> Nat] /\ clock' \in Nat
<1> DEFINE n == Len(script[r][stage[r] + 1])
<1>1. n \in Nat \ {0} /\ clock' = clock + n /\ clock \in Nat /\ open' = [open EXCEPT ![r] = clock + 1]
      /\ open \in [Runs -> Nat] /\ log' = log /\ script' = script /\ stage' = stage
  BY NextTransaction DEF Stamping, Types, Stamp, execVars
<1> HIDE DEF n
<1>2. Held(r)' = (clock + 1) .. (clock + n)
  <2>1. open'[r] = clock + 1 /\ clock + 1 # 0 /\ clock + 1 + n - 1 = clock + n
    BY <1>1
  <2>2. Held(r)' = open'[r] .. (open'[r] + n - 1)
    BY <1>1, <2>1 DEF Held, n
  <2> QED
    BY <2>1, <2>2
<1>3. \A q \in Runs \ {r} : Held(q)' = Held(q)
  BY <1>1 DEF Held
<1>4. \A q \in Runs : Held(q) \subseteq 1 .. clock
  BY DEF Stamping, StampsUnique
<1>5. \A q \in Runs : Held(q)' \subseteq 1 .. clock'
  BY <1>1, <1>2, <1>3, <1>4
<1>6. \A q, p \in Runs : q # p => Held(q)' \cap Held(p)' = {}
  <2>1. \A q \in Runs \ {r} : Held(q)' \cap Held(r)' = {}
    BY <1>1, <1>2, <1>3, <1>4
  <2> QED
    BY <1>3, <2>1 DEF Stamping, StampsUnique
<1>7. \A e \in log : e.at \in 1 .. clock' /\ \A q \in Runs : e.at \notin Held(q)'
  BY <1>1, <1>2, <1>3 DEF Stamping, StampsUnique
<1>8. \A q \in Runs : open'[q] # 0 => stage[q] < Len(script[q])
  BY <1>1 DEF Stamping, StampsUnique, Stamp
<1> QED
  BY <1>1, <1>5, <1>6, <1>7, <1>8 DEF Stamping, StampsUnique

\* A commit hands its stamps over to the events.
LEMMA CommitStamps ==
  ASSUME NEW r \in Runs, Stamping, Commit(r)
  PROVE  /\ StampsUnique'
         /\ log \subseteq log' /\ log' \subseteq Events
         /\ stage' \in [Runs -> Nat] /\ open' \in [Runs -> Nat]
<1>1. /\ log' = log \cup Projected(r) /\ script' = script /\ clock' = clock
      /\ stage' = [stage EXCEPT ![r] = @ + 1] /\ open' = [open EXCEPT ![r] = 0] /\ open[r] # 0
      /\ stage \in [Runs -> Nat] /\ open \in [Runs -> Nat] /\ log \subseteq Events
  BY DEF Stamping, Types, Commit
<1>2. /\ Projected(r) \subseteq Events
      /\ \A e \in Projected(r) : e.at \in Held(r)
      /\ \A e, f \in Projected(r) : e.at = f.at => e = f
  BY <1>1, ProjectedEvents
<1>3. Held(r)' = {} /\ \A q \in Runs \ {r} : Held(q)' = Held(q)
  BY <1>1 DEF Held
<1>4. \A q \in Runs : Held(q)' \subseteq 1 .. clock'
  BY <1>1, <1>3 DEF Stamping, StampsUnique
<1>5. \A q, p \in Runs : q # p => Held(q)' \cap Held(p)' = {}
  BY <1>3 DEF Stamping, StampsUnique
<1>6. \A e \in log' : e.at \in 1 .. clock' /\ \A q \in Runs : e.at \notin Held(q)'
  BY <1>1, <1>2, <1>3 DEF Stamping, StampsUnique
<1>7. \A e, f \in log' : e.at = f.at => e = f
  BY <1>1, <1>2 DEF Stamping, StampsUnique
<1>8. \A q \in Runs : open'[q] # 0 => stage'[q] < Len(script'[q])
  BY <1>1 DEF Stamping, StampsUnique
<1> QED
  BY <1>1, <1>2, <1>4, <1>5, <1>6, <1>7, <1>8 DEF StampsUnique

\* What does not touch the executions keeps the stamps.
LEMMA QuietStamps ==
  ASSUME StampsUnique, UNCHANGED execVars
  PROVE  StampsUnique'
BY DEF StampsUnique, execVars, Held

-----------------------------------------------------------------------------
(* Each action keeps the invariant. *)

\* The events of a log that is only added to.
LEMMA LogGrows ==
  ASSUME StreamInv, script' = script, stage' \in [Runs -> Nat], open' \in [Runs -> Nat],
         clock' \in Nat, StampsUnique', log \subseteq log', log' \subseteq Events,
         UNCHANGED <<connVars, last, seen, shown, card, late, backlog>>
  PROVE  StreamInv'
<1>1. Types'
  BY DEF StreamInv, Types, connVars
<1>2. CursorSplits' /\ ShownInOrder' /\ CardAgrees'
  BY DEF StreamInv, CursorSplits, ShownInOrder, CardAgrees, connVars
<1>3. HistoryOnItsWay'
  <2>1. After(cursor) \subseteq After(cursor)'
    BY DEF After, Followed, connVars
  <2> QED
    BY <2>1 DEF StreamInv, HistoryOnItsWay, connVars
<1> QED
  BY <1>1, <1>2, <1>3 DEF StreamInv

LEMMA StampKeeps ==
  ASSUME NEW r \in Runs, StreamInv, Stamp(r)
  PROVE  StreamInv'
<1>1. StampsUnique' /\ open' \in [Runs -> Nat] /\ clock' \in Nat
  BY StampStamps DEF StreamInv, Stamping
<1>2. /\ UNCHANGED <<script, stage, log>> /\ stage \in [Runs -> Nat] /\ log \subseteq Events
      /\ UNCHANGED <<connVars, last, seen, shown, card, late, backlog>>
  BY DEF Stamp, StreamInv, Types
<1> QED
  BY <1>1, <1>2, LogGrows

LEMMA CommitKeeps ==
  ASSUME NEW r \in Runs, StreamInv, Commit(r)
  PROVE  StreamInv'
<1>1. /\ StampsUnique' /\ log \subseteq log' /\ log' \subseteq Events
      /\ stage' \in [Runs -> Nat] /\ open' \in [Runs -> Nat]
  BY CommitStamps DEF StreamInv, Stamping
<1>2. /\ UNCHANGED <<script, clock>> /\ clock \in Nat
      /\ UNCHANGED <<connVars, last, seen, shown, card, late, backlog>>
  BY DEF Commit, StreamInv, Types
<1> QED
  BY <1>1, <1>2, LogGrows

\* The first poll sends the history, a later one what came since.
LEMMA PollKeeps ==
  ASSUME StreamInv, Poll
  PROVE  StreamInv'
<1>1. /\ UNCHANGED execVars /\ UNCHANGED <<follow, conn, cursor, ready, last, seen, shown, card, late, backlog>>
      /\ batch' = After(cursor) /\ polled' = TRUE
      /\ conn = "open" /\ (polled => ready)
  BY DEF Poll, chatVars
<1>2. After(cursor) \subseteq log /\ \A e \in After(cursor) : cursor # None => cursor.at < e.at
  BY DEF After, Followed
<1>3. Types'
  BY <1>1, <1>2 DEF StreamInv, Types, execVars
<1>4. StampsUnique'
  BY <1>1, QuietStamps DEF StreamInv
<1>5. CursorSplits' /\ ShownInOrder' /\ CardAgrees'
  BY <1>1, <1>2 DEF StreamInv, CursorSplits, ShownInOrder, CardAgrees
<1>6. HistoryOnItsWay'
  BY <1>1 DEF StreamInv, HistoryOnItsWay
<1> QED
  BY <1>3, <1>4, <1>5, <1>6 DEF StreamInv

LEMMA SayReadyKeeps ==
  ASSUME StreamInv, SayReady
  PROVE  StreamInv'
<1>1. /\ UNCHANGED execVars /\ UNCHANGED <<follow, conn, cursor, batch, polled, last, seen, shown, card, late>>
      /\ ready' = TRUE
  BY DEF SayReady, chatVars
<1>2. StampsUnique'
  BY <1>1, QuietStamps DEF StreamInv
<1> QED
  BY <1>1, <1>2 DEF StreamInv, Types, execVars, CursorSplits, ShownInOrder, CardAgrees, HistoryOnItsWay

\* What arrives was not seen, and lies behind everything that was.
LEMMA Arrival ==
  ASSUME StreamInv, NEW e \in batch, conn = "open", \A f \in batch : e.at <= f.at
  PROVE  /\ e \in log /\ e \in Events /\ e \notin seen
         /\ \A f \in seen : f.at < e.at
         /\ \A f \in batch \ {e} : e.at < f.at
<1>1. e \in log /\ e \in Events /\ batch \subseteq log /\ seen \subseteq log /\ log \subseteq Events
  BY DEF StreamInv, Types
<1>2. cursor = last /\ (cursor # None => cursor.at < e.at) /\ (cursor = None => seen = {})
  BY DEF StreamInv, CursorSplits
<1>3. \A f \in seen : f.at < e.at
  <2> SUFFICES ASSUME NEW f \in seen PROVE f.at < e.at
    OBVIOUS
  <2>1. cursor # None /\ cursor \in log
    BY <1>2 DEF StreamInv, Types
  <2>2. f.at <= cursor.at /\ cursor.at < e.at
    BY <1>2, <2>1 DEF StreamInv, CursorSplits
  <2>3. f.at \in Nat /\ cursor.at \in Nat /\ e.at \in Nat
    BY <1>1, <2>1 DEF Events
  <2> QED
    BY <2>2, <2>3
<1>4. \A f \in batch \ {e} : e.at < f.at
  <2> SUFFICES ASSUME NEW f \in batch \ {e} PROVE e.at < f.at
    OBVIOUS
  <2>1. e.at # f.at /\ e.at <= f.at
    BY <1>1 DEF StreamInv, StampsUnique
  <2>2. f.at \in Nat /\ e.at \in Nat
    BY <1>1 DEF Events
  <2> QED
    BY <2>1, <2>2
<1>5. e \notin seen
  <2>1. e.at \in Nat
    BY <1>1 DEF Events
  <2> QED
    BY <1>3, <2>1
<1> QED
  BY <1>1, <1>3, <1>4, <1>5

LEMMA DeliverKeeps ==
  ASSUME StreamInv, Deliver
  PROVE  StreamInv'
<1>1. PICK e \in batch :
        /\ \A f \in batch : e.at <= f.at
        /\ cursor' = e /\ last' = e /\ seen' = seen \cup {e}
        /\ IF e \in seen THEN UNCHANGED <<shown, card>> ELSE Fold(e)
        /\ batch' = IF EndsStream(e) THEN {} ELSE batch \ {e}
        /\ conn' = IF EndsStream(e) THEN "ended" ELSE conn
  BY DEF Deliver
<1>2. /\ UNCHANGED execVars /\ UNCHANGED <<follow, polled, ready, late, backlog>> /\ conn = "open"
  BY DEF Deliver
<1>3. /\ e \in log /\ e \in Events /\ e \notin seen
      /\ \A f \in seen : f.at < e.at
      /\ \A f \in batch \ {e} : e.at < f.at
  BY <1>1, <1>2, Arrival
<1>4. /\ e.run \in Runs /\ e.kind \in Kinds /\ e.at \in Nat
      /\ shown' = Append(shown, e) /\ card' = [card EXCEPT ![e.run] = CardAfter(@, e.kind)]
  BY <1>1, <1>3 DEF Events, Fold
<1>5. CardAfter(card[e.run], e.kind) \in Cards
  BY DEF CardAfter, Cards
<1>6. Types'
  <2>1. /\ shown \in Seq(Events) /\ \A i \in DOMAIN shown : shown[i] \in seen
        /\ card \in [Runs -> Cards]
    BY DEF StreamInv, Types
  <2>2. shown' \in Seq(Events) /\ \A i \in DOMAIN shown' : shown'[i] \in seen'
    BY <1>1, <1>3, <1>4, <2>1
  <2>3. card' \in [Runs -> Cards]
    BY <1>4, <1>5, <2>1
  <2> QED
    BY <1>1, <1>2, <1>3, <2>2, <2>3 DEF StreamInv, Types, execVars
<1>7. StampsUnique'
  BY <1>2, QuietStamps DEF StreamInv
<1>8. CursorSplits'
  <2>1. \A f \in seen' : f.at <= e.at
    BY <1>1, <1>3, <1>4 DEF StreamInv, Types, Events
  <2>2. e # None
    BY <1>3, ConstantsAssumption
  <2>3. \A f \in batch' : e.at < f.at
    BY <1>1, <1>3
  <2>4. conn' # "open" \/ ~polled' => batch' = {}
    BY <1>1, <1>2 DEF StreamInv, CursorSplits
  <2> QED
    BY <1>1, <2>1, <2>2, <2>3, <2>4 DEF CursorSplits
<1>9. ShownInOrder'
  <2>1. shown \in Seq(Events) /\ \A i \in DOMAIN shown : shown[i].at < e.at
    BY <1>3 DEF StreamInv, Types
  <2>2. \A i, j \in DOMAIN shown : i < j => shown[i].at < shown[j].at
    BY DEF StreamInv, ShownInOrder
  <2> QED
    BY <1>4, <2>1, <2>2 DEF ShownInOrder
<1>10. HistoryOnItsWay'
  BY <1>1, <1>2 DEF StreamInv, HistoryOnItsWay, EndsStream, CursorSplits
<1>11. CardAgrees'
  <2> SUFFICES ASSUME NEW r \in Runs \ late, NEW f \in seen',
                      f.run = r, \A g \in seen' : g.run = r => g.at <= f.at
               PROVE  /\ f.kind = "approval" => card'[r] = "awaiting_approval"
                      /\ f.kind \in {"completed", "failed"} => card'[r] = f.kind
    BY <1>2 DEF CardAgrees
  <2>1. CASE r = e.run
    <3>1. f = e
      <4>1. e.at <= f.at
        BY <1>1, <2>1
      <4>2. f \in seen => f.at < e.at /\ f.at \in Nat
        BY <1>3 DEF StreamInv, Types, Events
      <4> QED
        BY <1>1, <1>4, <4>1, <4>2
    <3>2. card'[r] = CardAfter(card[r], e.kind)
      BY <1>4, <2>1 DEF StreamInv, Types
    <3> QED
      BY <3>1, <3>2 DEF CardAfter
  <2>2. CASE r # e.run
    <3>1. card'[r] = card[r] /\ f \in seen
      BY <1>1, <1>4, <2>2 DEF StreamInv, Types
    <3> QED
      BY <1>1, <3>1 DEF StreamInv, CardAgrees
  <2> QED
    BY <2>1, <2>2
<1> QED
  BY <1>6, <1>7, <1>8, <1>9, <1>10, <1>11 DEF StreamInv

\* An answer that overwrites an outcome is one of those that came too late.
LEMMA BindKeeps ==
  ASSUME NEW q \in Runs, StreamInv, Bind(q)
  PROVE  StreamInv'
<1>1. /\ UNCHANGED execVars /\ UNCHANGED connVars /\ UNCHANGED <<last, seen, shown, backlog>>
      /\ card' = [card EXCEPT ![q] = CardOnReply(@)]
      /\ late' = IF card[q] \in {"none", "running"} THEN late ELSE late \cup {q}
      /\ card \in [Runs -> Cards]
  BY DEF Bind, StreamInv, Types
<1>2. card' \in [Runs -> Cards]
  <2>1. CardOnReply(card[q]) \in Cards
    BY DEF CardOnReply, Cards
  <2> QED
    BY <1>1, <2>1
<1>3. StampsUnique'
  BY <1>1, QuietStamps DEF StreamInv
<1>4. CardAgrees'
  <2> SUFFICES ASSUME NEW r \in Runs \ late', NEW e \in seen,
                      e.run = r, \A f \in seen : f.run = r => f.at <= e.at
               PROVE  /\ e.kind = "approval" => card'[r] = "awaiting_approval"
                      /\ e.kind \in {"completed", "failed"} => card'[r] = e.kind
    BY <1>1 DEF CardAgrees
  <2>1. r \in Runs \ late
    BY <1>1
  <2>2. /\ e.kind = "approval" => card[r] = "awaiting_approval"
        /\ e.kind \in {"completed", "failed"} => card[r] = e.kind
    BY <2>1 DEF StreamInv, CardAgrees
  <2>3. CASE r = q
    BY <1>1, <2>2, <2>3
  <2>4. CASE r # q
    BY <1>1, <2>2, <2>4
  <2> QED
    BY <2>3, <2>4
<1>5. Types' /\ CursorSplits' /\ ShownInOrder' /\ HistoryOnItsWay'
  BY <1>1, <1>2 DEF StreamInv, Types, execVars, connVars, CursorSplits, ShownInOrder,
       HistoryOnItsWay, After, Followed
<1> QED
  BY <1>3, <1>4, <1>5 DEF StreamInv

LEMMA DiscardKeeps ==
  ASSUME NEW r \in Runs, StreamInv, Discard(r)
  PROVE  StreamInv'
<1>1. /\ UNCHANGED execVars /\ UNCHANGED connVars /\ UNCHANGED <<last, seen, shown, card, late, backlog>>
  BY DEF Discard
<1>2. StampsUnique'
  BY <1>1, QuietStamps DEF StreamInv
<1> QED
  BY <1>1, <1>2 DEF StreamInv, Types, execVars, connVars, CursorSplits, ShownInOrder, CardAgrees,
       HistoryOnItsWay, After, Followed

LEMMA DropKeeps ==
  ASSUME StreamInv, Drop
  PROVE  StreamInv'
<1>1. /\ UNCHANGED execVars /\ UNCHANGED <<follow, cursor, polled, ready, last, seen, shown, card, late, backlog>>
      /\ conn' = "closed" /\ batch' = {}
  BY DEF Drop, chatVars
<1>2. StampsUnique'
  BY <1>1, QuietStamps DEF StreamInv
<1> QED
  BY <1>1, <1>2 DEF StreamInv, Types, execVars, CursorSplits, ShownInOrder, CardAgrees, HistoryOnItsWay

\* The history to replay is what lies behind the last event the desktop has.
LEMMA ConnectKeeps ==
  ASSUME StreamInv, Connect
  PROVE  StreamInv'
<1>1. /\ UNCHANGED execVars /\ UNCHANGED <<follow, batch, last, seen, shown, card, late>>
      /\ conn = "closed" /\ conn' = "open" /\ cursor' = last /\ polled' = FALSE /\ ready' = (follow # Session)
      /\ backlog' = IF follow = Session THEN After(last) ELSE {}
  BY DEF Connect, chatVars
<1>2. batch' = {}
  BY <1>1 DEF StreamInv, CursorSplits
<1>3. StampsUnique'
  BY <1>1, QuietStamps DEF StreamInv
<1>4. HistoryOnItsWay'
  BY <1>1 DEF HistoryOnItsWay, After, Followed, execVars
<1> QED
  BY <1>1, <1>2, <1>3, <1>4 DEF StreamInv, Types, execVars, CursorSplits, ShownInOrder, CardAgrees

LEMMA ReopenKeeps ==
  ASSUME StreamInv, Reopen
  PROVE  StreamInv'
<1>1. /\ UNCHANGED execVars /\ UNCHANGED <<follow, polled, ready, card, late, backlog>>
      /\ conn' = "closed" /\ batch' = {} /\ cursor' = None
      /\ last' = None /\ seen' = {} /\ shown' = <<>>
  BY DEF Reopen
<1>2. StampsUnique'
  BY <1>1, QuietStamps DEF StreamInv
<1>3. shown' \in Seq(Events) /\ DOMAIN shown' = {}
  BY <1>1
<1> QED
  BY <1>1, <1>2, <1>3 DEF StreamInv, Types, execVars, CursorSplits, ShownInOrder, CardAgrees, HistoryOnItsWay

-----------------------------------------------------------------------------
(* The theorems. *)

LEMMA InitStreamInv == Init => StreamInv
<1> SUFFICES ASSUME Init PROVE StreamInv
  OBVIOUS
<1>1. Types
  <2>1. script \in [Runs -> Seq(Seq(Kinds) \ {<<>>})]
    BY ConstantsAssumption DEF Init
  <2>2. shown \in Seq(Events) /\ DOMAIN shown = {}
    BY DEF Init
  <2> QED
    BY <2>1, <2>2 DEF Init, Types, Cards
<1> QED
  BY <1>1 DEF Init, StreamInv, StampsUnique, Held, CursorSplits, ShownInOrder, HistoryOnItsWay, CardAgrees

LEMMA NextStreamInv == StreamInv /\ [Next]_vars => StreamInv'
<1> SUFFICES ASSUME StreamInv, [Next]_vars PROVE StreamInv'
  OBVIOUS
<1>1. ASSUME NEW r \in Runs, Stamp(r) \/ Commit(r) \/ Bind(r) \/ Discard(r) PROVE StreamInv'
  BY <1>1, StampKeeps, CommitKeeps, BindKeeps, DiscardKeeps
<1>2. ASSUME ServerStep PROVE StreamInv'
  BY <1>2, PollKeeps, SayReadyKeeps, DeliverKeeps DEF ServerStep
<1>3. CASE Drop
  BY <1>3, DropKeeps
<1>4. CASE Connect
  BY <1>4, ConnectKeeps
<1>5. CASE Reopen
  BY <1>5, ReopenKeeps
<1>6. CASE UNCHANGED vars
  <2>1. StampsUnique'
    BY <1>6, QuietStamps DEF StreamInv, vars
  <2> QED
    BY <1>6, <2>1 DEF StreamInv, Types, CursorSplits, ShownInOrder, CardAgrees, HistoryOnItsWay,
         After, Followed, vars, execVars, connVars, chatVars
<1> QED
  BY <1>1, <1>2, <1>3, <1>4, <1>5, <1>6 DEF Next

LEMMA StreamInvariant == Spec => []StreamInv
<1>1. Init => StreamInv
  BY InitStreamInv
<1>2. StreamInv /\ [Next]_vars => StreamInv'
  BY NextStreamInv
<1> QED
  BY <1>1, <1>2, PTL DEF Spec

\* What the desktop folds is strictly in the order of the stamps, over any number of lost
\* connections and for any scripts (connectSessionExecutionStream, list_events).
THEOREM ShownOnceInOrder == Spec => []ShownInOrder
<1>1. StreamInv => ShownInOrder
  BY DEF StreamInv
<1> QED
  BY <1>1, StreamInvariant, PTL

\* stream.ready is said when the whole history is shown (stream_session_events).
THEOREM ReadyEndsHistory == Spec => ReadyMeansReplayed
<1> DEFINE Replayed == follow = Session /\ ~ready /\ ready' => backlog \subseteq seen
<1>1. StreamInv /\ [Next]_vars => [Replayed]_vars
  <2> SUFFICES ASSUME StreamInv, Next, follow = Session, ~ready, ready' PROVE backlog \subseteq seen
    BY DEF Replayed
  <2>1. ready' # ready
    OBVIOUS
  <2>2. ~Poll /\ ~Deliver /\ ~Drop /\ ~Reopen /\ \A r \in Runs : ~Stamp(r) /\ ~Commit(r) /\ ~Bind(r) /\ ~Discard(r)
    BY <2>1 DEF Poll, Deliver, Drop, Reopen, Stamp, Commit, Bind, Discard, connVars
  <2>3. ~Connect
    BY DEF Connect
  <2>4. SayReady
    BY <2>2, <2>3 DEF Next, ServerStep
  <2> QED
    BY <2>4 DEF SayReady, StreamInv, HistoryOnItsWay
<1> QED
  BY <1>1, StreamInvariant, PTL DEF Spec, ReadyMeansReplayed

\* The card of a run whose events were all shown says what its last event says
\* (chatExecutionStateReducer).
THEOREM CardsTellOutcomes == Spec => []CardTellsOutcome
<1>1. StreamInv => CardTellsOutcome
  BY DEF StreamInv, CardAgrees, CardTellsOutcome, LastOf, Types
<1> QED
  BY <1>1, StreamInvariant, PTL
=============================================================================
