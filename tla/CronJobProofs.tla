--------------------------- MODULE CronJobProofs ---------------------------
(***************************************************************************)
(* Types of CronJobs and what its steps may not do, for any jobs, handlers, *)
(* schedules, calendar and host zone, and what a plan is on a host that    *)
(* keeps UTC.                                                              *)
(***************************************************************************)
EXTENDS CronJobs, TLAPS

-----------------------------------------------------------------------------
(* Arithmetic of the calendar: CronSchedules for any day, week and zone. *)

LEMMA DivMod ==
  ASSUME NEW d \in Nat \ {0}, NEW x \in Int
  PROVE  /\ x \div d \in Int /\ x % d \in 0 .. d - 1
         /\ x = d * (x \div d) + (x % d)
  OBVIOUS

LEMMA Multiples ==
  ASSUME NEW d \in Nat \ {0}, NEW n \in Int
  PROVE  /\ d * n \in Int
         /\ n >= 1 => d * n >= d
         /\ n <= -1 => d * n <= -d
         /\ n = 0 => d * n = 0
  OBVIOUS

LEMMA Distribute ==
  ASSUME NEW d \in Int, NEW a \in Int, NEW b \in Int
  PROVE  /\ d * (a + b) = d * a + d * b
         /\ d * (a - b) = d * a - d * b
         /\ a * d = d * a
         /\ d * a \in Int /\ d * b \in Int
  OBVIOUS

LEMMA DivModUnique ==
  ASSUME NEW d \in Nat \ {0}, NEW q \in Int, NEW r \in 0 .. d - 1
  PROVE  /\ (d * q + r) % d = r
         /\ (d * q + r) \div d = q
<1> DEFINE x == d * q + r
           p == x \div d
<1>1. d * q \in Int BY Multiples
<1>2. x \in Int /\ d \in Int BY <1>1
<1>3. p \in Int /\ x % d \in 0 .. d - 1 /\ x = d * p + (x % d)
  BY <1>2, DivMod
<1>4. d * (q - p) = d * q - d * p /\ d * p \in Int
  BY <1>2, <1>3, Distribute
<1> HIDE DEF p
<1>5. d * (q - p) = (x % d) - r
  BY <1>1, <1>3, <1>4
<1>6. q - p \in Int BY <1>3
<1> DEFINE n == q - p
<1>7. n \in Int /\ d * n = (x % d) - r BY <1>5, <1>6
<1> HIDE DEF n, x
<1>8. ~(n >= 1) /\ ~(n <= -1)
  BY <1>3, <1>7, Multiples
<1>9. n = 0 BY <1>7, <1>8
<1>10. d * n = 0 BY <1>9
<1>11. p = q /\ x % d = r BY <1>3, <1>7, <1>9, <1>10 DEF n
<1> QED BY <1>11 DEF x, p

\* Two numbers with the same remainder that are less than d apart are the same.
LEMMA SameRemainder ==
  ASSUME NEW d \in Nat \ {0}, NEW x \in Int, NEW y \in Int,
         x % d = y % d, x < y, y - x < d
  PROVE  FALSE
<1> DEFINE p == x \div d
           q == y \div d
<1>1. p \in Int /\ q \in Int /\ x = d * p + (x % d) /\ y = d * q + (x % d) /\ x % d \in Int
  BY DivMod
<1> HIDE DEF p, q
<1>2. d * (q - p) = d * q - d * p /\ d * p \in Int /\ d * q \in Int
  BY <1>1, Distribute
<1>3. d * (q - p) = y - x
  BY <1>1, <1>2
<1> DEFINE n == q - p
<1>4. n \in Int /\ d * n = y - x BY <1>1, <1>3
<1> HIDE DEF n
<1> QED BY <1>4, Multiples

LEMMA WeekPositive == Week \in Nat \ {0}
  <1>1. \A a, b \in Nat \ {0} : a * b \in Nat \ {0}
    OBVIOUS
  <1> QED BY <1>1, CalendarAssumption DEF Week

LEMMA DailyType ==
  ASSUME NEW s, s.at \in Int, NEW local \in Int
  PROVE  NextDaily(s, local) \in Int
<1>1. local % Day \in Int
  BY DivMod, CalendarAssumption
<1>2. Replace(local, s.at) \in Int
  BY <1>1 DEF Replace
<1> QED BY <1>2, CalendarAssumption DEF NextDaily

LEMMA WeeklyType ==
  ASSUME NEW s, s.at \in Int, s.day \in Int, NEW local \in Int
  PROVE  NextWeekly(s, local) \in Int
<1>1. local % Day \in Int /\ local \div Day \in Int
  BY DivMod, CalendarAssumption
<1>2. Replace(local, s.at) \in Int /\ Weekday(local) \in Int
  BY <1>1, DivMod, CalendarAssumption DEF Replace, Weekday
<1>3. (s.day - Weekday(local)) % DaysPerWeek \in Int
  <2>1. s.day - Weekday(local) \in Int
    BY <1>2
  <2> QED BY <2>1, DivMod, CalendarAssumption
<1>4. ((s.day - Weekday(local)) % DaysPerWeek) * Day \in Int
  BY <1>3, Distribute, CalendarAssumption
<1> QED BY <1>2, <1>4, WeekPositive DEF NextWeekly

LEMMA Associative ==
  ASSUME NEW a \in Int, NEW b \in Int, NEW c \in Int
  PROVE  a * (b * c) = (a * b) * c
  OBVIOUS

\* The same for the hours of a week: same hour of the day, same day of the week.
LEMMA SameHourOfWeek ==
  ASSUME NEW x \in Int, NEW y \in Int, x < y, y - x < Week,
         x % Day = y % Day, Weekday(x) = Weekday(y)
  PROVE  FALSE
<1> DEFINE p == x \div Day
           q == y \div Day
<1>1. p \in Int /\ q \in Int /\ x = Day * p + (x % Day) /\ y = Day * q + (x % Day) /\ x % Day \in Int
  BY DivMod, CalendarAssumption
<1>2. p % DaysPerWeek = q % DaysPerWeek
  BY DEF Weekday
<1> HIDE DEF p, q
<1> DEFINE i == p \div DaysPerWeek
           j == q \div DaysPerWeek
<1>w. DaysPerWeek \in Nat \ {0}
  BY CalendarAssumption
<1>p. i \in Int /\ p % DaysPerWeek \in Int /\ p = DaysPerWeek * i + (p % DaysPerWeek)
  BY <1>1, <1>w, DivMod
<1>q. j \in Int /\ q = DaysPerWeek * j + (q % DaysPerWeek)
  BY <1>1, <1>w, DivMod
<1>3. /\ i \in Int /\ j \in Int /\ p % DaysPerWeek \in Int
      /\ p = DaysPerWeek * i + (p % DaysPerWeek)
      /\ q = DaysPerWeek * j + (p % DaysPerWeek)
  BY <1>2, <1>p, <1>q
<1> HIDE DEF i, j
<1> DEFINE n == j - i
<1>4. n \in Int /\ DaysPerWeek * n = q - p
  BY <1>1, <1>3, Distribute, CalendarAssumption
<1> HIDE DEF n
<1>5. Day * (q - p) = y - x
  BY <1>1, Distribute, CalendarAssumption
<1>6. Day * (DaysPerWeek * n) = y - x
  BY <1>4, <1>5
<1>7. Week * n = y - x
  BY <1>4, <1>6, Associative, CalendarAssumption DEF Week
<1>8. Week \in Nat \ {0}
  <2>1. \A a, b \in Nat \ {0} : a * b \in Nat \ {0}
    OBVIOUS
  <2> QED BY <2>1, CalendarAssumption DEF Week
<1> QED BY <1>4, <1>7, <1>8, Multiples

LEMMA DailyIsNext ==
  ASSUME NEW s, s.at \in 0 .. Day - 1, NEW local \in Int
  PROVE  LET d == NextDaily(s, local) - local IN
         /\ d \in 1 .. Day
         /\ (local + d) % Day = s.at
<1> DEFINE q == local \div Day
           r == local % Day
<1>1. q \in Int /\ r \in 0 .. Day - 1 /\ local = Day * q + r
  BY DivMod, CalendarAssumption
<1> HIDE DEF q, r
<1>2. Day * (q + 1) = Day * q + Day /\ Day * q \in Int
  BY <1>1, CalendarAssumption, Distribute
<1>3. Replace(local, s.at) = Day * q + s.at
  BY <1>1, <1>2, CalendarAssumption DEF Replace, r
<1>4. /\ (Day * q + s.at) % Day = s.at
      /\ (Day * (q + 1) + s.at) % Day = s.at
  BY <1>1, DivModUnique, CalendarAssumption, q + 1 \in Int
<1>5. CASE Replace(local, s.at) <= local
  <2>1. NextDaily(s, local) = Day * (q + 1) + s.at
    BY <1>2, <1>3, <1>5, CalendarAssumption DEF NextDaily
  <2>2. NextDaily(s, local) - local \in 1 .. Day
    BY <2>1, <1>1, <1>2, <1>3, <1>5, CalendarAssumption
  <2>3. local + (NextDaily(s, local) - local) = NextDaily(s, local)
    BY <2>1, <1>1, <1>2, CalendarAssumption
  <2> QED BY <2>1, <2>2, <2>3, <1>4
<1>6. CASE ~(Replace(local, s.at) <= local)
  <2>1. NextDaily(s, local) = Day * q + s.at
    BY <1>3, <1>6 DEF NextDaily
  <2>2. NextDaily(s, local) - local \in 1 .. Day
    BY <2>1, <1>1, <1>2, <1>3, <1>6, CalendarAssumption
  <2>3. local + (NextDaily(s, local) - local) = NextDaily(s, local)
    BY <2>1, <1>1, <1>2, CalendarAssumption
  <2> QED BY <2>1, <2>2, <2>3, <1>4
<1> QED BY <1>5, <1>6

\* k days on is the weekday that is k days ahead.
LEMMA DaysAhead ==
  ASSUME NEW q \in Int, NEW day \in 0 .. DaysPerWeek - 1
  PROVE  LET w == q % DaysPerWeek
             k == (day - w) % DaysPerWeek
         IN  /\ k \in 0 .. DaysPerWeek - 1
             /\ (q + k) % DaysPerWeek = day
             /\ (q + k + DaysPerWeek) % DaysPerWeek = day
<1> DEFINE w == q % DaysPerWeek
           m == q \div DaysPerWeek
           k == (day - w) % DaysPerWeek
           i == (day - w) \div DaysPerWeek
<1>1. m \in Int /\ w \in 0 .. DaysPerWeek - 1 /\ q = DaysPerWeek * m + w
  BY DivMod, CalendarAssumption
<1>2. i \in Int /\ k \in 0 .. DaysPerWeek - 1 /\ day - w = DaysPerWeek * i + k
  <2>1. day - w \in Int BY <1>1
  <2> QED BY <2>1, DivMod, CalendarAssumption
<1> HIDE DEF w, m, k, i
<1>3. /\ DaysPerWeek * (m - i) = DaysPerWeek * m - DaysPerWeek * i
      /\ DaysPerWeek * (m - i + 1) = DaysPerWeek * m - DaysPerWeek * i + DaysPerWeek
      /\ DaysPerWeek * m \in Int /\ DaysPerWeek * i \in Int
  BY <1>1, <1>2, CalendarAssumption, Distribute
<1>4. /\ q + k = DaysPerWeek * (m - i) + day
      /\ q + k + DaysPerWeek = DaysPerWeek * (m - i + 1) + day
  BY <1>1, <1>2, <1>3, CalendarAssumption
<1>5. m - i \in Int /\ m - i + 1 \in Int BY <1>1, <1>2
<1>6. (q + k) % DaysPerWeek = day /\ (q + k + DaysPerWeek) % DaysPerWeek = day
  BY <1>4, <1>5, DivModUnique, CalendarAssumption
<1> QED BY <1>2, <1>6 DEF w, k
\* candidate_date = base_date + days_ahead: where the candidate of a weekly schedule lies.
LEMMA WeeklyIsNext ==
  ASSUME NEW s, s.at \in 0 .. Day - 1, s.day \in 0 .. DaysPerWeek - 1, NEW local \in Int
  PROVE  LET d == NextWeekly(s, local) - local IN
         /\ d \in 1 .. Week
         /\ (local + d) % Day = s.at
         /\ Weekday(local + d) = s.day
<1> DEFINE q == local \div Day
           r == local % Day
           k == (s.day - Weekday(local)) % DaysPerWeek
           candidate == Day * (q + k) + s.at
<1>a. Day \in Nat \ {0} /\ DaysPerWeek \in Nat \ {0}
  BY CalendarAssumption
<1>1. q \in Int /\ r \in 0 .. Day - 1 /\ local = Day * q + r
  BY <1>a, DivMod
<1>2. /\ k \in 0 .. DaysPerWeek - 1
      /\ (q + k) % DaysPerWeek = s.day
      /\ (q + k + DaysPerWeek) % DaysPerWeek = s.day
  BY <1>1, DaysAhead DEF Weekday
<1>w. Week \in Nat \ {0} /\ Day * DaysPerWeek = Week
  <2>1. \A a, b \in Nat \ {0} : a * b \in Nat \ {0}
    OBVIOUS
  <2> QED BY <2>1, <1>a DEF Week
<1>3. Replace(local, s.at) = Day * q + s.at
  <2>1. Day * q \in Int
    BY <1>a, <1>1, Distribute
  <2> QED BY <1>1, <2>1 DEF Replace
<1>4. NextWeekly(s, local) =
        IF Replace(local, s.at) + k * Day <= local
          THEN Replace(local, s.at) + k * Day + Week ELSE Replace(local, s.at) + k * Day
  BY DEF NextWeekly
<1> HIDE DEF q, r, k
<1>5. /\ Day * q \in Int /\ Day * k \in Int /\ k * Day = Day * k
      /\ Day * (q + k) = Day * q + Day * k
  BY <1>a, <1>1, <1>2, Distribute
<1>6. Day * (q + k + DaysPerWeek) = Day * (q + k) + Week
  BY <1>a, <1>w, <1>1, <1>2, Distribute
<1>7. Replace(local, s.at) + k * Day = candidate
  BY <1>3, <1>5
<1>8. Day * k \in Nat /\ Day * k + Day <= Week
  <2>1. /\ k * Day = Day * k /\ (DaysPerWeek - 1 - k) \in Nat
        /\ Day * (DaysPerWeek - 1 - k) = Day * (DaysPerWeek - 1) - Day * k
        /\ Day * (DaysPerWeek - 1) = Day * DaysPerWeek - Day * 1
    BY <1>a, <1>2, Distribute
  <2>2. Day * 1 = Day /\ Day * (DaysPerWeek - 1 - k) >= 0 /\ Day * k >= 0
    BY <1>a, <1>2, <2>1, Multiples
  <2> QED BY <2>1, <2>2, <1>5, <1>w, <1>a
<1>9. /\ (Day * (q + k) + s.at) % Day = s.at
      /\ (Day * (q + k) + s.at) \div Day = q + k
      /\ (Day * (q + k + DaysPerWeek) + s.at) % Day = s.at
      /\ (Day * (q + k + DaysPerWeek) + s.at) \div Day = q + k + DaysPerWeek
  <2>1. q + k \in Int /\ q + k + DaysPerWeek \in Int
    BY <1>a, <1>1, <1>2
  <2> QED BY <2>1, <1>a, DivModUnique
<1>10. candidate % Day = s.at /\ Weekday(candidate) = s.day
  BY <1>2, <1>9 DEF Weekday
<1>11. (candidate + Week) % Day = s.at /\ Weekday(candidate + Week) = s.day
  <2>1. candidate + Week = Day * (q + k + DaysPerWeek) + s.at
    BY <1>1, <1>2, <1>5, <1>6, <1>w
  <2> QED BY <2>1, <1>2, <1>9 DEF Weekday
<1>12. candidate \in Int /\ candidate = Day * q + Day * k + s.at
  BY <1>a, <1>5
<1> HIDE DEF candidate
<1>13. CASE candidate <= local
  <2>1. NextWeekly(s, local) = candidate + Week
    BY <1>4, <1>7, <1>13
  <2>2. candidate + Week - local \in 1 .. Week
    BY <1>a, <1>1, <1>5, <1>8, <1>12, <1>13, <1>w
  <2>3. local + (candidate + Week - local) = candidate + Week
    BY <1>12, <1>w
  <2> QED BY <1>11, <2>1, <2>2, <2>3
<1>14. CASE ~(candidate <= local)
  <2>1. NextWeekly(s, local) = candidate
    BY <1>4, <1>7, <1>14
  <2>2. candidate - local \in 1 .. Week
    BY <1>a, <1>1, <1>5, <1>8, <1>12, <1>14, <1>w
  <2>3. local + (candidate - local) = candidate
    BY <1>12
  <2> QED BY <1>10, <2>1, <2>2, <2>3
<1> QED BY <1>13, <1>14

\* next_after is right, for any calendar, after the time it takes the reference for.
LEMMA NextAfterIsNext ==
  ASSUME NEW s, IsSchedule(s), NEW hr \in Int, NEW aware \in BOOLEAN
  PROVE  /\ IsNext(s, hr - Behind(s, aware), NextIn(s, hr, aware) + Behind(s, aware))
         /\ NextIn(s, hr, aware) + Behind(s, aware) \in Nat \ {0}
<1> DEFINE behind == Behind(s, aware)
           now == hr - behind
           local == now + s.zone
           d == NextIn(s, hr, aware) + behind
<1>1. /\ s.every \in Nat \ {0} /\ s.day \in 0 .. DaysPerWeek - 1 /\ s.at \in 0 .. Day - 1
      /\ s.zone \in Int /\ s.kind \in {"interval", "daily", "weekly"}
  BY DEF IsSchedule
<1>0. /\ behind \in Int /\ (s.kind = "interval" => behind = 0)
      /\ (s.kind # "interval" => behind = IF aware THEN 0 ELSE HostOffset)
  BY CalendarAssumption DEF Behind
<1> HIDE DEF behind
<1>2. local \in Int /\ (s.kind # "interval" => LocalTime(hr, aware, s.zone) = local)
      /\ now \in Int /\ hr = now + behind
  BY <1>0, <1>1, CalendarAssumption DEF LocalTime
<1>3. CASE s.kind = "interval"
  <2>1. NextIn(s, hr, aware) = s.every /\ s.every + behind = s.every
    BY <1>0, <1>1, <1>3 DEF NextIn
  <2> QED BY <1>1, <1>3, <2>1 DEF IsNext, behind
<1>4. CASE s.kind = "daily"
  <2> DEFINE n == NextDaily(s, local) - local
  <2>1. n \in 1 .. Day /\ (local + n) % Day = s.at
    BY <1>1, <1>2, DailyIsNext
  <2>2. NextDaily(s, local) \in Int
    BY <1>1, <1>2, DailyType
  <2>3. d = n
    BY <1>0, <1>1, <1>2, <1>4, <2>2 DEF NextIn
  <2> HIDE DEF n, d, local, now
  <2>4. \A e \in 1 .. n - 1 : (local + e) % Day # s.at
    <3> SUFFICES ASSUME NEW e \in 1 .. n - 1, (local + e) % Day = s.at PROVE FALSE
      OBVIOUS
    <3>1. /\ local + e \in Int /\ local + n \in Int /\ local + e < local + n
          /\ (local + n) - (local + e) < Day
      BY <1>2, <2>1, CalendarAssumption
    <3> QED BY <2>1, <3>1, SameRemainder, CalendarAssumption
  <2>5. \A e \in 1 .. n : now + e + s.zone = local + e
    BY <1>1, <1>2 DEF local
  <2>6. n \in 1 .. n
    BY <2>1, CalendarAssumption
  <2>7. IsNext(s, now, n)
    BY <1>4, <2>1, <2>4, <2>5, <2>6, CalendarAssumption DEF IsNext, Fires
  <2> QED BY <2>1, <2>3, <2>7, CalendarAssumption DEF d, now, behind
<1>5. CASE s.kind = "weekly"
  <2> DEFINE n == NextWeekly(s, local) - local
  <2>1. n \in 1 .. Week /\ (local + n) % Day = s.at /\ Weekday(local + n) = s.day
    BY <1>1, <1>2, WeeklyIsNext
  <2>2. NextWeekly(s, local) \in Int
    BY <1>1, <1>2, WeeklyType
  <2>3. d = n
    BY <1>0, <1>1, <1>2, <1>5, <2>2 DEF NextIn
  <2>w. Week \in Nat \ {0}
    BY WeekPositive
  <2> HIDE DEF n, d, local, now
  <2>4. \A e \in 1 .. n - 1 : ~((local + e) % Day = s.at /\ Weekday(local + e) = s.day)
    <3> SUFFICES ASSUME NEW e \in 1 .. n - 1, (local + e) % Day = s.at,
                        Weekday(local + e) = s.day
                 PROVE  FALSE
      OBVIOUS
    <3>1. /\ local + e \in Int /\ local + n \in Int /\ local + e < local + n
          /\ (local + n) - (local + e) < Week
      BY <1>2, <2>1, <2>w
    <3> QED BY <2>1, <3>1, SameHourOfWeek
  <2>5. \A e \in 1 .. n : now + e + s.zone = local + e
    BY <1>1, <1>2 DEF local
  <2>6. n \in 1 .. n
    BY <2>1, <2>w
  <2>7. IsNext(s, now, n)
    BY <1>5, <2>1, <2>4, <2>5, <2>6, <2>w DEF IsNext, Fires
  <2> QED BY <2>1, <2>3, <2>7, <2>w DEF d, now, behind
<1> QED BY <1>1, <1>3, <1>4, <1>5

-----------------------------------------------------------------------------
(* Types. *)

LEMMA NextInType ==
  ASSUME NEW s \in Schedules, NEW now \in Int, NEW aware \in BOOLEAN
  PROVE  NextIn(s, now, aware) \in Int
<1> DEFINE local == LocalTime(now, aware, s.zone)
<1>1. /\ s.kind \in {"interval", "daily", "weekly"}
      /\ s.every \in Nat /\ s.day \in Int /\ s.at \in Int /\ s.zone \in Int
  BY ConstantsAssumption, CalendarAssumption DEF IsSchedule
<1>2. local \in Int
  BY <1>1, CalendarAssumption DEF LocalTime
<1> HIDE DEF local
<1>3. NextDaily(s, local) \in Int /\ NextWeekly(s, local) \in Int
  BY <1>1, <1>2, DailyType, WeeklyType
<1> QED BY <1>1, <1>3 DEF NextIn, local

LEMMA DueType ==
  ASSUME TypeOK, NEW s \in Schedules, NEW aware \in BOOLEAN
  PROVE  Due(s, aware) \in Nat
  <1>1. hour \in Int BY WeekPositive DEF TypeOK
  <1> QED BY <1>1, NextInType DEF Due

\* The step keeps well typed what a thread holds and what a commit leaves.
LEMMA RowTypes ==
  ASSUME NEW row \in Rows
  PROVE  /\ row.status \in Statuses /\ row.schedule \in Schedules
         /\ row.ran \in BOOLEAN /\ row.next \in Nat \cup {Never}
         /\ \A x \in Statuses : [row EXCEPT !.status = x] \in Rows
         /\ \A x \in Schedules : [row EXCEPT !.schedule = x] \in Rows
         /\ \A x \in Nat \cup {Never} : [row EXCEPT !.next = x] \in Rows
         /\ \A x \in Statuses, n \in Nat \cup {Never} :
              [row EXCEPT !.status = x, !.next = n] \in Rows
         /\ \A x \in Schedules, n \in Nat \cup {Never} :
              [row EXCEPT !.schedule = x, !.next = n] \in Rows
         /\ \A n \in Nat \cup {Never} : [row EXCEPT !.ran = TRUE, !.next = n] \in Rows
  BY DEF Rows

LEMMA MergeType ==
  ASSUME NEW new \in Rows, NEW old \in Rows, NEW columns
  PROVE  Merge(columns, new, old) \in Rows
  BY DEF Merge, Rows

LEMMA NoRowType == NoRow \in Rows
  BY ConstantsAssumption DEF NoRow, Rows, Statuses

-----------------------------------------------------------------------------
(* The invariant: what the scheduler holds in its hands. *)

RunSteps == {"execute", "clean", "saveRun", "record", "audit", "fail", "saveFailed"}
SettledSteps == {"saveRun", "record", "audit", "saveFailed"}

HandsAgree ==
  /\ pc[Scheduler] \in RunSteps => item[Scheduler] \in Owners
  /\ task # "none" => pc[Scheduler] \in RunSteps
  /\ pc[Scheduler] \in SettledSteps => task # "running"
  /\ "status" \notin dirty[Scheduler]

CronInv == TypeOK /\ HandsAgree

LEMMA StageTypes ==
  ASSUME TypeOK, NEW t \in Threads, NEW j \in Jobs, NEW columns \in SUBSET Columns,
         NEW row \in Rows, Stage(t, j, columns, row)
  PROVE  /\ edit' \in [Threads -> Rows]
         /\ dirty' \in [Threads -> SUBSET Columns]
         /\ dirty'[t] \subseteq columns
         /\ \A u \in Threads \ {t} : dirty'[u] = dirty[u]
<1>1. Changed(j, columns, row) \subseteq columns
  BY DEF Changed
<1>2. Merge(Changed(j, columns, row), row, NoRow) \in Rows
  BY NoRowType, MergeType
<1> QED BY <1>1, <1>2 DEF Stage, TypeOK

LEMMA WriteTypes ==
  ASSUME TypeOK, NEW t \in Threads, Write(t)
  PROVE  job' \in [Jobs -> Rows]
  BY MergeType DEF Write, TypeOK

LEMMA DiscardTypes ==
  ASSUME TypeOK, NEW t \in Threads, Discard(t)
  PROVE  /\ edit' \in [Threads -> Rows]
         /\ dirty' \in [Threads -> SUBSET Columns]
         /\ dirty'[t] = {}
         /\ \A u \in Threads \ {t} : dirty'[u] = dirty[u]
  BY NoRowType DEF Discard, TypeOK

LEMMA RescheduleTypes ==
  ASSUME TypeOK, NEW j \in Jobs, Reschedule(j)
  PROVE  /\ edit' \in [Threads -> Rows]
         /\ dirty' \in [Threads -> SUBSET Columns]
         /\ "status" \notin dirty'[Scheduler]
<1>1. job[j] \in Rows
  BY DEF TypeOK
<1>2. Due(job[j].schedule, FALSE) \in Nat
  BY <1>1, RowTypes, DueType
<1>3. [job[j] EXCEPT !.ran = TRUE, !.next = Due(job[j].schedule, FALSE)] \in Rows
  BY <1>1, <1>2, RowTypes
<1>4. {"ran", "next"} \in SUBSET Columns
  BY DEF Columns
<1>5. Scheduler \in Threads
  BY DEF Threads
<1> DEFINE row == [job[j] EXCEPT !.ran = TRUE, !.next = Due(job[j].schedule, FALSE)]
<1>6. Stage(Scheduler, j, {"ran", "next"}, row)
  BY DEF Reschedule
<1>7. row \in Rows
  BY <1>3
<1> HIDE DEF row
<1>8. /\ edit' \in [Threads -> Rows]
      /\ dirty' \in [Threads -> SUBSET Columns]
      /\ dirty'[Scheduler] \subseteq {"ran", "next"}
  BY <1>4, <1>5, <1>6, <1>7, StageTypes
<1> QED BY <1>8

LEMMA LeaveTypes ==
  ASSUME CronInv, NEW step \in {"idle", "due"}, Leave(step)
  PROVE  /\ pc' \in [Threads -> Steps] /\ pc'[Scheduler] = step
         /\ item' \in [Threads -> Owners \cup {Never}]
         /\ edit' \in [Threads -> Rows] /\ dirty' \in [Threads -> SUBSET Columns]
         /\ dirty'[Scheduler] = {}
         /\ task' = "none" /\ sweep' = {}
         /\ stranded' \subseteq RunRows
         /\ task # "running" => stranded' = stranded
<1>1. step \in Steps /\ Scheduler \in Threads
  BY DEF Steps, SchedulerSteps, Threads
<1>2. task = "running" => <<item[Scheduler], "fresh">> \in RunRows
  BY DEF CronInv, HandsAgree, RunRows
<1> QED BY <1>1, <1>2, DiscardTypes DEF Leave, Goto, CronInv, TypeOK

\* A handler's operation: it stages an edit of one row.
LEMMA LoadKeeps ==
  ASSUME CronInv, NEW h \in Handlers, NEW j \in Jobs, NEW columns \in SUBSET Columns,
         NEW row \in Rows, Load(h, j, columns, row)
  PROVE  CronInv'
<1>1. h \in Threads /\ h # Scheduler /\ Scheduler \in Threads /\ "save" \in Steps
  BY ConstantsAssumption DEF Threads, Steps
<1>2. /\ edit' \in [Threads -> Rows] /\ dirty' \in [Threads -> SUBSET Columns]
      /\ dirty'[Scheduler] = dirty[Scheduler]
  BY <1>1, StageTypes DEF Load, CronInv
<1> QED
  BY <1>1, <1>2 DEF Load, Goto, CronInv, TypeOK, HandsAgree, Owners, dbVars

LEMMA HandlerKeeps == ASSUME CronInv, NEW h \in Handlers, HandlerStep(h) PROVE CronInv'
<1>c. /\ {"status", "next"} \in SUBSET Columns /\ {"schedule", "next"} \in SUBSET Columns
      /\ {"schedule"} \in SUBSET Columns
      /\ "active" \in Statuses /\ "paused" \in Statuses /\ "removed" \in Statuses
  BY DEF Columns, Statuses
<1>r. \A j \in Jobs : job[j] \in Rows
  BY DEF CronInv, TypeOK
<1>s. \A j \in Jobs : job[j].schedule \in Schedules
  BY <1>r, RowTypes
<1>d. \A s \in Schedules : Due(s, TRUE) \in Nat
  BY DueType DEF CronInv
<1>1. ASSUME NEW j \in Jobs, Pause(h, j) PROVE CronInv'
  <2>1. [job[j] EXCEPT !.status = "paused", !.next = Never] \in Rows
    BY <1>c, <1>r, RowTypes
  <2> QED BY <1>c, <1>1, <2>1, LoadKeeps DEF Pause
<1>2. ASSUME NEW j \in Jobs, Remove(h, j) PROVE CronInv'
  <2>1. [job[j] EXCEPT !.status = "removed", !.next = Never] \in Rows
    BY <1>c, <1>r, RowTypes
  <2> QED BY <1>c, <1>2, <2>1, LoadKeeps DEF Remove
<1>3. ASSUME NEW j \in Jobs, Activate(h, j) PROVE CronInv'
  <2>1. [job[j] EXCEPT !.status = "active", !.next = Due(job[j].schedule, TRUE)] \in Rows
    BY <1>c, <1>r, <1>s, <1>d, RowTypes
  <2> QED BY <1>c, <1>3, <2>1, LoadKeeps DEF Activate
<1>4. ASSUME NEW j \in Jobs, NEW s \in Schedules, Create(h, j, s) PROVE CronInv'
  <2>1. [status |-> "active", schedule |-> s, ran |-> FALSE, next |-> Due(s, TRUE)] \in Rows
    BY <1>c, <1>d DEF Rows
  <2> HIDE DEF Rows
  <2> QED BY <1>4, <2>1 DEF Create, CronInv, TypeOK, HandsAgree, threadVars
<1>5. ASSUME NEW j \in Jobs, NEW s \in Schedules, Update(h, j, s) PROVE CronInv'
  <2>1. [job[j] EXCEPT !.schedule = s, !.next = Due(s, TRUE)] \in Rows
    BY <1>r, <1>d, RowTypes
  <2>2. [job[j] EXCEPT !.schedule = s] \in Rows
    BY <1>r, RowTypes
  <2> QED BY <1>c, <1>5, <2>1, <2>2, LoadKeeps DEF Update
<1>6. CASE SaveEdit(h)
  <2>1. h \in Threads /\ h # Scheduler /\ Scheduler \in Threads /\ "idle" \in Steps
    BY ConstantsAssumption DEF Threads, Steps
  <2>2. Write(h) /\ Discard(h)
    BY <1>6 DEF SaveEdit, Save
  <2>3. job' \in [Jobs -> Rows]
    BY <2>1, <2>2, WriteTypes DEF CronInv
  <2>4. /\ edit' \in [Threads -> Rows] /\ dirty' \in [Threads -> SUBSET Columns]
        /\ dirty'[Scheduler] = dirty[Scheduler]
    BY <2>1, <2>2, DiscardTypes DEF CronInv
  <2> QED BY <1>6, <2>1, <2>3, <2>4 DEF SaveEdit, Goto, CronInv, TypeOK, HandsAgree
<1> QED BY <1>1, <1>2, <1>3, <1>4, <1>5, <1>6 DEF HandlerStep

LEMMA SchedulerKeeps == ASSUME CronInv, SchedulerStep PROVE CronInv'
<1>t. /\ Scheduler \in Threads
      /\ \A step \in SchedulerSteps \cup {"idle"} : step \in Steps
      /\ RunSteps \cup {"repair", "saveRepair", "due"} = SchedulerSteps
  BY DEF Threads, Steps, SchedulerSteps, RunSteps
<1>o. Jobs \subseteq Owners /\ Heartbeat \in Owners
  BY DEF Owners
<1>1. CASE Tick
  BY <1>1, <1>t DEF Tick, Goto, CronInv, TypeOK, HandsAgree, dbVars, RunSteps, SettledSteps
<1>2. ASSUME NEW j \in Jobs, Repair(j) PROVE CronInv'
  <2>1. CASE TickFails
    <3>1. Leave("idle") /\ todo' = {}
      BY <2>1 DEF TickFails
    <3>2. hour' = hour /\ job' = job /\ heartbeatDue' = heartbeatDue /\ faults' = faults
      BY <1>2 DEF Repair
    <3> QED
      BY <3>1, <3>2, LeaveTypes
         DEF CronInv, TypeOK, HandsAgree, RunSteps, SettledSteps, TaskStatuses
  <2>2. CASE ~(job[j].status = "active" /\ job[j].next = Never)
    <3>1. /\ todo' = todo \ {j}
          /\ UNCHANGED <<stranded, task, pc, item, edit, dirty, sweep>>
          /\ UNCHANGED <<hour, job, heartbeatDue, faults>>
      BY <1>2, <2>2 DEF Repair
    <3> QED
      BY <3>1 DEF CronInv, TypeOK, HandsAgree
  <2>3. CASE /\ job[j].status = "active" /\ job[j].next = Never
             /\ ~NextRaises(job[j].schedule, job[j].ran, TRUE)
    <3> DEFINE row == [job[j] EXCEPT !.next = Due(job[j].schedule, TRUE)]
    <3>1. /\ Stage(Scheduler, j, {"next"}, row)
          /\ item' = [item EXCEPT ![Scheduler] = j]
          /\ todo' = todo \ {j}
          /\ Goto(Scheduler, "saveRepair")
          /\ UNCHANGED <<stranded, task, sweep, hour, job, heartbeatDue, faults>>
          /\ pc[Scheduler] = "repair"
      BY <1>2, <2>3 DEF Repair
    <3>2. job[j] \in Rows /\ job[j].schedule \in Schedules
      BY RowTypes DEF CronInv, TypeOK
    <3>3. row \in Rows
      BY <3>2, RowTypes, DueType DEF CronInv
    <3>4. {"next"} \in SUBSET Columns
      BY DEF Columns
    <3> HIDE DEF row
    <3>5. /\ edit' \in [Threads -> Rows] /\ dirty' \in [Threads -> SUBSET Columns]
          /\ dirty'[Scheduler] \subseteq {"next"}
      BY <1>t, <3>1, <3>3, <3>4, StageTypes DEF CronInv
    <3>6. task' = "none"
      BY <3>1 DEF CronInv, HandsAgree, RunSteps
    <3>7. pc' \in [Threads -> Steps] /\ pc'[Scheduler] = "saveRepair"
      BY <1>t, <3>1 DEF Goto, CronInv, TypeOK, SchedulerSteps
    <3>8. item' \in [Threads -> Owners \cup {Never}]
      BY <1>o, <1>t, <3>1 DEF CronInv, TypeOK
    <3> QED
      BY <3>1, <3>5, <3>6, <3>7, <3>8 DEF CronInv, TypeOK, HandsAgree, RunSteps, SettledSteps
  <2> QED BY <1>2, <2>1, <2>2, <2>3 DEF Repair
<1>3. CASE SaveRepair
  <2>1. job' \in [Jobs -> Rows]
    BY <1>3, <1>t, WriteTypes DEF SaveRepair, Save, CronInv
  <2>2. /\ edit' \in [Threads -> Rows] /\ dirty' \in [Threads -> SUBSET Columns]
        /\ dirty'[Scheduler] = {}
    BY <1>3, <1>t, DiscardTypes DEF SaveRepair, Save, CronInv
  <2>3. pc' \in [Threads -> Steps] /\ pc'[Scheduler] = "repair" /\ task' = "none"
    BY <1>3, <1>t DEF SaveRepair, Goto, CronInv, TypeOK, HandsAgree, RunSteps, SchedulerSteps
  <2>4. item' \in [Threads -> Owners \cup {Never}]
    BY <1>3 DEF SaveRepair, CronInv, TypeOK
  <2> QED
    BY <1>3, <2>1, <2>2, <2>3, <2>4
       DEF SaveRepair, CronInv, TypeOK, HandsAgree, RunSteps, SettledSteps
<1>4. CASE ListDue
  BY <1>4, <1>t DEF ListDue, Goto, CronInv, TypeOK, HandsAgree, dbVars, RunSteps, SettledSteps
<1>s. ASSUME NEW owner \in Owners, Start(owner), todo' \subseteq Jobs PROVE CronInv'
  <2>1. pc' \in [Threads -> Steps] /\ pc'[Scheduler] = "execute"
    BY <1>s, <1>t DEF Start, Goto, CronInv, TypeOK, SchedulerSteps
  <2>2. item' \in [Threads -> Owners \cup {Never}] /\ item'[Scheduler] = owner
    BY <1>s, <1>t DEF Start, CronInv, TypeOK
  <2> QED
    BY <1>s, <2>1, <2>2
       DEF Start, CronInv, TypeOK, HandsAgree, RunSteps, SettledSteps, TaskStatuses
<1>5. ASSUME NEW j \in Jobs, StartRun(j) PROVE CronInv'
  BY <1>5, <1>o, <1>s DEF StartRun, CronInv, TypeOK
<1>6. CASE StartHeartbeat
  BY <1>6, <1>o, <1>s DEF StartHeartbeat, CronInv, TypeOK
<1>7. CASE EndTick
  BY <1>7, <1>t DEF EndTick, Goto, CronInv, TypeOK, HandsAgree, dbVars, RunSteps, SettledSteps
<1>8. CASE Execute
  <2>1. pc' \in [Threads -> Steps] /\ pc'[Scheduler] = "clean"
    BY <1>8, <1>t DEF Execute, Goto, CronInv, TypeOK, SchedulerSteps
  <2>2. sweep' \subseteq RunRows
    BY <1>8 DEF Execute, CronInv, TypeOK
  <2> QED
    BY <1>8, <2>1, <2>2
       DEF Execute, CronInv, TypeOK, HandsAgree, dbVars, RunSteps, SettledSteps
<1>9. ASSUME NEW run \in RunRows, Clean(run) PROVE CronInv'
  BY <1>9 DEF Clean, CronInv, TypeOK, HandsAgree
<1>10. CASE Complete
  <2>1. pc[Scheduler] = "clean" /\ item[Scheduler] \in Owners
    BY <1>10 DEF Complete, CronInv, HandsAgree, RunSteps
  <2>2. /\ edit' \in [Threads -> Rows] /\ dirty' \in [Threads -> SUBSET Columns]
        /\ "status" \notin dirty'[Scheduler]
    BY <1>10, <2>1, RescheduleTypes DEF Complete, CronInv, TypeOK, HandsAgree, Owners
  <2>3. pc' \in [Threads -> Steps] /\ pc'[Scheduler] \in {"record", "saveRun"}
    BY <1>10, <1>t DEF Complete, Goto, CronInv, TypeOK, SchedulerSteps
  <2> QED
    BY <1>10, <2>1, <2>2, <2>3
       DEF Complete, CronInv, TypeOK, HandsAgree, RunSteps, SettledSteps, TaskStatuses
<1>11. CASE SaveRun
  <2>1. job' \in [Jobs -> Rows]
    BY <1>11, <1>t, WriteTypes DEF SaveRun, Save, CronInv
  <2>2. /\ edit' \in [Threads -> Rows] /\ dirty' \in [Threads -> SUBSET Columns]
        /\ dirty'[Scheduler] = {}
    BY <1>11, <1>t, DiscardTypes DEF SaveRun, Save, CronInv
  <2>3. pc' \in [Threads -> Steps] /\ pc'[Scheduler] = "audit"
    BY <1>11, <1>t DEF SaveRun, Goto, CronInv, TypeOK, SchedulerSteps
  <2> QED
    BY <1>11, <2>1, <2>2, <2>3
       DEF SaveRun, CronInv, TypeOK, HandsAgree, RunSteps, SettledSteps
<1>12. CASE Record
  <2>1. pc' \in [Threads -> Steps] /\ pc'[Scheduler] = "audit"
    BY <1>12, <1>t DEF Record, Goto, CronInv, TypeOK, SchedulerSteps
  <2> QED
    BY <1>12, <2>1 DEF Record, CronInv, TypeOK, HandsAgree, RunSteps, SettledSteps
<1>p. ASSUME Proceed
      PROVE  /\ pc' \in [Threads -> Steps] /\ pc'[Scheduler] \in {"idle", "due"}
             /\ item' \in [Threads -> Owners \cup {Never}]
             /\ edit' \in [Threads -> Rows] /\ dirty' \in [Threads -> SUBSET Columns]
             /\ dirty'[Scheduler] = {}
             /\ task' = "none" /\ sweep' = {} /\ stranded' \subseteq RunRows
  BY <1>p, LeaveTypes DEF Proceed
<1>13. CASE Audit
  BY <1>13, <1>p DEF Audit, CronInv, TypeOK, HandsAgree, RunSteps, SettledSteps, TaskStatuses
<1>14. CASE Fail
  <2>1. pc[Scheduler] = "fail" /\ item[Scheduler] \in Owners
    BY <1>14 DEF Fail, CronInv, HandsAgree, RunSteps
  <2>2. /\ edit' \in [Threads -> Rows] /\ dirty' \in [Threads -> SUBSET Columns]
        /\ "status" \notin dirty'[Scheduler]
    BY <1>14, <2>1, RescheduleTypes DEF Fail, CronInv, TypeOK, HandsAgree, Owners
  <2>3. pc' \in [Threads -> Steps] /\ pc'[Scheduler] = "saveFailed"
    BY <1>14, <1>t DEF Fail, Goto, CronInv, TypeOK, SchedulerSteps
  <2> QED
    BY <1>14, <2>1, <2>2, <2>3
       DEF Fail, CronInv, TypeOK, HandsAgree, RunSteps, SettledSteps, TaskStatuses
<1>15. CASE SaveFailed
  <2>1. job' \in [Jobs -> Rows]
    BY <1>15, <1>t, WriteTypes DEF SaveFailed, CronInv
  <2> QED
    BY <1>15, <1>p, <2>1
       DEF SaveFailed, CronInv, TypeOK, HandsAgree, RunSteps, SettledSteps, TaskStatuses
<1> QED
  BY <1>1, <1>2, <1>3, <1>4, <1>5, <1>6, <1>7, <1>8, <1>9, <1>10, <1>11, <1>12, <1>13,
     <1>14, <1>15 DEF SchedulerStep

LEMMA FaultsKeep ==
  ASSUME CronInv, RaiseInRun \/ RaiseInTick \/ Crash \/ \E h \in Handlers : RaiseInHandler(h)
  PROVE  CronInv'
<1>t. /\ Scheduler \in Threads /\ Handlers \subseteq Threads
      /\ \A h \in Handlers : h # Scheduler
      /\ "fail" \in Steps /\ "idle" \in Steps
  BY ConstantsAssumption DEF Threads, Steps, SchedulerSteps
<1>f. Faulty => faults' \in 0 .. MaxFaults
  BY ConstantsAssumption DEF Faulty, CronInv, TypeOK
<1>1. CASE RaiseInRun
  <2>1. /\ edit' \in [Threads -> Rows] /\ dirty' \in [Threads -> SUBSET Columns]
        /\ dirty'[Scheduler] = {}
    BY <1>1, <1>t, DiscardTypes DEF RaiseInRun, CronInv
  <2>2. pc' \in [Threads -> Steps] /\ pc'[Scheduler] = "fail"
    BY <1>1, <1>t DEF RaiseInRun, Goto, CronInv, TypeOK
  <2>3. item[Scheduler] \in Owners
    BY <1>1 DEF RaiseInRun, CronInv, HandsAgree, RunSteps
  <2> QED
    BY <1>1, <1>f, <2>1, <2>2, <2>3
       DEF RaiseInRun, CronInv, TypeOK, HandsAgree, dbVars, RunSteps, SettledSteps
<1>2. CASE RaiseInTick
  <2>1. Leave("idle") /\ todo' = {}
    BY <1>2 DEF RaiseInTick, TickFails
  <2> QED
    BY <1>2, <1>f, <2>1, LeaveTypes
       DEF RaiseInTick, CronInv, TypeOK, HandsAgree, RunSteps, SettledSteps, TaskStatuses
<1>3. CASE Crash
  <2>1. edit' \in [Threads -> Rows]
    BY <1>3, NoRowType DEF Crash
  <2>2. stranded' \subseteq RunRows
    BY <1>3 DEF Crash, CronInv, TypeOK, HandsAgree, RunRows
  <2> QED
    BY <1>3, <1>f, <1>t, <2>1, <2>2
       DEF Crash, CronInv, TypeOK, HandsAgree, RunSteps, SettledSteps, TaskStatuses
<1>4. ASSUME NEW h \in Handlers, RaiseInHandler(h) PROVE CronInv'
  <2>1. /\ edit' \in [Threads -> Rows] /\ dirty' \in [Threads -> SUBSET Columns]
        /\ dirty'[Scheduler] = dirty[Scheduler]
    BY <1>4, <1>t, DiscardTypes DEF RaiseInHandler, CronInv
  <2> QED
    BY <1>4, <1>f, <1>t, <2>1
       DEF RaiseInHandler, Goto, CronInv, TypeOK, HandsAgree, dbVars
<1> QED BY <1>1, <1>2, <1>3, <1>4

LEMMA TimeKeeps == ASSUME CronInv, HourPasses \/ RunAges \/ HeartbeatComesDue PROVE CronInv'
<1>1. CASE HourPasses
  <2>1. \A n \in Nat \cup {Never} : OneHourOn(n) \in Nat \cup {Never}
    BY ConstantsAssumption DEF OneHourOn
  <2>2. \A row \in Rows : [row EXCEPT !.next = OneHourOn(@)] \in Rows
    BY <2>1, RowTypes DEF Rows
  <2>3. job' \in [Jobs -> Rows] /\ edit' \in [Threads -> Rows]
    BY <1>1, <2>2 DEF HourPasses, CronInv, TypeOK
  <2>4. \A x \in Int, w \in Nat \ {0} : x % w \in 0 .. w - 1
    OBVIOUS
  <2>5. hour' \in 0 .. Week - 1
    BY <1>1, <2>4, WeekPositive DEF HourPasses, CronInv, TypeOK
  <2> QED
    BY <1>1, <2>3, <2>5 DEF HourPasses, CronInv, TypeOK, HandsAgree
<1>2. CASE RunAges
  <2>1. stranded' \subseteq RunRows
    BY <1>2 DEF RunAges, CronInv, TypeOK, RunRows
  <2> QED
    BY <1>2, <2>1 DEF RunAges, CronInv, TypeOK, HandsAgree, threadVars
<1>3. CASE HeartbeatComesDue
  BY <1>3 DEF HeartbeatComesDue, CronInv, TypeOK, HandsAgree, threadVars
<1> QED BY <1>1, <1>2, <1>3

LEMMA CronInvInit == Init => CronInv
<1> SUFFICES ASSUME Init PROVE CronInv
  OBVIOUS
<1>1. OldRows \subseteq Rows
  BY ConstantsAssumption DEF Rows, Statuses
<1>2. job \in [Jobs -> Rows] /\ edit \in [Threads -> Rows]
  BY <1>1, NoRowType DEF Init
<1> QED
  BY <1>2, ConstantsAssumption
     DEF Init, CronInv, TypeOK, HandsAgree, Threads, Steps, SchedulerSteps, RunSteps,
         SettledSteps, TaskStatuses

LEMMA CronInvNext == CronInv /\ [Next]_vars => CronInv'
<1> SUFFICES ASSUME CronInv, [Next]_vars PROVE CronInv'
  OBVIOUS
<1>1. CASE Next
  BY <1>1, SchedulerKeeps, HandlerKeeps, FaultsKeep, TimeKeeps DEF Next
<1>2. CASE UNCHANGED vars
  BY <1>2 DEF vars, dbVars, threadVars, CronInv, TypeOK, HandsAgree
<1> QED BY <1>1, <1>2

LEMMA CronInvHolds == Spec => []CronInv
  BY CronInvInit, CronInvNext, PTL DEF Spec

-----------------------------------------------------------------------------

\* Every reachable state of the cron jobs, the task runs and the threads is well
\* typed: what is saved after however many races is a row of the table.
THEOREM CronTypes == Spec => []TypeOK
<1>1. CronInv => TypeOK
  BY DEF CronInv
<1> QED BY <1>1, CronInvHolds, PTL

StatusStep ==
  \A j \in Jobs :
    job'[j].status # job[j].status /\ job[j].status # "none"
      => \E h \in Handlers : pc[h] = "save" /\ pc'[h] = "idle" /\ item[h] = j

LEMMA SchedulerLeavesStatus ==
  ASSUME CronInv, Write(Scheduler), NEW j \in Jobs
  PROVE  job'[j].status = job[j].status
  BY DEF Write, Merge, CronInv, HandsAgree

LEMMA StepKeepsStatus == CronInv /\ [Next]_vars => StatusStep
<1> SUFFICES ASSUME CronInv, [Next]_vars, NEW j \in Jobs,
                    job'[j].status # job[j].status, job[j].status # "none"
             PROVE  \E h \in Handlers : pc[h] = "save" /\ pc'[h] = "idle" /\ item[h] = j
  BY DEF StatusStep
<1>0. job' # job
  OBVIOUS
<1>w. ~Write(Scheduler)
  BY SchedulerLeavesStatus
<1>1. CASE SchedulerStep
  BY <1>0, <1>1, <1>w
     DEF SchedulerStep, Tick, Repair, TickFails, SaveRepair, ListDue, StartRun, Start,
         StartHeartbeat, EndTick, Execute, Clean, Complete, SaveRun, Record, Audit, Fail,
         SaveFailed, Save, dbVars
<1>2. ASSUME NEW h \in Handlers, HandlerStep(h)
      PROVE  pc[h] = "save" /\ pc'[h] = "idle" /\ item[h] = j
  <2>1. ASSUME NEW k \in Jobs, NEW s \in Schedules, Create(h, k, s) PROVE FALSE
    BY <2>1 DEF Create, CronInv, TypeOK
  <2>2. \A k, columns, row : ~Load(h, k, columns, row)
    BY <1>0 DEF Load, dbVars
  <2>3. SaveEdit(h)
    BY <1>2, <2>1, <2>2 DEF HandlerStep, Pause, Remove, Activate, Update
  <2>4. h \in Threads
    BY DEF Threads
  <2>5. pc[h] = "save" /\ pc'[h] = "idle"
    BY <2>3, <2>4 DEF SaveEdit, Goto, CronInv, TypeOK
  <2>6. item[h] = j
    BY <2>3 DEF SaveEdit, Save, Write
  <2> QED BY <2>5, <2>6
<1>3. ~(RaiseInRun \/ RaiseInTick \/ Crash \/ \E h \in Handlers : RaiseInHandler(h))
  BY <1>0 DEF RaiseInRun, RaiseInTick, Crash, RaiseInHandler, dbVars
<1>4. ~HourPasses
  <2>1. job[j] \in Rows
    BY DEF CronInv, TypeOK
  <2>2. \A row \in Rows : \A n : [row EXCEPT !.next = n].status = row.status
    BY DEF Rows
  <2>3. CASE HourPasses
    <3>1. job'[j] = [job[j] EXCEPT !.next = OneHourOn(@)]
      BY <2>3 DEF HourPasses
    <3>2. job'[j].status = job[j].status
      BY <2>1, <2>2, <3>1
    <3> QED BY <3>2
  <2> QED BY <2>3
<1>5. ~(RunAges \/ HeartbeatComesDue \/ UNCHANGED vars)
  BY <1>0 DEF RunAges, HeartbeatComesDue, vars, dbVars
<1> QED BY <1>1, <1>2, <1>3, <1>4, <1>5 DEF Next

\* Whatever the order of the commits, the scheduler never changes the status of a
\* job: save_cron_job writes the columns that were assigned, and it assigns none.
THEOREM StatusStaysTheUsers == Spec => StatusIsTheUsers
<1>1. CronInv /\ [Next]_vars => [StatusStep]_vars
  BY StepKeepsStatus
<1> QED BY <1>1, CronInvHolds, PTL DEF Spec, StatusIsTheUsers, StatusStep

StrandingStep == stranded' \subseteq stranded \/ faults' > faults \/ RunAges

LEMMA StepStrandsByFault == CronInv /\ [Next]_vars => StrandingStep
<1> SUFFICES ASSUME CronInv, [Next]_vars, ~(stranded' \subseteq stranded), ~RunAges
             PROVE  faults' > faults
  BY DEF StrandingStep
<1>0. stranded' # stranded
  OBVIOUS
<1>l. \A step \in {"idle", "due"} : Leave(step) => task = "running"
  BY DEF Leave
<1>1. CASE SchedulerStep
  <2>1. \A j \in Jobs : ~Repair(j)
    <3> SUFFICES ASSUME NEW j \in Jobs, Repair(j) PROVE FALSE
      OBVIOUS
    <3>1. Leave("idle") /\ pc[Scheduler] = "repair"
      BY <1>0 DEF Repair, TickFails
    <3> QED BY <1>l, <3>1 DEF CronInv, HandsAgree, RunSteps
  <2>2. ~Audit /\ ~SaveFailed
    <3>1. Proceed => task = "running"
      BY <1>l DEF Proceed
    <3> QED BY <3>1 DEF Audit, SaveFailed, CronInv, HandsAgree, SettledSteps
  <2>3. \A run \in RunRows : ~Clean(run)
    BY DEF Clean
  <2>4. ~Tick /\ ~ListDue /\ ~EndTick /\ ~Execute
    BY <1>0 DEF Tick, ListDue, EndTick, Execute, dbVars
  <2>5. ~SaveRepair /\ ~Complete /\ ~SaveRun /\ ~Record /\ ~Fail
    BY <1>0 DEF SaveRepair, Complete, SaveRun, Record, Fail
  <2>6. ~StartHeartbeat /\ \A j \in Jobs : ~StartRun(j)
    BY <1>0 DEF StartHeartbeat, StartRun, Start
  <2> QED
    BY <1>1, <2>1, <2>2, <2>3, <2>4, <2>5, <2>6 DEF SchedulerStep
<1>2. \A h \in Handlers : ~HandlerStep(h)
  <2> SUFFICES ASSUME NEW h \in Handlers PROVE ~HandlerStep(h)
    OBVIOUS
  <2>1. \A j, columns, row : ~Load(h, j, columns, row)
    BY <1>0 DEF Load, dbVars
  <2>2. ~SaveEdit(h) /\ \A j, s : ~Create(h, j, s)
    BY <1>0 DEF SaveEdit, Create
  <2> QED BY <2>1, <2>2 DEF HandlerStep, Pause, Remove, Activate, Update
<1>3. CASE RaiseInRun \/ RaiseInTick \/ Crash \/ \E h \in Handlers : RaiseInHandler(h)
  <2>1. Faulty
    BY <1>3 DEF RaiseInRun, RaiseInTick, Crash, RaiseInHandler
  <2> QED BY <2>1 DEF Faulty, CronInv, TypeOK
<1>4. ~(HourPasses \/ HeartbeatComesDue \/ UNCHANGED vars)
  BY <1>0 DEF HourPasses, HeartbeatComesDue, vars, dbVars
<1> QED BY <1>1, <1>2, <1>3, <1>4 DEF Next

\* No path of run_job or run_heartbeat, not even their exception handlers, leaves a
\* running task run behind: it takes a failed flush or a crash.
THEOREM OnlyFaultsStrand == Spec => StrandedByFaultsOnly
<1>1. CronInv /\ [Next]_vars => [StrandingStep]_vars
  BY StepStrandsByFault
<1> QED BY <1>1, CronInvHolds, PTL DEF Spec, StrandedByFaultsOnly, StrandingStep

-----------------------------------------------------------------------------
(* What is planned is the next time of the schedule. *)

\* A job in the table stays there, and what a handler saves is such a job.
SavesKnown ==
  \A h \in Handlers : pc[h] = "save" =>
    /\ item[h] \in Jobs
    /\ job[item[h]].status # "none"
    /\ "status" \in dirty[h] => edit[h].status # "none"

\* The exception handler of run_job starts from a session without changes.
FailsClean == pc[Scheduler] = "fail" => dirty[Scheduler] = {}

PlanInv == CronInv /\ SavesKnown /\ FailsClean

LEMMA StageHolds ==
  ASSUME TypeOK, NEW t \in Threads, NEW j \in Jobs, NEW columns \in SUBSET Columns,
         NEW row \in Rows, Stage(t, j, columns, row)
  PROVE  /\ dirty'[t] = Changed(j, columns, row)
         /\ edit'[t] = Merge(dirty'[t], row, NoRow)
         /\ \A u \in Threads \ {t} : dirty'[u] = dirty[u] /\ edit'[u] = edit[u]
  BY DEF Stage, TypeOK

\* Due holds the next time at which a schedule fires after the reference, as it is read.
LEMMA DueIsNext ==
  ASSUME TypeOK, NEW s \in Schedules, NEW aware \in BOOLEAN
  PROVE  IsNextSince(s, hour, Behind(s, aware), Due(s, aware))
<1> DEFINE behind == Behind(s, aware)
           n == NextIn(s, hour, aware) + behind
<1>1. hour \in Int /\ behind \in Int
  BY WeekPositive, CalendarAssumption DEF TypeOK, Behind
<1>2. IsSchedule(s)
  BY ConstantsAssumption
<1>3. IsNext(s, hour - behind, n) /\ n \in Nat \ {0}
  BY <1>1, <1>2, NextAfterIsNext
<1>4. NextIn(s, hour, aware) = n - behind
  BY <1>1, <1>2, NextInType
<1> HIDE DEF behind, n
<1>5. CASE n <= behind
  <2>1. n \in 1 .. behind /\ Due(s, aware) = 0
    BY <1>1, <1>3, <1>4, <1>5 DEF Due
  <2> QED BY <1>3, <2>1 DEF IsNextSince, behind
<1>6. CASE ~(n <= behind)
  <2>1. Due(s, aware) = n - behind /\ n - behind # 0 /\ (n - behind) + behind = n
    BY <1>1, <1>3, <1>4, <1>6 DEF Due
  <2> QED BY <1>3, <2>1 DEF IsNextSince, behind
<1> QED BY <1>5, <1>6

\* With an aware reference that is the next time after now.
LEMMA SinceNow ==
  ASSUME NEW s, NEW hr \in Int, NEW d \in Nat, IsNextSince(s, hr, 0, d)
  PROVE  IsNext(s, hr, d)
<1>1. hr - 0 = hr /\ d + 0 = d /\ 1 .. 0 = {}
  OBVIOUS
<1> QED BY <1>1 DEF IsNextSince

\* Whoever assigns next_run_at assigns the next time of the schedule the row will have.
LEMMA StagedIsNext ==
  ASSUME TypeOK, NEW t \in Threads, NEW j \in Jobs,
         NEW columns \in SUBSET Columns, NEW row \in Rows, NEW aware \in BOOLEAN,
         Stage(t, j, columns, row),
         "schedule" \notin columns => row.schedule = job[j].schedule,
         "next" \in columns => row.next = Never \/ row.next = Due(row.schedule, aware),
         "next" \in dirty'[t], edit'[t].next # Never
  PROVE  IsNextSince(Merge(dirty'[t], edit'[t], job[j]).schedule, hour,
                     Behind(Merge(dirty'[t], edit'[t], job[j]).schedule, aware), edit'[t].next)
<1>1. dirty'[t] = Changed(j, columns, row) /\ edit'[t] = Merge(dirty'[t], row, NoRow)
  BY StageHolds
<1>2. "next" \in columns /\ edit'[t].next = row.next
  BY <1>1 DEF Changed, Merge
<1>3. row.next = Due(row.schedule, aware)
  BY <1>2
<1>4. Merge(dirty'[t], edit'[t], job[j]).schedule = row.schedule
  <2>1. CASE "schedule" \in dirty'[t]
    BY <1>1, <2>1 DEF Merge
  <2>2. CASE "schedule" \notin dirty'[t]
    <3>1. row.schedule = job[j].schedule
      BY <1>1, <2>2 DEF Changed
    <3> QED BY <2>2, <3>1 DEF Merge
  <2> QED BY <2>1, <2>2
<1>5. row.schedule \in Schedules
  BY RowTypes
<1>6. IsNextSince(row.schedule, hour, Behind(row.schedule, aware), Due(row.schedule, aware))
  BY <1>5, DueIsNext
<1> QED BY <1>2, <1>3, <1>4, <1>6

LEMMA InitPlanInv == Init => PlanInv
<1> SUFFICES ASSUME Init PROVE PlanInv
  OBVIOUS
<1>1. CronInv
  BY CronInvInit
<1>2. \A t \in Threads : pc[t] = "idle"
  BY DEF Init
<1> QED BY <1>1, <1>2 DEF PlanInv, SavesKnown, FailsClean, Threads

\* What a thread has in its hands is not touched by the others.
LEMMA SchedulerLeavesHandlers ==
  ASSUME CronInv, SchedulerStep \/ RaiseInRun \/ RaiseInTick, NEW h \in Handlers
  PROVE  pc'[h] = pc[h] /\ item'[h] = item[h] /\ dirty'[h] = dirty[h] /\ edit'[h] = edit[h]
<1>1. h # Scheduler /\ h \in Threads
  BY ConstantsAssumption DEF Threads
<1>2. \A step : Leave(step) => /\ pc'[h] = pc[h] /\ item'[h] = item[h]
                              /\ dirty'[h] = dirty[h] /\ edit'[h] = edit[h]
  BY <1>1 DEF Leave, Goto, Discard, CronInv, TypeOK
<1>3. \A j, columns, row : Stage(Scheduler, j, columns, row) =>
        dirty'[h] = dirty[h] /\ edit'[h] = edit[h]
  BY <1>1 DEF Stage, CronInv, TypeOK
<1>4. Discard(Scheduler) => dirty'[h] = dirty[h] /\ edit'[h] = edit[h]
  BY <1>1 DEF Discard, CronInv, TypeOK
<1>5. \A step : Goto(Scheduler, step) => pc'[h] = pc[h]
  BY <1>1 DEF Goto, CronInv, TypeOK
<1>6. \A x : item' = [item EXCEPT ![Scheduler] = x] => item'[h] = item[h]
  BY <1>1 DEF CronInv, TypeOK
<1>7. CASE Tick \/ ListDue \/ EndTick \/ Execute \/ Record
  BY <1>5, <1>7 DEF Tick, ListDue, EndTick, Execute, Record
<1>8. ASSUME NEW j \in Jobs, Repair(j) \/ StartRun(j)
      PROVE  pc'[h] = pc[h] /\ item'[h] = item[h] /\ dirty'[h] = dirty[h] /\ edit'[h] = edit[h]
  BY <1>2, <1>3, <1>5, <1>6, <1>8 DEF Repair, TickFails, StartRun, Start
<1>9. CASE StartHeartbeat
  BY <1>5, <1>6, <1>9 DEF StartHeartbeat, Start
<1>10. CASE SaveRepair \/ SaveRun
  BY <1>4, <1>5, <1>6, <1>10 DEF SaveRepair, SaveRun, Save
<1>11. ASSUME NEW run \in RunRows, Clean(run)
       PROVE  pc'[h] = pc[h] /\ item'[h] = item[h] /\ dirty'[h] = dirty[h] /\ edit'[h] = edit[h]
  BY <1>11 DEF Clean
<1>12. CASE Complete \/ Fail
  BY <1>3, <1>5, <1>12 DEF Complete, Fail, Reschedule
<1>13. CASE Audit \/ SaveFailed
  BY <1>2, <1>13 DEF Audit, SaveFailed, Proceed
<1>14. CASE RaiseInRun
  BY <1>4, <1>5, <1>14 DEF RaiseInRun
<1>15. CASE RaiseInTick
  BY <1>2, <1>15 DEF RaiseInTick, TickFails
<1> QED
  BY <1>7, <1>8, <1>9, <1>10, <1>11, <1>12, <1>13, <1>14, <1>15 DEF SchedulerStep

LEMMA HandlerLeavesOthers ==
  ASSUME CronInv, NEW h \in Handlers, HandlerStep(h) \/ RaiseInHandler(h), NEW u \in Threads \ {h}
  PROVE  pc'[u] = pc[u] /\ item'[u] = item[u] /\ dirty'[u] = dirty[u] /\ edit'[u] = edit[u]
<1>1. \A j, columns, row : Load(h, j, columns, row) =>
        pc'[u] = pc[u] /\ item'[u] = item[u] /\ dirty'[u] = dirty[u] /\ edit'[u] = edit[u]
  BY DEF Load, Stage, Goto, CronInv, TypeOK
<1>2. Discard(h) => dirty'[u] = dirty[u] /\ edit'[u] = edit[u]
  BY DEF Discard, CronInv, TypeOK
<1>3. \A step : Goto(h, step) => pc'[u] = pc[u]
  BY DEF Goto, CronInv, TypeOK
<1>4. item' = [item EXCEPT ![h] = Never] => item'[u] = item[u]
  BY DEF CronInv, TypeOK
<1>5. CASE SaveEdit(h) \/ RaiseInHandler(h)
  BY <1>2, <1>3, <1>4, <1>5 DEF SaveEdit, Save, RaiseInHandler
<1>6. ASSUME NEW j \in Jobs, NEW s \in Schedules, Create(h, j, s)
      PROVE  pc'[u] = pc[u] /\ item'[u] = item[u] /\ dirty'[u] = dirty[u] /\ edit'[u] = edit[u]
  BY <1>6 DEF Create, threadVars
<1> QED BY <1>1, <1>5, <1>6 DEF HandlerStep, Pause, Remove, Activate, Update

\* Nothing but a commit changes a job, and a job is never taken out of the table.
LEMMA KnownStays ==
  ASSUME PlanInv, [Next]_vars, NEW j \in Jobs, job[j].status # "none"
  PROVE  job'[j].status # "none"
<1>1. CASE job'[j].status = job[j].status
  BY <1>1
<1>2. CASE job'[j].status # job[j].status
  <2>1. PICK h \in Handlers : pc[h] = "save" /\ pc'[h] = "idle" /\ item[h] = j
    BY <1>2, StepKeepsStatus DEF PlanInv, StatusStep
  <2>2. job'[j] = Merge(dirty[h], edit[h], job[j]) => job'[j].status # "none"
    BY <2>1 DEF PlanInv, SavesKnown, Merge
  <2>3. CASE SaveEdit(h)
    BY <2>1, <2>2, <2>3 DEF SaveEdit, Save, Write
  <2>4. CASE ~SaveEdit(h)
    <3>1. ~SchedulerStep /\ ~RaiseInRun /\ ~RaiseInTick
      BY <2>1, SchedulerLeavesHandlers DEF PlanInv
    <3>2. \A g \in Handlers \ {h} : ~HandlerStep(g) /\ ~RaiseInHandler(g)
      <4>1. h \in Threads
        BY DEF Threads
      <4> QED BY <2>1, <4>1, HandlerLeavesOthers DEF PlanInv
    <3>3. ~HandlerStep(h)
      BY <2>1, <2>4 DEF HandlerStep, Pause, Remove, Activate, Update, Load, Create
    <3>4. ~RaiseInHandler(h) /\ ~Crash
      BY <1>2 DEF RaiseInHandler, Crash, dbVars
    <3>5. ~HourPasses /\ ~RunAges /\ ~HeartbeatComesDue /\ ~UNCHANGED vars
      BY <2>1 DEF HourPasses, RunAges, HeartbeatComesDue, vars, threadVars
    <3> QED BY <3>1, <3>2, <3>3, <3>4, <3>5 DEF Next
  <2> QED BY <2>3, <2>4
<1> QED BY <1>1, <1>2

LEMMA SavesKnownStays == PlanInv /\ [Next]_vars => SavesKnown'
<1> SUFFICES ASSUME PlanInv, [Next]_vars, NEW h \in Handlers, pc'[h] = "save"
             PROVE  /\ item'[h] \in Jobs
                    /\ job'[item'[h]].status # "none"
                    /\ "status" \in dirty'[h] => edit'[h].status # "none"
  BY DEF SavesKnown
<1>h. h \in Threads
  BY DEF Threads
<1>1. CASE pc'[h] = pc[h] /\ item'[h] = item[h] /\ dirty'[h] = dirty[h] /\ edit'[h] = edit[h]
  BY <1>1, KnownStays DEF PlanInv, SavesKnown
<1>2. CASE SchedulerStep \/ RaiseInRun \/ RaiseInTick
  BY <1>1, <1>2, SchedulerLeavesHandlers DEF PlanInv
<1>3. ASSUME NEW g \in Handlers \ {h}, HandlerStep(g) \/ RaiseInHandler(g)
      PROVE  pc'[h] = pc[h] /\ item'[h] = item[h] /\ dirty'[h] = dirty[h] /\ edit'[h] = edit[h]
  BY <1>3, <1>h, HandlerLeavesOthers DEF PlanInv
<1>4. CASE HandlerStep(h)
  <2>1. ASSUME NEW j \in Jobs, NEW columns \in SUBSET Columns, NEW row \in Rows,
               Load(h, j, columns, row), row.status # "none"
        PROVE  /\ item'[h] \in Jobs
               /\ job'[item'[h]].status # "none"
               /\ "status" \in dirty'[h] => edit'[h].status # "none"
    <3>1. item'[h] = j /\ job[j].status # "none"
      BY <1>h, <2>1 DEF Load, Exists, PlanInv, CronInv, TypeOK
    <3>2. edit'[h] = Merge(dirty'[h], row, NoRow)
      BY <1>h, <2>1, StageHolds DEF Load, PlanInv, CronInv
    <3>3. job'[j].status # "none"
      BY <3>1, KnownStays
    <3>4. "status" \in dirty'[h] => edit'[h].status = row.status
      BY <3>2 DEF Merge
    <3> QED BY <2>1, <3>1, <3>3, <3>4
  <2>2. \A j \in Jobs : job[j] \in Rows
    BY DEF PlanInv, CronInv, TypeOK
  <2>3. \A j \in Jobs : Exists(j) => job[j].status # "none"
    BY DEF Exists
  <2>c. /\ {"status", "next"} \in SUBSET Columns /\ {"schedule", "next"} \in SUBSET Columns
        /\ {"schedule"} \in SUBSET Columns
        /\ "active" \in Statuses /\ "paused" \in Statuses /\ "removed" \in Statuses
    BY DEF Columns, Statuses
  <2>d. \A s \in Schedules : Due(s, TRUE) \in Nat
    BY DueType DEF PlanInv, CronInv
  <2>4. ASSUME NEW j \in Jobs, NEW status \in {"paused", "removed"},
               Load(h, j, {"status", "next"}, [job[j] EXCEPT !.status = status, !.next = Never])
        PROVE  /\ item'[h] \in Jobs
               /\ job'[item'[h]].status # "none"
               /\ "status" \in dirty'[h] => edit'[h].status # "none"
    <3>1. /\ [job[j] EXCEPT !.status = status, !.next = Never] \in Rows
          /\ [job[j] EXCEPT !.status = status, !.next = Never].status # "none"
      BY <2>2, <2>c DEF Rows
    <3> QED BY <2>1, <2>4, <2>c, <3>1
  <2>5. ASSUME NEW j \in Jobs, Activate(h, j)
        PROVE  /\ item'[h] \in Jobs
               /\ job'[item'[h]].status # "none"
               /\ "status" \in dirty'[h] => edit'[h].status # "none"
    <3> DEFINE row == [job[j] EXCEPT !.status = "active", !.next = Due(job[j].schedule, TRUE)]
    <3>1. row \in Rows /\ row.status # "none"
      BY <2>2, <2>c, <2>d, RowTypes DEF Rows
    <3>2. Load(h, j, {"status", "next"}, row)
      BY <2>5 DEF Activate
    <3> HIDE DEF row
    <3> QED BY <2>1, <2>c, <3>1, <3>2
  <2>6. ASSUME NEW j \in Jobs, NEW s \in Schedules, Update(h, j, s)
        PROVE  /\ item'[h] \in Jobs
               /\ job'[item'[h]].status # "none"
               /\ "status" \in dirty'[h] => edit'[h].status # "none"
    <3> DEFINE row == [job[j] EXCEPT !.schedule = s, !.next = Due(s, TRUE)]
               other == [job[j] EXCEPT !.schedule = s]
    <3>1. Exists(j)
      BY <2>6 DEF Update, Load
    <3>m. row \in Rows /\ other \in Rows
      BY <2>2, <2>d, RowTypes
    <3>2. row \in Rows /\ row.status = job[j].status
      BY <3>m, <2>2 DEF Rows
    <3>3. other \in Rows /\ other.status = job[j].status
      BY <3>m, <2>2 DEF Rows
    <3>4. Load(h, j, {"schedule", "next"}, row) \/ Load(h, j, {"schedule"}, other)
      BY <2>6 DEF Update
    <3> HIDE DEF row, other
    <3> QED BY <2>1, <2>3, <2>c, <3>1, <3>2, <3>3, <3>4
  <2>7. ASSUME NEW j \in Jobs, NEW s \in Schedules, Create(h, j, s) PROVE FALSE
    BY <2>7 DEF Create, threadVars
  <2>8. ~SaveEdit(h)
    BY <1>h DEF SaveEdit, Goto, PlanInv, CronInv, TypeOK
  <2> QED BY <1>4, <2>4, <2>5, <2>6, <2>7, <2>8 DEF HandlerStep, Pause, Remove
<1>5. ~RaiseInHandler(h) /\ ~Crash
  BY <1>h DEF RaiseInHandler, Crash, Goto, PlanInv, CronInv, TypeOK
<1>6. CASE RunAges \/ HeartbeatComesDue \/ UNCHANGED vars
  BY <1>1, <1>6 DEF RunAges, HeartbeatComesDue, vars, threadVars
<1>7. CASE HourPasses
  <2>1. pc[h] = "save" /\ item'[h] = item[h] /\ dirty'[h] = dirty[h]
    BY <1>7 DEF HourPasses
  <2>2. edit[h] \in Rows /\ edit'[h] = [edit[h] EXCEPT !.next = OneHourOn(@)]
    BY <1>7, <1>h DEF HourPasses, PlanInv, CronInv, TypeOK
  <2>3. edit'[h].status = edit[h].status
    BY <2>2 DEF Rows
  <2> QED BY <2>1, <2>3, KnownStays DEF PlanInv, SavesKnown
<1> QED BY <1>1, <1>2, <1>3, <1>4, <1>5, <1>6, <1>7 DEF Next

LEMMA FailsCleanStays == PlanInv /\ [Next]_vars => FailsClean'
<1> SUFFICES ASSUME PlanInv, [Next]_vars, pc'[Scheduler] = "fail"
             PROVE  dirty'[Scheduler] = {}
  BY DEF FailsClean
<1>s. Scheduler \in Threads /\ pc \in [Threads -> Steps] /\ dirty \in [Threads -> SUBSET Columns]
  BY DEF Threads, PlanInv, CronInv, TypeOK
<1>g. \A step : Goto(Scheduler, step) => pc'[Scheduler] = step
  BY <1>s DEF Goto
<1>d. Discard(Scheduler) => dirty'[Scheduler] = {}
  BY <1>s DEF Discard
<1>l. \A step \in {"idle", "due"} : ~Leave(step)
  BY <1>g DEF Leave
<1>1. ~SchedulerStep
  <2>1. ~Tick /\ ~SaveRepair /\ ~ListDue /\ ~StartHeartbeat /\ ~EndTick /\ ~Execute
    BY <1>g DEF Tick, SaveRepair, ListDue, StartHeartbeat, EndTick, Execute, Start
  <2>2. ~Complete /\ ~SaveRun /\ ~Record /\ ~Audit /\ ~Fail /\ ~SaveFailed
    BY <1>g, <1>l DEF Complete, SaveRun, Record, Audit, Fail, SaveFailed, Proceed
  <2>3. \A j \in Jobs : ~Repair(j) /\ ~StartRun(j)
    BY <1>g, <1>l DEF Repair, TickFails, StartRun, Start
  <2>4. \A run \in RunRows : ~Clean(run)
    BY DEF Clean
  <2> QED BY <2>1, <2>2, <2>3, <2>4 DEF SchedulerStep
<1>2. CASE RaiseInRun
  BY <1>2, <1>d DEF RaiseInRun
<1>3. ~RaiseInTick /\ ~Crash
  BY <1>l, <1>s DEF RaiseInTick, TickFails, Crash
<1>4. ASSUME NEW h \in Handlers, HandlerStep(h) \/ RaiseInHandler(h)
      PROVE  dirty'[Scheduler] = {}
  <2>1. Scheduler \in Threads \ {h}
    BY <1>s, ConstantsAssumption
  <2>2. pc'[Scheduler] = pc[Scheduler] /\ dirty'[Scheduler] = dirty[Scheduler]
    BY <1>4, <2>1, HandlerLeavesOthers DEF PlanInv
  <2> QED BY <2>2 DEF PlanInv, FailsClean
<1>5. CASE HourPasses \/ RunAges \/ HeartbeatComesDue \/ UNCHANGED vars
  BY <1>5 DEF HourPasses, RunAges, HeartbeatComesDue, vars, threadVars, PlanInv, FailsClean
<1> QED BY <1>1, <1>2, <1>3, <1>4, <1>5 DEF Next

LEMMA PlanInvHolds == Spec => []PlanInv
<1>1. PlanInv /\ [Next]_vars => PlanInv'
  BY CronInvNext, SavesKnownStays, FailsCleanStays DEF PlanInv
<1> QED BY <1>1, InitPlanInv, PTL DEF Spec

\* What NextRunIsNext says of a step and a thread, and of a step and a job.
PlansNext(t) ==
  Plans(pc'[t]) /\ pc'[t] # pc[t] /\ "next" \in dirty'[t] /\ edit'[t].next # Never
    => LET s == Merge(dirty'[t], edit'[t], job[item'[t]]).schedule
       IN  IsNextSince(s, hour, Behind(s, ~EndsRun(pc'[t])), edit'[t].next)

CreatesNext(j) ==
  job[j].status = "none" /\ job'[j].status # "none"
    => IsNext(job'[j].schedule, hour, job'[j].next)

LEMMA LoadPlansNext ==
  ASSUME CronInv, NEW h \in Handlers, NEW j \in Jobs,
         NEW columns \in SUBSET Columns, NEW row \in Rows, Load(h, j, columns, row),
         "schedule" \notin columns => row.schedule = job[j].schedule,
         "next" \in columns => row.next = Never \/ row.next = Due(row.schedule, TRUE)
  PROVE  PlansNext(h)
<1>1. h \in Threads /\ TypeOK
  BY DEF Threads, CronInv
<1>2. item'[h] = j /\ Stage(h, j, columns, row) /\ ~EndsRun(pc'[h])
  BY <1>1 DEF Load, Goto, EndsRun, TypeOK
<1>3. \A s : Behind(s, ~EndsRun(pc'[h])) = Behind(s, TRUE)
  BY <1>2 DEF Behind
<1> QED BY <1>1, <1>2, <1>3, StagedIsNext DEF PlansNext

LEMMA HandlersPlanNext ==
  ASSUME CronInv, NEW h \in Handlers, HandlerStep(h)
  PROVE  PlansNext(h)
<1>h. h \in Threads
  BY DEF Threads
<1>r. \A j \in Jobs : job[j] \in Rows /\ job[j].schedule \in Schedules
  BY RowTypes DEF CronInv, TypeOK
<1>c. /\ {"status", "next"} \in SUBSET Columns /\ {"schedule", "next"} \in SUBSET Columns
      /\ {"schedule"} \in SUBSET Columns
      /\ "active" \in Statuses /\ "paused" \in Statuses /\ "removed" \in Statuses
  BY DEF Columns, Statuses
<1>d. \A s \in Schedules : Due(s, TRUE) \in Nat
  BY DueType DEF CronInv
<1>1. ASSUME NEW j \in Jobs, NEW status \in {"paused", "removed"},
             Load(h, j, {"status", "next"}, [job[j] EXCEPT !.status = status, !.next = Never])
      PROVE  PlansNext(h)
  <2> DEFINE row == [job[j] EXCEPT !.status = status, !.next = Never]
  <2>1. row \in Rows
    BY <1>c, <1>r, RowTypes
  <2>2. row.next = Never /\ row.schedule = job[j].schedule
    BY <1>r DEF Rows
  <2>3. Load(h, j, {"status", "next"}, row)
    BY <1>1
  <2> HIDE DEF row
  <2> QED BY <1>c, <2>1, <2>2, <2>3, LoadPlansNext
<1>2. ASSUME NEW j \in Jobs, Activate(h, j) PROVE PlansNext(h)
  <2> DEFINE row == [job[j] EXCEPT !.status = "active", !.next = Due(job[j].schedule, TRUE)]
  <2>1. row \in Rows
    BY <1>c, <1>r, <1>d, RowTypes
  <2>2. row.next = Due(row.schedule, TRUE) /\ row.schedule = job[j].schedule
    BY <1>r DEF Rows
  <2>3. Load(h, j, {"status", "next"}, row)
    BY <1>2 DEF Activate
  <2> HIDE DEF row
  <2> QED BY <1>c, <2>1, <2>2, <2>3, LoadPlansNext
<1>3. ASSUME NEW j \in Jobs, NEW s \in Schedules, Update(h, j, s) PROVE PlansNext(h)
  <2> DEFINE row == [job[j] EXCEPT !.schedule = s, !.next = Due(s, TRUE)]
             other == [job[j] EXCEPT !.schedule = s]
  <2>1. row \in Rows /\ other \in Rows
    BY <1>r, <1>d, RowTypes
  <2>2. row.next = Due(row.schedule, TRUE)
    BY <1>r DEF Rows
  <2>3. Load(h, j, {"schedule", "next"}, row) \/ Load(h, j, {"schedule"}, other)
    BY <1>3 DEF Update
  <2> HIDE DEF row, other
  <2> QED BY <1>c, <2>1, <2>2, <2>3, LoadPlansNext
<1>4. ASSUME NEW j \in Jobs, NEW s \in Schedules, Create(h, j, s) PROVE PlansNext(h)
  BY <1>4 DEF Create, threadVars, PlansNext
<1>5. CASE SaveEdit(h)
  BY <1>5, <1>h DEF SaveEdit, Goto, PlansNext, Plans, CronInv, TypeOK
<1> QED BY <1>1, <1>2, <1>3, <1>4, <1>5 DEF HandlerStep, Pause, Remove

LEMMA ReschedulePlansNext ==
  ASSUME CronInv, NEW j \in Jobs, Reschedule(j), item'[Scheduler] = j,
         EndsRun(pc'[Scheduler])
  PROVE  PlansNext(Scheduler)
<1> DEFINE row == [job[j] EXCEPT !.ran = TRUE, !.next = Due(job[j].schedule, FALSE)]
<1>1. job[j] \in Rows /\ job[j].schedule \in Schedules
  BY RowTypes DEF CronInv, TypeOK
<1>2. Due(job[j].schedule, FALSE) \in Nat
  BY <1>1, DueType DEF CronInv
<1>3. row \in Rows
  BY <1>1, <1>2, RowTypes
<1>4. row.next = Due(row.schedule, FALSE) /\ row.schedule = job[j].schedule
  BY <1>1 DEF Rows
<1>7. \A s : Behind(s, ~EndsRun(pc'[Scheduler])) = Behind(s, FALSE)
  BY DEF Behind
<1>5. Stage(Scheduler, j, {"ran", "next"}, row) /\ Scheduler \in Threads
      /\ {"ran", "next"} \in SUBSET Columns
  BY DEF Reschedule, Threads, Columns
<1> HIDE DEF row
<1>6. TypeOK
  BY DEF CronInv
<1> QED BY <1>3, <1>4, <1>5, <1>6, <1>7, StagedIsNext DEF PlansNext

LEMMA SchedulerPlansNext ==
  ASSUME PlanInv, SchedulerStep
  PROVE  PlansNext(Scheduler)
<1>s. /\ Scheduler \in Threads /\ pc \in [Threads -> Steps]
      /\ item \in [Threads -> Owners \cup {Never}] /\ TypeOK
  BY DEF Threads, PlanInv, CronInv, TypeOK
<1>g. \A step : Goto(Scheduler, step) => pc'[Scheduler] = step
  BY <1>s DEF Goto
<1>l. \A step \in {"idle", "due"} : Leave(step) => PlansNext(Scheduler)
  BY <1>g DEF Leave, PlansNext, Plans
<1>1. CASE Tick \/ SaveRepair \/ ListDue \/ StartHeartbeat \/ EndTick \/ Execute \/ SaveRun \/ Record
  BY <1>1, <1>g
     DEF Tick, SaveRepair, ListDue, StartHeartbeat, EndTick, Execute, Start, SaveRun, Record,
         PlansNext, Plans
<1>2. CASE Audit \/ SaveFailed
  BY <1>2, <1>l DEF Audit, SaveFailed, Proceed
<1>3. ASSUME NEW j \in Jobs, StartRun(j) PROVE PlansNext(Scheduler)
  BY <1>3, <1>g DEF StartRun, Start, PlansNext, Plans
<1>4. ASSUME NEW run \in RunRows, Clean(run) PROVE PlansNext(Scheduler)
  BY <1>4 DEF Clean, PlansNext
<1>5. ASSUME NEW j \in Jobs, Repair(j) PROVE PlansNext(Scheduler)
  <2>1. CASE pc' = pc
    BY <2>1 DEF PlansNext
  <2>2. CASE Leave("idle")
    BY <1>l, <2>2
  <2>3. CASE /\ item' = [item EXCEPT ![Scheduler] = j]
             /\ Stage(Scheduler, j, {"next"}, [job[j] EXCEPT !.next = Due(job[j].schedule, TRUE)])
    <3> DEFINE row == [job[j] EXCEPT !.next = Due(job[j].schedule, TRUE)]
    <3>1. job[j] \in Rows /\ job[j].schedule \in Schedules
      BY <1>s, RowTypes DEF TypeOK
    <3>2. Due(job[j].schedule, TRUE) \in Nat
      BY <1>s, <3>1, DueType
    <3>3. row \in Rows
      BY <3>1, <3>2, RowTypes
    <3>4. row.next = Due(row.schedule, TRUE) /\ row.schedule = job[j].schedule
      BY <3>1 DEF Rows
    <3>5. Stage(Scheduler, j, {"next"}, row) /\ item'[Scheduler] = j /\ {"next"} \in SUBSET Columns
      BY <1>s, <2>3 DEF Columns
    <3>6. \A s : Behind(s, ~EndsRun(pc'[Scheduler])) = Behind(s, TRUE)
      <4>1. ~EndsRun(pc'[Scheduler])
        BY <1>5, <1>g DEF Repair, TickFails, Leave, EndsRun
      <4> QED BY <4>1 DEF Behind
    <3> HIDE DEF row
    <3> QED BY <1>s, <3>3, <3>4, <3>5, <3>6, StagedIsNext DEF PlansNext
  <2> QED BY <1>5, <2>1, <2>2, <2>3 DEF Repair, TickFails
<1>6. CASE Complete \/ Fail
  <2>1. item[Scheduler] \in Owners /\ item'[Scheduler] = item[Scheduler]
    BY <1>6 DEF Complete, Fail, PlanInv, CronInv, HandsAgree, RunSteps
  <2>2. CASE item[Scheduler] # Heartbeat
    <3>1. item[Scheduler] \in Jobs /\ Reschedule(item[Scheduler])
      BY <1>6, <2>1, <2>2 DEF Complete, Fail, Owners
    <3>2. EndsRun(pc'[Scheduler])
      BY <1>6, <1>g, <2>2 DEF Complete, Fail, EndsRun
    <3> QED BY <2>1, <3>1, <3>2, ReschedulePlansNext DEF PlanInv
  <2>3. CASE item[Scheduler] = Heartbeat /\ Complete
    BY <2>3, <1>g DEF Complete, PlansNext, Plans
  <2>4. CASE item[Scheduler] = Heartbeat /\ Fail
    BY <2>4 DEF Fail, PlansNext, PlanInv, FailsClean
  <2> QED BY <1>6, <2>2, <2>3, <2>4
<1> QED BY <1>1, <1>2, <1>3, <1>4, <1>5, <1>6 DEF SchedulerStep

LEMMA StepPlansNext ==
  ASSUME PlanInv, [Next]_vars, NEW t \in Threads
  PROVE  PlansNext(t)
<1>1. CASE pc'[t] = pc[t]
  BY <1>1 DEF PlansNext
<1>2. CASE SchedulerStep
  <2>1. t = Scheduler \/ t \in Handlers
    BY DEF Threads
  <2> QED BY <1>1, <1>2, <2>1, SchedulerPlansNext, SchedulerLeavesHandlers DEF PlanInv
<1>3. ASSUME NEW h \in Handlers, HandlerStep(h) PROVE PlansNext(t)
  <2>1. CASE t = h
    BY <1>3, <2>1, HandlersPlanNext DEF PlanInv
  <2>2. CASE t # h
    BY <1>1, <1>3, <2>2, HandlerLeavesOthers DEF PlanInv
  <2> QED BY <2>1, <2>2
<1>4. CASE RaiseInRun \/ RaiseInTick
  <2>1. \/ pc'[Scheduler] = "fail"
        \/ pc'[Scheduler] = "idle"
    BY <1>4 DEF RaiseInRun, RaiseInTick, TickFails, Leave, Goto, Threads, PlanInv, CronInv, TypeOK
  <2>2. CASE t = Scheduler
    BY <2>1, <2>2 DEF PlansNext, Plans
  <2>3. CASE t # Scheduler
    BY <1>1, <1>4, <2>3, SchedulerLeavesHandlers DEF PlanInv, Threads
  <2> QED BY <2>2, <2>3
<1>5. ASSUME NEW h \in Handlers, RaiseInHandler(h) PROVE PlansNext(t)
  <2>1. pc'[t] = pc[t] \/ pc'[t] = "idle"
    BY <1>5 DEF RaiseInHandler, Goto, PlanInv, CronInv, TypeOK
  <2> QED BY <2>1 DEF PlansNext, Plans
<1>6. CASE Crash
  BY <1>6 DEF Crash, PlansNext, Plans
<1>7. CASE HourPasses \/ RunAges \/ HeartbeatComesDue \/ UNCHANGED vars
  BY <1>1, <1>7 DEF HourPasses, RunAges, HeartbeatComesDue, vars, threadVars
<1> QED BY <1>2, <1>3, <1>4, <1>5, <1>6, <1>7 DEF Next

LEMMA StepCreatesNext ==
  ASSUME PlanInv, [Next]_vars, NEW j \in Jobs,
         job[j].status = "none", job'[j].status # "none"
  PROVE  IsNext(job'[j].schedule, hour, job'[j].next)
<1>r. job \in [Jobs -> Rows] /\ CronInv
  BY DEF PlanInv, CronInv, TypeOK
<1>0. job' # job
  OBVIOUS
<1>1. ~SchedulerStep
  <2>1. ~Write(Scheduler)
    BY <1>r, SchedulerLeavesStatus
  <2> QED
    BY <1>0, <2>1
       DEF SchedulerStep, Tick, Repair, TickFails, SaveRepair, ListDue, StartRun, Start,
           StartHeartbeat, EndTick, Execute, Clean, Complete, SaveRun, Record, Audit, Fail,
           SaveFailed, Save, dbVars
<1>2. ASSUME NEW h \in Handlers, HandlerStep(h)
      PROVE  IsNext(job'[j].schedule, hour, job'[j].next)
  <2>1. ~SaveEdit(h)
    <3>1. SaveEdit(h) => job'[j] = IF j = item[h] THEN Merge(dirty[h], edit[h], job[j]) ELSE job[j]
      BY DEF SaveEdit, Save, Write
    <3> QED BY <3>1 DEF SaveEdit, PlanInv, SavesKnown
  <2>2. \A k, columns, row : ~Load(h, k, columns, row)
    BY <1>0 DEF Load, dbVars
  <2>3. PICK k \in Jobs, s \in Schedules : Create(h, k, s)
    BY <1>2, <2>1, <2>2 DEF HandlerStep, Pause, Remove, Activate, Update
  <2>4. k = j
    BY <1>r, <2>3 DEF Create
  <2>5. job'[j] = [status |-> "active", schedule |-> s, ran |-> FALSE, next |-> Due(s, TRUE)]
    BY <1>r, <2>3, <2>4 DEF Create
  <2>6. IsNext(s, hour, Due(s, TRUE))
    <3>1. hour \in Int /\ TypeOK
      BY WeekPositive DEF PlanInv, CronInv, TypeOK
    <3>2. Due(s, TRUE) \in Nat
      BY <2>3, <3>1, DueType
    <3>3. IsNextSince(s, hour, Behind(s, TRUE), Due(s, TRUE)) /\ Behind(s, TRUE) = 0
      BY <2>3, <3>1, DueIsNext DEF Behind
    <3> QED BY <3>1, <3>2, <3>3, SinceNow
  <2>7. job'[j].schedule = s /\ job'[j].next = Due(s, TRUE)
    BY <2>5
  <2> QED BY <2>6, <2>7
<1>3. ~(RaiseInRun \/ RaiseInTick \/ Crash \/ \E h \in Handlers : RaiseInHandler(h))
  BY <1>0 DEF RaiseInRun, RaiseInTick, Crash, RaiseInHandler, dbVars
<1>4. ~HourPasses
  <2>1. HourPasses => job'[j] = [job[j] EXCEPT !.next = OneHourOn(@)]
    BY DEF HourPasses
  <2>2. [job[j] EXCEPT !.next = OneHourOn(@)].status = job[j].status
    BY <1>r DEF Rows
  <2> QED BY <2>1, <2>2
<1>5. ~(RunAges \/ HeartbeatComesDue \/ UNCHANGED vars)
  BY <1>0 DEF RunAges, HeartbeatComesDue, vars, dbVars
<1> QED BY <1>1, <1>2, <1>3, <1>4, <1>5 DEF Next

\* Whoever plans a run plans the next time at which its schedule fires, in the job's
\* zone, for any calendar, host, schedules and races; the end of a run of a daily or
\* weekly job plans the first time after its own reading of now, HostOffset hours ago
\* (next_after, _repair_schedules, run_job, the handlers of the cron jobs).
THEOREM PlannedRunsAreNext == Spec => NextRunIsNext
<1> DEFINE step == (\A t \in Threads : PlansNext(t)) /\ (\A j \in Jobs : CreatesNext(j))
<1>1. PlanInv /\ [Next]_vars => [step]_vars
  BY StepPlansNext, StepCreatesNext DEF CreatesNext
<1>2. [step]_vars =>
        [/\ \A t \in Threads :
              Plans(pc'[t]) /\ pc'[t] # pc[t] /\ "next" \in dirty'[t] /\ edit'[t].next # Never
                => LET s == Merge(dirty'[t], edit'[t], job[item'[t]]).schedule
                   IN  IsNextSince(s, hour, Behind(s, ~EndsRun(pc'[t])), edit'[t].next)
         /\ \A j \in Jobs :
              job[j].status = "none" /\ job'[j].status # "none"
                => IsNext(job'[j].schedule, hour, job'[j].next)]_vars
  BY DEF PlansNext, CreatesNext
<1> HIDE DEF step
<1> QED BY <1>1, <1>2, PlanInvHolds, PTL DEF Spec, NextRunIsNext

=============================================================================
