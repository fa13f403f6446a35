--------------------------- MODULE CronSchedules ---------------------------
(***************************************************************************)
(* When a schedule fires next (core/schedules.py), in whole hours of UTC.    *)
(*                                                                         *)
(* A datetime that was read from SQLite has lost its time zone: it is naive. *)
(* Comparing it with an aware one raises TypeError, and astimezone takes its *)
(* reading for the local time of the host.                                  *)
(***************************************************************************)
EXTENDS Integers

CONSTANTS
  Day,         \* hours of a day
  DaysPerWeek,
  HostOffset   \* the host's zone: hours east of UTC

ASSUME CalendarAssumption ==
  /\ Day \in Nat \ {0}
  /\ DaysPerWeek \in Nat \ {0}
  /\ HostOffset \in Int

Week == Day * DaysPerWeek

\* A parsed schedule: every:<n>h, daily:<at>, weekly:<day>@<at>, in a zone.
IsSchedule(s) ==
  /\ s.kind \in {"interval", "daily", "weekly"}
  /\ s.every \in Nat \ {0}
  /\ s.day \in 0 .. DaysPerWeek - 1
  /\ s.at \in 0 .. Day - 1
  /\ s.zone \in Int

Weekday(local) == (local \div Day) % DaysPerWeek

\* replace(hour=at, minute=0, ...)
Replace(local, at) == local - (local % Day) + at

\* reference_utc.astimezone(zone)
LocalTime(hour, aware, zone) == hour + zone - (IF aware THEN 0 ELSE HostOffset)

NextDaily(s, local) ==
  LET candidate == Replace(local, s.at)
  IN  IF candidate <= local THEN candidate + Day ELSE candidate

NextWeekly(s, local) ==
  LET candidate == Replace(local, s.at) + ((s.day - Weekday(local)) % DaysPerWeek) * Day
  IN  IF candidate <= local THEN candidate + Week ELSE candidate

\* next_after, in hours from the reference on.  Its loop over intervals never
\* runs: last_run_at is the reference itself, absent, or raises.
NextIn(s, hour, aware) ==
  LET local == LocalTime(hour, aware, s.zone)
  IN  CASE s.kind = "interval" -> s.every
        [] s.kind = "daily"    -> NextDaily(s, local) - s.zone - hour
        [] s.kind = "weekly"   -> NextWeekly(s, local) - s.zone - hour

\* "can't compare offset-naive and offset-aware datetimes": last_run_at was read
\* from SQLite and the reference is utc_now().
NextRaises(s, ran, aware) == s.kind = "interval" /\ ran /\ aware

\* How many hours before the present next_after takes the reference to be: none if it
\* is aware or nobody asks for the time of day.
Behind(s, aware) == IF aware \/ s.kind = "interval" THEN 0 ELSE HostOffset

-----------------------------------------------------------------------------
(* The meaning of a schedule, for comparison. *)

Fires(s, hour) ==
  LET local == hour + s.zone
  IN  local % Day = s.at /\ (s.kind = "weekly" => Weekday(local) = s.day)

\* d hours from now is the next time s fires.
IsNext(s, hour, d) ==
  IF s.kind = "interval"
    THEN d = s.every
    ELSE d > 0 /\ Fires(s, hour + d) /\ \A e \in 1 .. d - 1 : ~Fires(s, hour + e)

\* d hours from now is the first time s fires after the time that was `behind` hours
\* ago (or will be, if negative); d = 0 if that time has passed.
IsNextSince(s, hour, behind, d) ==
  IF d = 0 THEN \E e \in 1 .. behind : IsNext(s, hour - behind, e)
           ELSE IsNext(s, hour - behind, d + behind)

=============================================================================
