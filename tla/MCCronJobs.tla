---------------------------- MODULE MCCronJobs ----------------------------
(* Instances of CronJobs for TLC: weeks of two days of two hours. *)
EXTENDS CronJobs

EveryHour == [kind |-> "interval", every |-> 1, day |-> 0, at |-> 0, zone |-> 0]
MCSchedules == {EveryHour, [kind |-> "weekly", every |-> 1, day |-> 1, at |-> 0, zone |-> 1]}

\* Two handlers that raced may have left an active job without a next run.
MCOldRows ==
  {[status |-> "active", schedule |-> EveryHour, ran |-> ran, next |-> Never] : ran \in BOOLEAN}

MCNoRows == {}

(* A whole week of six-hour days: next_after agrees with the calendar. *)
Calendar == INSTANCE CronSchedules WITH Day <- 6, DaysPerWeek <- 7, HostOffset <- 0

ASSUME NextAfterIsNext ==
  \A kind \in {"daily", "weekly"}, day \in 0 .. 6, at \in 0 .. 5, zone \in {-3, 0, 2} :
    LET s == [kind |-> kind, every |-> 1, day |-> day, at |-> at, zone |-> zone]
    IN  \A now \in 0 .. 41 : Calendar!IsNext(s, now, Calendar!NextIn(s, now, TRUE))

=============================================================================
