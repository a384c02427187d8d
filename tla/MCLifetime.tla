----------------------------- MODULE MCLifetime -----------------------------
(* Lifetime on a small calendar: minutes of 3 seconds, hours of 2 minutes,  *)
(* days of 2 hours; the job's zone is an hour ahead of UTC.                 *)
EXTENDS Lifetime

SmallCalendar == [d \in 0 .. MaxTime |-> d + 1]

\* Intervals that divide a minute, or do not; cron jobs that look
\* at the minute only, at an hour, at a date; and one of six fields.
SomeSchedules == {EverySecondAt(3), EverySecondAt(2), EveryMinutes(1), DailyAt(1),
                  MonthlyAt(2), HourlyAt(1)}

\* A job of every minute.
EveryMinute == {EveryMinutes(1)}
=============================================================================
