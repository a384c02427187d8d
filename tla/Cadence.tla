------------------------------ MODULE Cadence -------------------------------
(***************************************************************************)
(* When a job is due: the test the run loop makes of a tick, and the scan  *)
(* a backfill makes of the time a process was down, which the code         *)
(* implements apart from each other (internals/pkg/scheduler:              *)
(* schedule_event.go's builders and IsDue, scheduler.go's runJobs,         *)
(* persistence.go's missedOccurrences).                                    *)
(*                                                                         *)
(* An instant is a number of seconds in UTC.  A wall clock is "offset"     *)
(* seconds ahead of UTC; its digits are those of the instant t + offset.   *)
(* What a fraction of a second is truncated to is the same for all of      *)
(* them and left out.                                                      *)
(***************************************************************************)
EXTENDS Integers

CONSTANTS
    Minute,            \* ONE_MINUTE_AS_SECOND: seconds in a minute (60)
    Hour,              \* minutes in an hour (60)
    Day,               \* hours in a day (24)
    DayOfMonth,        \* the calendar: DayOfMonth[d] of the d-th day
    Zone,              \* the offset of the jobs' zone, "Africa/Lagos" (3600)
    MaxBackfillScans   \* persistence.go: maxBackfillScans (100000)

ASSUME CadenceAssumption ==
    /\ Minute \in Nat \ {0} /\ Hour \in Nat \ {0} /\ Day \in Nat \ {0}
    /\ Zone \in Nat /\ Zone % Minute = 0
    /\ MaxBackfillScans \in Nat

Never == 0  \* Go's zero time, for a job that has no successful run

-----------------------------------------------------------------------------
(* Wall-clock digits of a local instant.                                   *)

OfHour(t) == t % (Minute * Hour)
Second(t) == OfHour(t) % Minute
MinuteOf(t) == OfHour(t) \div Minute
HourOf(t) == (t \div (Minute * Hour)) % Day
DayNumber(t) == t \div (Minute * Hour * Day)
Weekday(t) == DayNumber(t) % 7

-----------------------------------------------------------------------------
(* Schedules.  A cron expression is, per field, the set of values that     *)
(* match; the month is always "*".  gronx puts a second 0 before five      *)
(* fields and takes the first of six for the second.                       *)

SixFields(sec, min, hour, dom, dow) ==
    [sec |-> sec, min |-> min, hour |-> hour, dom |-> dom, dow |-> dow]
FiveFields(min, hour, dom, dow) == SixFields({0}, min, hour, dom, dow)

IsSchedule(s) == s.perSecond \in BOOLEAN /\ s.interval \in Int

AnyMinute == 0 .. Hour - 1
AnyHour == 0 .. Day - 1
AnyDate == 1 .. 31
AnyWeekday == 0 .. 6

EverySecondAt(n) == [perSecond |-> TRUE, interval |-> n,
                     cron |-> SixFields({}, {}, {}, {}, {})]
Cron(c) == [perSecond |-> FALSE, interval |-> 0, cron |-> c]

EveryMinutes(n) == Cron(FiveFields({m \in AnyMinute : m % n = 0},
                                   AnyHour, AnyDate, AnyWeekday))
Hourly == Cron(FiveFields({0}, AnyHour, AnyDate, AnyWeekday))
HourlyAt(t) == Cron(SixFields({t}, {0}, AnyHour, AnyDate, AnyWeekday))
DailyAt(t) == Cron(FiveFields({t}, {0}, AnyDate, AnyWeekday))
WeeklyAt(d) == Cron(FiveFields({0}, {0}, AnyDate, {d}))
MonthlyAt(d) == Cron(FiveFields({0}, {0}, {d}, AnyWeekday))

\* gronx.IsDue for the digits of the local instant t.
CronDue(c, t) ==
    /\ Second(t) \in c.sec
    /\ MinuteOf(t) \in c.min
    /\ HourOf(t) \in c.hour
    /\ c.dom = AnyDate \/ DayOfMonth[DayNumber(t)] \in c.dom
    /\ Weekday(t) \in c.dow

-----------------------------------------------------------------------------
(* The run loop's test.                                                    *)

\* A second-based job: at second 0 the interval must divide a minute.
SecondDue(n, s) ==
    /\ n > 0
    /\ IF s = 0 THEN Minute % n = 0 ELSE s % n = 0

\* A cron job: the digits of the host's clock are read as if they were the
\* job's zone's.
IsDue(s, t, host) ==
    IF s.perSecond THEN SecondDue(s.interval, Second(t + host))
                   ELSE CronDue(s.cron, t + host)

\* runJobs looks at cron jobs at the top of a minute only.
Fires(s, t, host) ==
    /\ Second(t + host) = 0 \/ s.perSecond
    /\ IsDue(s, t, host)

-----------------------------------------------------------------------------
(* The backfill's scan.                                                    *)

Step(s) == IF s.perSecond THEN 1 ELSE Minute

Truncate(t, step) == (t \div step) * step

\* As far back as a scan goes.
WindowEdge(s, now) == now - MaxBackfillScans * Step(s)

\* The scan begins at the step after the cursor, or at the edge of the window,
\* which is not truncated.  (Mutant: at the cursor's step.)
ScanStart_FromCursor(s, last, now) ==
    LET start == Truncate(last, Step(s))
    IN  IF start < WindowEdge(s, now) THEN WindowEdge(s, now) ELSE start
ScanStart(s, last, now) ==
    LET start == Truncate(last + Step(s), Step(s))
    IN  IF start < WindowEdge(s, now) THEN WindowEdge(s, now) ELSE start

\* A scan that begins in mid-minute: with a step of a minute it looks at that
\* second of every minute, and never at second 0.
Misaligned(s, last, now, host) ==
    ~s.perSecond /\ Second(ScanStart(s, last, now) + host) # 0

\* The test of an instant scanned: it is converted to the job's zone, and a
\* second-based job has no rule of its own for second 0.  (Mutant: the digits
\* are those of UTC.)
BackfillDue_UTC(s, t, host) ==
    IF s.perSecond THEN s.interval > 0 /\ Second(t + host) % s.interval = 0
                   ELSE CronDue(s.cron, t)
BackfillDue(s, t, host) ==
    IF s.perSecond THEN s.interval > 0 /\ Second(t + host) % s.interval = 0
                   ELSE CronDue(s.cron, t + Zone)

\* (Mutants: the present instant is left out; the scan goes a step too far.)
MissedOccurrences_BeforeNow(s, last, now, host) ==
    IF last = Never
    THEN {now}
    ELSE LET start == ScanStart(s, last, now)
         IN  {t \in start .. now - 1 : /\ (t - start) % Step(s) = 0
                                       /\ BackfillDue(s, t, host)}
MissedOccurrences_PastNow(s, last, now, host) ==
    IF last = Never
    THEN {now}
    ELSE LET start == ScanStart(s, last, now)
         IN  {t \in start .. now + Step(s) : /\ (t - start) % Step(s) = 0
                                             /\ BackfillDue(s, t, host)}
MissedOccurrences(s, last, now, host) ==
    IF last = Never
    THEN {now}
    ELSE LET start == ScanStart(s, last, now)
         IN  {t \in start .. now : /\ (t - start) % Step(s) = 0
                                   /\ BackfillDue(s, t, host)}

-----------------------------------------------------------------------------
(* Where the two tests agree.                                              *)

\* The host's clock is the jobs' zone's, or shows the same minutes and the cron
\* expression looks at nothing above them.
SameDigits(c, host) ==
    \/ host = Zone
    \/ OfHour(host) = OfHour(Zone) /\ c.hour = AnyHour /\ c.dom = AnyDate
                                   /\ c.dow = AnyWeekday

\* Every instant the loop fires at is one the scan would find ...
Covered(s, host) == s.perSecond \/ SameDigits(s.cron, host)

\* ... and the scan finds no other: at second 0 a second-based job must divide
\* the minute; a six-field expression must not name a second that the loop does
\* not look at and a scan from the window's edge does.
Agreeing(s, host) ==
    /\ Covered(s, host)
    /\ s.perSecond /\ s.interval > 0 => Minute % s.interval = 0
    /\ ~s.perSecond => s.cron.sec = {0}
=============================================================================
