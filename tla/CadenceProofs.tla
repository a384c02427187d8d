---------------------------- MODULE CadenceProofs ----------------------------
(***************************************************************************)
(* The run loop's test of a tick against the backfill's scan, for every    *)
(* calendar, zone, host clock, schedule and scan window.                   *)
(***************************************************************************)
EXTENDS Cadence, Numbers

-----------------------------------------------------------------------------
(* The clock's digits.                                                     *)

\* The constants' products.
LEMMA Lengths ==
    /\ Minute \in Nat \ {0} /\ Minute * Hour \in Nat \ {0}
    /\ \A s : Step(s) \in Nat \ {0} /\ MaxBackfillScans * Step(s) \in Nat
<1> DEFINE Positive(i, j) == i * j \in Nat \ {0}
<1>1. \A i, j \in Nat \ {0} : Positive(i, j)
  OBVIOUS
<1>2. Minute \in Nat \ {0} /\ Hour \in Nat \ {0} /\ MaxBackfillScans \in Nat
  BY CadenceAssumption
<1>3. ASSUME NEW s
      PROVE  Step(s) \in Nat \ {0} /\ MaxBackfillScans * Step(s) \in Nat
  BY <1>2 DEF Step
<1> QED
  BY <1>1, <1>2, <1>3

\* The second of an instant is its remainder by the minute, whatever the hour.
LEMMA SecondIs ==
    ASSUME NEW t \in Int
    PROVE  Second(t) = (t % Minute) /\ Second(t) \in Int
<1> DEFINE h == Minute * Hour
           r == (t % h)
           q == (t \div h)
           p == Hour * q
<1>1. h \in Nat \ {0} /\ Minute \in Nat \ {0} /\ Hour \in Nat \ {0}
  BY Lengths, CadenceAssumption
<1>2. r \in Int /\ q \in Int /\ t = (h * q) + r
  <2> HIDE DEF h
  <2> QED BY <1>1, DivMod
<1>3. p \in Int /\ h * q = Minute * p
  <2> HIDE DEF q
  <2> QED BY <1>1, <1>2
<1>4. ((Minute * p) + r) % Minute = (r % Minute)
  <2> HIDE DEF p, r
  <2> QED BY <1>1, <1>2, <1>3, ModPlusMultiple
<1>5. t = (Minute * p) + r
  BY <1>2, <1>3
<1>6. (t % Minute) = (r % Minute)
  BY <1>4, <1>5
<1> QED
  BY <1>1, <1>2, <1>6, DivMod DEF Second, OfHour

\* A host's clock shows second 0 where a minute of UTC begins: offsets are of
\* whole minutes.
LEMMA TopOfMinute ==
    ASSUME NEW t \in Int, NEW host \in Nat, (host % Minute) = 0
    PROVE  Second(t + host) = 0 <=> (t % Minute) = 0
<1> DEFINE x == t + host
<1>1. x \in Int /\ host \in Int /\ x - host = t /\ 0 \in Int /\ t + 0 = t
  OBVIOUS
<1>2. Second(x) = (x % Minute) /\ Minute \in Nat \ {0}
  BY <1>1, SecondIs, Lengths
<1>3. ASSUME (x % Minute) = 0 PROVE (t % Minute) = 0
  <2>1. ((x - host) % Minute) = 0
    <3> HIDE DEF x
    <3> QED BY <1>1, <1>2, <1>3, ModOfDifference
  <2> QED
    BY <1>1, <2>1
<1>4. ASSUME (t % Minute) = 0 PROVE (x % Minute) = 0
  <2>1. (host % Minute) = (0 % Minute)
    BY <1>2
  <2>2. ((t + host) % Minute) = ((t + 0) % Minute)
    <3>1. \A k \in Nat \ {0} : (host % k) = (0 % k) =>
              ((t + host) % k) = ((t + 0) % k)
      BY <1>1, SameMod
    <3> QED
      BY <1>2, <2>1, <3>1
  <2> QED
    BY <1>1, <1>4, <2>2
<1> QED
  <2> HIDE DEF x
  <2> QED BY <1>2, <1>3, <1>4 DEF x

\* Where the two clocks agree, a cron expression is due on the one when it is
\* due on the other, whatever date it is.
LEMMA SameDue ==
    ASSUME NEW t \in Int, NEW host \in Nat, NEW c, SameDigits(c, host)
    PROVE  /\ CronDue(c, t + Zone) <=> CronDue(c, t + host)
           /\ Second(t + Zone) = 0 <=> Second(t + host) = 0
<1>1. CASE host = Zone
  BY <1>1
<1>2. CASE /\ OfHour(host) = OfHour(Zone)
           /\ c.hour = AnyHour /\ c.dom = AnyDate /\ c.dow = AnyWeekday
  <2>1. t \in Int /\ Zone \in Int /\ host \in Int /\ t + Zone \in Int /\ t + host \in Int
    BY CadenceAssumption
  <2>2. OfHour(t + Zone) = OfHour(t + host)
    <3> DEFINE h == Minute * Hour
    <3>1. h \in Nat \ {0} /\ (Zone % h) = (host % h)
      BY <1>2, Lengths DEF OfHour
    <3>2. \A k \in Nat \ {0} : (Zone % k) = (host % k) =>
              ((t + Zone) % k) = ((t + host) % k)
      BY <2>1, SameMod
    <3>3. ((t + Zone) % h) = ((t + host) % h)
      <4> HIDE DEF h
      <4> QED BY <3>1, <3>2
    <3> QED
      BY <3>3 DEF OfHour
  <2>3. Second(t + Zone) = Second(t + host) /\ MinuteOf(t + Zone) = MinuteOf(t + host)
    BY <2>2 DEF Second, MinuteOf
  <2>4. \A x \in Int : HourOf(x) \in AnyHour /\ Weekday(x) \in AnyWeekday
    <3> TAKE x \in Int
    <3> DEFINE h == Minute * Hour
               k == h * Day
    <3>1. h \in Nat \ {0} /\ Day \in Nat \ {0}
      BY Lengths, CadenceAssumption
    <3>2. k \in Nat \ {0}
      <4> HIDE DEF h
      <4> QED BY <3>1
    <3>3. (x \div h) \in Int /\ (x \div k) \in Int
      <4> HIDE DEF h, k
      <4> QED BY <3>1, <3>2, DivMod
    <3>4. ((x \div h) % Day) \in 0 .. Day - 1 /\ ((x \div k) % 7) \in 0 .. 6
      <4> HIDE DEF h, k
      <4> QED BY <3>1, <3>3
    <3> QED
      BY <3>4 DEF HourOf, Weekday, DayNumber, AnyHour, AnyWeekday
  <2> QED
    BY <1>2, <2>1, <2>3, <2>4 DEF CronDue
<1> QED
  BY <1>1, <1>2 DEF SameDigits

-----------------------------------------------------------------------------
(* The scan.                                                               *)

\* The scan begins after the cursor: a run on record is not scanned again
\* (missedOccurrences).
LEMMA ScanAfterCursor ==
    ASSUME NEW s, NEW last \in Nat, NEW now \in Int
    PROVE  ScanStart(s, last, now) \in Int /\ last < ScanStart(s, last, now)
<1> DEFINE k == Step(s)
           n == MaxBackfillScans * k
<1>1. k \in Nat \ {0} /\ n \in Nat
  BY Lengths
<1>2. Truncate(last + k, k) \in Int /\ last < Truncate(last + k, k)
  <2> HIDE DEF k
  <2> QED BY <1>1, NextMultiple DEF Truncate
<1> QED
  BY <1>1, <1>2 DEF ScanStart, WindowEdge

\* Every occurrence is later than the cursor and not later than the scan.
LEMMA MissedBetween ==
    ASSUME NEW s, NEW last \in Nat, NEW now \in Nat \ {0}, NEW host
    PROVE  /\ last = Never => MissedOccurrences(s, last, now, host) = {now}
           /\ last # Never => MissedOccurrences(s, last, now, host) \subseteq last + 1 .. now
<1>1. CASE last = Never
  BY <1>1 DEF MissedOccurrences
<1>2. CASE last # Never
  <2>1. ScanStart(s, last, now) \in Int /\ last < ScanStart(s, last, now)
    BY ScanAfterCursor
  <2> QED
    BY <1>2, <2>1 DEF MissedOccurrences
<1> QED
  BY <1>1, <1>2

\* The scan finds nothing that the run loop would not have fired at, for every
\* schedule and host on which the two are meant to agree (missedOccurrences,
\* IsDue, runJobs).
THEOREM ScanFindsNoOther ==
    ASSUME NEW s, IsSchedule(s), NEW host \in Nat, Agreeing(s, host),
           NEW t \in Int, BackfillDue(s, t, host)
    PROVE  Fires(s, t, host)
<1>1. CASE s.perSecond
  BY <1>1 DEF Agreeing, BackfillDue, Fires, IsDue, SecondDue, IsSchedule
<1>2. CASE ~s.perSecond
  <2>1. SameDigits(s.cron, host) /\ s.cron.sec = {0} /\ CronDue(s.cron, t + Zone)
    BY <1>2 DEF Agreeing, Covered, BackfillDue
  <2>2. CronDue(s.cron, t + host)
    BY <2>1, SameDue
  <2>3. Second(t + host) = 0
    BY <2>1, <2>2 DEF CronDue
  <2> QED
    BY <1>2, <2>2, <2>3 DEF Fires, IsDue
<1> QED
  BY <1>1, <1>2 DEF IsSchedule

\* The scan finds everything that the run loop would have fired at after the
\* cursor, but for what is further back than the window, and for a cron job
\* whose scan begins in mid-minute (missedOccurrences, IsDue, runJobs).
THEOREM ScanFindsAll ==
    ASSUME NEW s, IsSchedule(s), NEW host \in Nat, (host % Minute) = 0,
           Covered(s, host),
           NEW last \in Nat \ {0}, NEW now \in Nat,
           NEW t \in last + 1 .. now, Fires(s, t, host),
           WindowEdge(s, now) <= t, ~Misaligned(s, last, now, host)
    PROVE  t \in MissedOccurrences(s, last, now, host)
<1> DEFINE k == Step(s)
           n == MaxBackfillScans * k
           start == ScanStart(s, last, now)
           first == Truncate(last + k, k)
<1>1. k \in Nat \ {0} /\ n \in Nat /\ t \in Int /\ last # Never
  BY Lengths DEF Never
<1>2. start \in Int
  BY ScanAfterCursor
<1>3. first \in Int /\ (first % k) = 0 /\ \A u \in Int : last < u /\ (u % k) = 0 => first <= u
  <2>1. last \in Int /\ k \in Nat \ {0}
    BY <1>1
  <2> HIDE DEF k
  <2> QED BY <2>1, NextMultiple, Zenon DEF Truncate
<1>4. start = IF first < now - n THEN now - n ELSE first
  BY DEF ScanStart, WindowEdge
<1>5. BackfillDue(s, t, host)
  <2>1. CASE s.perSecond
    BY <2>1, SecondIs DEF BackfillDue, Fires, IsDue, SecondDue, IsSchedule
  <2>2. CASE ~s.perSecond
    BY <2>2, SameDue, <1>1 DEF BackfillDue, Fires, IsDue, Covered
  <2> QED
    BY <2>1, <2>2 DEF IsSchedule
<1>6. (t % k) = 0
  <2>1. CASE s.perSecond
    <3>1. k = 1
      BY <2>1 DEF Step
    <3> QED
      BY <3>1, <1>1
  <2>2. CASE ~s.perSecond
    <3>1. Second(t + host) = 0 /\ k = Minute
      BY <2>2 DEF Fires, Step
    <3> QED
      BY <3>1, <1>1, TopOfMinute
  <2> QED
    BY <2>1, <2>2 DEF IsSchedule
<1>7. start <= t
  <2>1. now - n <= t /\ (first <= t)
    BY <1>1, <1>3, <1>6 DEF WindowEdge
  <2> HIDE DEF first, n, start
  <2> QED BY <1>4, <2>1
<1>8. (start % k) = 0
  <2>1. CASE s.perSecond
    <3>1. k = 1
      BY <2>1 DEF Step
    <3> QED
      BY <3>1, <1>2
  <2>2. CASE ~s.perSecond
    <3>1. Second(start + host) = 0 /\ k = Minute
      BY <2>2 DEF Misaligned, Step
    <3> HIDE DEF start, k
    <3> QED
      BY <3>1, <1>2, TopOfMinute
  <2> QED
    BY <2>1, <2>2 DEF IsSchedule
<1>9. ((t - start) % k) = 0
  <2> HIDE DEF start, k
  <2> QED BY <1>1, <1>2, <1>6, <1>8, ModOfDifference
<1> QED
  BY <1>1, <1>2, <1>5, <1>7, <1>9 DEF MissedOccurrences

\* A scan that begins in mid-minute finds nothing at all for a cron job, however
\* much of its window the job missed: every instant it looks at is in
\* mid-minute, too (missedOccurrences, whose window edge is not truncated).
THEOREM MisalignedFindsNothing ==
    ASSUME NEW s, IsSchedule(s), s.cron.sec = {0}, NEW host \in Nat, (host % Minute) = 0,
           NEW last \in Nat \ {0}, NEW now \in Nat, Misaligned(s, last, now, host)
    PROVE  MissedOccurrences(s, last, now, host) = {}
<1> DEFINE start == ScanStart(s, last, now)
<1>1. start \in Int /\ ~s.perSecond /\ Step(s) = Minute /\ Minute \in Nat \ {0}
  BY ScanAfterCursor, Lengths DEF Misaligned, Step
<1>2. (start % Minute) # 0
  <2>1. Second(start + host) # 0
    BY DEF Misaligned
  <2> HIDE DEF start
  <2> QED BY <1>1, <2>1, TopOfMinute
<1>3. ASSUME NEW t \in start .. now, ((t - start) % Minute) = 0, BackfillDue(s, t, host)
      PROVE  FALSE
  <2>1. t \in Int /\ t - (t - start) = start /\ t - start \in Int
    BY <1>1
  <2>2. Second(t + Zone) = 0
    BY <1>1, <1>3 DEF BackfillDue, CronDue
  <2>3. (t % Minute) = 0
    BY <2>1, <2>2, TopOfMinute, CadenceAssumption
  <2>4. ((t - (t - start)) % Minute) = 0
    <3> DEFINE u == t - start
    <3>1. u \in Int /\ (u % Minute) = 0
      BY <1>3, <2>1
    <3>2. ((t - u) % Minute) = 0
      <4> HIDE DEF u
      <4> QED BY <1>1, <2>1, <2>3, <3>1, ModOfDifference
    <3> QED BY <3>2
  <2> HIDE DEF start
  <2> QED
    BY <1>2, <2>1, <2>4
<1> QED
  BY <1>1, <1>3 DEF MissedOccurrences, Never

\* A process that was down for no longer than the window backfills exactly what
\* the run loop would have fired at had it been up, and both ends of the time it
\* was down are right: not the cursor's instant again, and the present one too
\* (missedOccurrences against runJobs and IsDue).
THEOREM ScanIsTheLoop ==
    ASSUME NEW s, IsSchedule(s), NEW host \in Nat, (host % Minute) = 0,
           Agreeing(s, host),
           NEW last \in Nat \ {0}, NEW now \in Nat,
           WindowEdge(s, now) <= last
    PROVE  MissedOccurrences(s, last, now, host) = {t \in last + 1 .. now : Fires(s, t, host)}
<1> DEFINE missed == MissedOccurrences(s, last, now, host)
           edge == WindowEdge(s, now)
           start == ScanStart(s, last, now)
           first == Truncate(last + Step(s), Step(s))
<1>1. last < start /\ start \in Int
  BY ScanAfterCursor
<1>2. edge \in Int
  BY Lengths DEF WindowEdge
<1>3. ~Misaligned(s, last, now, host)
  <2>1. start = first
    BY <1>1 DEF ScanStart
  <2>2. CASE s.perSecond
    BY <2>2 DEF Misaligned
  <2>3. CASE ~s.perSecond
    <3>1. last \in Int /\ Minute \in Nat \ {0} /\ Step(s) = Minute
      BY <2>3, Lengths DEF Step
    <3>2. (first % Minute) = 0
      BY <3>1, NextMultiple, Zenon DEF Truncate
    <3>3. Second(start + host) = 0
      <4> HIDE DEF start, first
      <4> QED BY <1>1, <2>1, <3>2, TopOfMinute
    <3> QED
      BY <3>3 DEF Misaligned
  <2> QED
    BY <2>2, <2>3
<1>4. missed \subseteq last + 1 .. now /\ \A t \in missed : BackfillDue(s, t, host)
  BY <1>1 DEF MissedOccurrences, Never
<1>5. ASSUME NEW t \in missed
      PROVE  t \in last + 1 .. now /\ Fires(s, t, host)
  <2>1. t \in last + 1 .. now /\ t \in Int /\ BackfillDue(s, t, host)
    BY <1>4
  <2> QED
    BY <2>1, ScanFindsNoOther
<1>6. ASSUME NEW t \in last + 1 .. now, Fires(s, t, host)
      PROVE  t \in missed
  <2>1. edge <= t
    <3> HIDE DEF edge
    <3> QED BY <1>2 DEF edge
  <2>2. Covered(s, host)
    BY DEF Agreeing
  <2> QED
    BY <1>3, <1>6, <2>1, <2>2, ScanFindsAll
<1>7. missed = {t \in last + 1 .. now : Fires(s, t, host)}
  <2> HIDE DEF missed
  <2> QED BY <1>5, <1>6, Zenon
<1> QED
  BY <1>7

-----------------------------------------------------------------------------
(* The builders.                                                           *)

\* Which builders' schedules the two tests agree on: intervals that divide a
\* minute on any host; minutes and hours where the host's clock shows the zone's
\* minutes; what looks at hours and dates where it is the zone's clock
\* (schedule_event.go's builders).
THEOREM BuildersAgree ==
    ASSUME NEW host \in Nat
    PROVE  /\ \A n \in Nat \ {0} :
                 (Minute % n) = 0 => Agreeing(EverySecondAt(n), host)
           /\ OfHour(host) = OfHour(Zone) =>
                 Agreeing(Hourly, host) /\ \A n \in Nat \ {0} : Agreeing(EveryMinutes(n), host)
           /\ host = Zone =>
                 \A d : /\ Agreeing(DailyAt(d), host)
                        /\ Agreeing(WeeklyAt(d), host)
                        /\ Agreeing(MonthlyAt(d), host)
<1> USE DEF Agreeing, Covered, SameDigits
<1>1. ASSUME NEW n \in Nat \ {0}, (Minute % n) = 0
      PROVE  Agreeing(EverySecondAt(n), host)
  BY <1>1 DEF EverySecondAt
<1>2. ASSUME OfHour(host) = OfHour(Zone), NEW n \in Nat \ {0}
      PROVE  Agreeing(Hourly, host) /\ Agreeing(EveryMinutes(n), host)
  BY <1>2 DEF Hourly, EveryMinutes, Cron, FiveFields, SixFields
<1>3. ASSUME host = Zone, NEW d
      PROVE  Agreeing(DailyAt(d), host) /\ Agreeing(WeeklyAt(d), host)
             /\ Agreeing(MonthlyAt(d), host)
  BY <1>3 DEF DailyAt, WeeklyAt, MonthlyAt, Cron, FiveFields, SixFields
<1> QED
  BY <1>1, <1>2, <1>3

\* Intervals that do not divide a minute have to be excluded: at second 0 of
\* every minute the scan finds an occurrence and the loop does not fire
\* (missedOccurrences, which has no case for second 0, and IsDue, which has).
THEOREM UnevenIntervalDiverges ==
    ASSUME NEW n \in Nat \ {0}, (Minute % n) # 0,
           NEW host \in Nat, NEW t \in Int, Second(t + host) = 0
    PROVE  BackfillDue(EverySecondAt(n), t, host) /\ ~Fires(EverySecondAt(n), t, host)
<1>1. (0 % n) = 0
  OBVIOUS
<1> QED
  BY <1>1 DEF BackfillDue, Fires, IsDue, SecondDue, EverySecondAt

\* The loop never fires for a job that HourlyAt puts at anything but 0: its
\* argument is the second of a six-field expression, and runJobs looks at cron
\* jobs at second 0 only (HourlyAt, runJobs).
THEOREM HourlyAtNeverFires ==
    ASSUME NEW k \in Nat \ {0}, NEW host \in Nat, NEW t \in Int
    PROVE  ~Fires(HourlyAt(k), t, host)
BY DEF Fires, IsDue, CronDue, HourlyAt, Cron, SixFields
=============================================================================
