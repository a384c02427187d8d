---------------------------- MODULE RunLoopProofs -----------------------------
(***************************************************************************)
(* Proofs about the run loop, for any jobs, schedules, unit of time and    *)
(* bounds.  That no second is evaluated twice or passed over needs a       *)
(* condition on the ticker's phase, which is stated here.                  *)
(***************************************************************************)
EXTENDS RunLoop, Numbers, FiniteSetTheorems

-----------------------------------------------------------------------------
(* Types.                                                                  *)

\* Instants and seconds are numbers, and a second read is one of them.
LEMMA Seconds ==
    /\ Grain \in Nat \ {0} /\ MaxTime \in Nat /\ Never \in Nat /\ Time \subseteq Nat
    /\ \A t \in Time : SecondRead(t) \in Second
    /\ Second \subseteq Nat
<1>1. Grain \in Nat \ {0} /\ MaxTime \in Nat
  BY RunLoopAssumption
<1>2. (MaxTime \div Grain) \in Int
  BY <1>1, DivMod
<1>3. ASSUME NEW t \in Time PROVE SecondRead(t) \in Second
  <2>1. t \in Int /\ 0 <= t /\ t <= MaxTime
    BY <1>1, <1>3 DEF Time
  <2>2. (t \div Grain) <= (MaxTime \div Grain) /\ (t \div Grain) \in Nat
    BY <1>1, <2>1, QuotientGrows
  <2> QED
    BY <1>2, <2>2 DEF SecondRead, Second
<1> QED
  BY <1>1, <1>2, <1>3 DEF Time, Second, Never

\* Start begins with a finite number of loops.
LEMMA FewLoops ==
    ASSUME NEW t \in Time
    PROVE  Cardinality(MissedTicks(t)) \in Nat
<1>1. IsFiniteSet(Time)
  BY RunLoopAssumption, FS_Interval DEF Time
<1>2. MissedTicks(t) \subseteq Time
  BY DEF MissedTicks
<1> QED
  BY <1>1, <1>2, FS_Subset, FS_CardinalityType

\* Every step keeps the types.
LEMMA TypeStep == TypeOK /\ [Next]_vars => TypeOK'
<1> SUFFICES ASSUME TypeOK, [Next]_vars PROVE TypeOK'
    OBVIOUS
<1> USE Seconds DEF TypeOK, Runner
<1>1. ASSUME Advance PROVE TypeOK'
  BY <1>1 DEF Advance, Time
<1>2. ASSUME Start PROVE TypeOK'
  <2> DEFINE n == Cardinality(MissedTicks(now))
  <2>1. n \in Nat
    BY FewLoops
  <2>2. NewLoop \in [fires : Nat, waits : Time \cup {Never}]
    BY DEF NewLoop
  <2>3. DOMAIN loops' \subseteq Nat /\ \A l \in DOMAIN loops' : loops'[l] = NewLoop
    <3>1. loops' = [l \in 0 .. n |-> NewLoop]
      BY <1>2 DEF Start
    <3> HIDE DEF n
    <3> QED BY <2>1, <3>1
  <2> QED
    BY <1>2, <2>2, <2>3 DEF Start
<1>3. ASSUME NEW l \in DOMAIN loops, Fire(l) PROVE TypeOK'
  BY <1>3 DEF Fire
<1>4. ASSUME NEW l \in DOMAIN loops, Receive(l) PROVE TypeOK'
  BY <1>4 DEF Receive
<1>5. ASSUME NEW r \in runners, Snapshot(r) PROVE TypeOK'
  BY <1>5 DEF Snapshot, Replace
<1>6. ASSUME NEW r \in runners, NEW j \in Job, Check(r, j) PROVE TypeOK'
  <2> DEFINE found == IF Picked(r, j) THEN r.due \cup {j} ELSE r.due
             s == [r EXCEPT !.left = r.left \ {j}, !.due = found]
  <2>1. runners' = (runners \ {r}) \cup {s}
    BY <1>6 DEF Check, Replace
  <2>2. found \in SUBSET Job /\ r.left \ {j} \in SUBSET Job
    OBVIOUS
  <2>3. s \in Runner
    <3> HIDE DEF found
    <3> QED BY <2>2
  <2>4. runners' \subseteq Runner
    BY <2>1, <2>3
  <2> QED
    BY <1>6, <2>4 DEF Check
<1>7. ASSUME NEW r \in runners, CheckEnd(r) PROVE TypeOK'
  BY <1>7 DEF CheckEnd, Replace
<1>8. ASSUME NEW r \in runners, NEW j \in Job, Begin(r, j) PROVE TypeOK'
  BY <1>8 DEF Begin, Replace
<1>9. ASSUME NEW r \in runners, RunnerEnd(r) PROVE TypeOK'
  BY <1>9 DEF RunnerEnd
<1>10. ASSUME Control PROVE controls' \in 0 .. MaxControls
  BY <1>10, RunLoopAssumption DEF Control
<1>11. ASSUME NEW j \in Job, Pause(j) PROVE TypeOK'
  BY <1>10, <1>11 DEF Pause, Control
<1>12. ASSUME NEW j \in Job, Resume(j) PROVE TypeOK'
  BY <1>10, <1>12 DEF Resume, Control
<1>13. ASSUME NEW j \in Job, Unschedule(j) PROVE TypeOK'
  BY <1>10, <1>13 DEF Unschedule, Control
<1>14. CASE UNCHANGED vars
  BY <1>14 DEF vars
<1> QED
  BY <1>1, <1>2, <1>3, <1>4, <1>5, <1>6, <1>7, <1>8, <1>9, <1>11, <1>12, <1>13, <1>14
  DEF Next, LoopStep, RunnerStep

\* The host is created with its types.
LEMMA InitType == Init => TypeOK
<1> SUFFICES ASSUME Init PROVE TypeOK
    OBVIOUS
<1>1. now \in Time /\ 0 \in 0 .. MaxControls
  BY RunLoopAssumption DEF Init, Time
<1>2. DOMAIN loops = {}
  BY DEF Init
<1>3. began \in [Job -> SUBSET Second] /\ runners \subseteq Runner
  BY DEF Init
<1> QED
  BY <1>1, <1>2, <1>3 DEF Init, TypeOK

\* The types hold with any number of ticks, goroutines and jobs; in particular a
\* loop only ever reads a second of the clock (Start, RunSchedulerPerSecond).
THEOREM TypeCorrect == Spec => []TypeOK
BY InitType, TypeStep, PTL DEF Spec

-----------------------------------------------------------------------------
(* The operator's actions are in force.                                    *)

\* A runner changes into another: what happens to its fields.
LEMMA Runners ==
    ASSUME TypeOK, NEW r \in runners, NEW j
    PROVE  /\ \A l : LET s == [r EXCEPT !.st = "checking", !.left = l]
                     IN  s.for = r.for /\ s.left = l /\ s.due = r.due /\ s.off = r.off
                         /\ s.st = "checking"
           /\ \A l, d : LET s == [r EXCEPT !.left = l, !.due = d]
                        IN  s.for = r.for /\ s.left = l /\ s.due = d /\ s.off = r.off
                            /\ s.st = r.st
           /\ LET s == [r EXCEPT !.st = "launching"]
              IN  s.for = r.for /\ s.left = r.left /\ s.due = r.due /\ s.off = r.off
                  /\ s.st = "launching"
           /\ \A d : LET s == [r EXCEPT !.due = d]
                     IN  s.for = r.for /\ s.left = r.left /\ s.due = d /\ s.off = r.off
                         /\ s.st = r.st
           /\ LET s == [r EXCEPT !.off = r.off \ {j}]
              IN  s.for = r.for /\ s.left = r.left /\ s.due = r.due
                  /\ s.off = r.off \ {j} /\ s.st = r.st
BY DEF TypeOK, Runner

\* A job that has been off since the runner read the clock is paused, or is out
\* of the table; if the runner has it in its snapshot it is paused, and it is not
\* among those the runner has picked.
Respects(r) ==
    /\ r.off \subseteq paused \cup (Job \ table)
    /\ r.left \cap r.off \subseteq paused
    /\ r.due \cap r.off = {}
    /\ r.st = "new" => r.left = {} /\ r.due = {}

InForce == \A r \in runners : Respects(r)

\* Every step keeps the operator's actions in force.
LEMMA InForceStep == TypeOK /\ InForce /\ [Next]_vars => InForce'
<1> SUFFICES ASSUME TypeOK, InForce, [Next]_vars PROVE InForce'
    OBVIOUS
<1>1. ASSUME UNCHANGED <<table, paused, runners>> PROVE InForce'
  BY <1>1 DEF InForce, Respects
<1>2. ASSUME NEW r, NEW s, runners' = (runners \ {r}) \cup {s},
             UNCHANGED <<table, paused>>, Respects(s)
      PROVE  InForce'
  BY <1>2 DEF InForce, Respects
<1>3. ASSUME Advance \/ Start \/ UNCHANGED vars PROVE InForce'
  BY <1>1, <1>3 DEF Advance, Start, vars
<1>4. ASSUME NEW l \in DOMAIN loops, Fire(l) PROVE InForce'
  BY <1>1, <1>4 DEF Fire
<1>5. ASSUME NEW l \in DOMAIN loops, Receive(l) PROVE InForce'
  <2> DEFINE s == [for |-> SecondRead(now), st |-> "new", left |-> {}, due |-> {},
                   off |-> paused \cup (Job \ table)]
  <2>1. runners' = runners \cup {s} /\ UNCHANGED <<table, paused>>
    BY <1>5 DEF Receive
  <2>2. Respects(s)
    BY DEF Respects
  <2> QED
    BY <2>1, <2>2 DEF InForce, Respects
<1>6. ASSUME NEW r \in runners, Snapshot(r) PROVE InForce'
  <2> DEFINE s == [r EXCEPT !.st = "checking", !.left = table]
  <2>1. s.left = table /\ s.due = r.due /\ s.off = r.off /\ s.st = "checking"
    BY Runners
  <2>2. Respects(s)
    <3> HIDE DEF s
    <3> QED BY <2>1 DEF InForce, Respects
  <2> QED
    BY <1>2, <1>6, <2>2 DEF Snapshot, Replace
<1>7. ASSUME NEW r \in runners, NEW j \in Job, Check(r, j) PROVE InForce'
  <2> DEFINE found == IF Picked(r, j) THEN r.due \cup {j} ELSE r.due
             s == [r EXCEPT !.left = r.left \ {j}, !.due = found]
  <2>1. s.left = r.left \ {j} /\ s.due = found /\ s.off = r.off /\ s.st = r.st
    <3> HIDE DEF found
    <3> QED BY Runners
  <2>2. r.st = "checking" /\ j \in r.left /\ found \subseteq r.due \cup {j}
    BY <1>7 DEF Check
  <2>3. j \in r.off => j \notin found
    BY <2>2 DEF Picked, InForce, Respects
  <2>4. Respects(s)
    <3> HIDE DEF s, found
    <3> QED BY <2>1, <2>2, <2>3 DEF InForce, Respects
  <2> QED
    BY <1>2, <1>7, <2>4 DEF Check, Replace
<1>8. ASSUME NEW r \in runners, CheckEnd(r) PROVE InForce'
  <2> DEFINE s == [r EXCEPT !.st = "launching"]
  <2>1. s.left = r.left /\ s.due = r.due /\ s.off = r.off /\ s.st = "launching"
    BY Runners
  <2>2. Respects(s)
    <3> HIDE DEF s
    <3> QED BY <2>1 DEF InForce, Respects
  <2> QED
    BY <1>2, <1>8, <2>2 DEF CheckEnd, Replace
<1>9. ASSUME NEW r \in runners, NEW j \in Job, Begin(r, j) PROVE InForce'
  <2> DEFINE s == [r EXCEPT !.due = r.due \ {j}]
  <2>1. s.left = r.left /\ s.due = r.due \ {j} /\ s.off = r.off /\ s.st = r.st
    BY Runners
  <2>2. Respects(s)
    <3> HIDE DEF s
    <3> QED BY <2>1 DEF InForce, Respects
  <2> QED
    BY <1>2, <1>9, <2>2 DEF Begin, Replace
<1>10. ASSUME NEW r \in runners, RunnerEnd(r) PROVE InForce'
  BY <1>10 DEF RunnerEnd, InForce, Respects
<1>11. ASSUME NEW j \in Job, Pause(j) \/ Unschedule(j) PROVE InForce'
  BY <1>11 DEF Pause, Unschedule, Control, InForce, Respects
<1>12. ASSUME NEW j \in Job, Resume(j) PROVE InForce'
  <2>1. ASSUME NEW s \in runners' PROVE Respects(s)'
    <3>1. PICK r \in runners : s = [r EXCEPT !.off = r.off \ {j}]
      BY <1>12 DEF Resume
    <3>2. s.left = r.left /\ s.due = r.due /\ s.off = r.off \ {j} /\ s.st = r.st
      BY <3>1, Runners
    <3>3. paused' = paused \ {j} /\ table' = table
      BY <1>12 DEF Resume
    <3> QED
      BY <3>2, <3>3 DEF InForce, Respects
  <2> QED
    BY <2>1 DEF InForce
<1> QED
  BY <1>3, <1>4, <1>5, <1>6, <1>7, <1>8, <1>9, <1>10, <1>11, <1>12
  DEF Next, LoopStep, RunnerStep

\* Whatever goroutines of earlier ticks are still at work, no tick read after an
\* operator's Pause or Unschedule picks the job (runJobs).
THEOREM OperatorPrevails == Spec => []OffStaysOff
<1>1. Init => InForce
  BY DEF Init, InForce
<1>2. InForce => OffStaysOff
  BY DEF InForce, Respects, OffStaysOff
<1> QED
  BY <1>1, <1>2, InForceStep, TypeCorrect, PTL DEF Spec

-----------------------------------------------------------------------------
(* Every second once.                                                      *)

\* Start comes before the host takes a tick for missed, and however late it is,
\* the phase of its ticker leaves room for the delay of a goroutine.
InPhase ==
    /\ StartDelay <= 2 * Grain
    /\ \A b \in Created .. Created + StartDelay : (b % Grain) + MaxDelay < Grain

\* A tick waits since the ticker last fired, if one waits.
Waiting == loops[0].waits # Never

\* The seconds that have been read are those from some one on and below n.
ReadUpTo(n) == \E first \in Int : first <= n /\ sampled = first .. n - 1

\* The second to be read next is the ticker's next, or that of the tick that waits.
NextRead == IF Waiting THEN SecondRead(loops[0].fires) - 1 ELSE SecondRead(loops[0].fires)

\* One loop runs, and has read the second of every tick received.
Steady ==
    /\ DOMAIN loops = {0}
    /\ (loops[0].fires % Grain) + MaxDelay < Grain
    /\ now <= loops[0].fires
    /\ Waiting => /\ loops[0].waits = loops[0].fires - Grain
                  /\ loops[0].waits <= now /\ now <= loops[0].waits + MaxDelay
    /\ ReadUpTo(NextRead)

Paced ==
    /\ loops = <<>> => sampled = {} /\ now \in Created .. Created + StartDelay
    /\ loops # <<>> => Steady

\* A tick later, the second is the next and the phase the same.
LEMMA NextTick ==
    \A t \in Int : /\ SecondRead(t) \in Int /\ (t % Grain) \in Nat
                   /\ SecondRead(t + Grain) = SecondRead(t) + 1
                   /\ ((t + Grain) % Grain) = (t % Grain)
<1> TAKE t \in Int
<1>1. t \in Int /\ Grain \in Nat \ {0}
  BY Seconds
<1>2. (t % Grain) \in Nat /\ (t \div Grain) \in Int
  BY <1>1, DivMod
<1>3. ((t + Grain) \div Grain) = (t \div Grain) + 1 /\ ((t + Grain) % Grain) = (t % Grain)
  BY <1>1, NextQuotient
<1> QED
  BY <1>2, <1>3 DEF SecondRead

\* What the ticker of a steady loop holds are numbers.
LEMMA Ticker ==
    ASSUME TypeOK, Paced, loops # <<>>
    PROVE  /\ DOMAIN loops = {0} /\ 0 \in DOMAIN loops
           /\ loops[0].fires \in Nat /\ loops[0].waits \in Nat /\ now \in Nat
           /\ SecondRead(loops[0].fires) \in Int /\ NextRead \in Int
<1>1. DOMAIN loops = {0} /\ 0 \in DOMAIN loops
  BY DEF Paced, Steady
<1>2. loops[0] \in [fires : Nat, waits : Time \cup {Never}]
  BY <1>1 DEF TypeOK
<1>3. loops[0].fires \in Nat /\ loops[0].waits \in Nat /\ now \in Nat
  BY <1>2, Seconds DEF TypeOK
<1>4. SecondRead(loops[0].fires) \in Int
  <2> DEFINE f == loops[0].fires
  <2>1. f \in Int
    BY <1>3
  <2> HIDE DEF f
  <2>2. SecondRead(f) \in Int
    BY <2>1, NextTick
  <2> QED
    BY <2>2 DEF f
<1> QED
  BY <1>1, <1>3, <1>4 DEF NextRead

\* The second of the tick that waits is the one before the ticker's next, and has
\* not been read.
LEMMA FreshSecond ==
    ASSUME TypeOK, Paced, loops # <<>>, Waiting
    PROVE  /\ SecondRead(now) = SecondRead(loops[0].fires) - 1
           /\ SecondRead(now) \notin sampled
           /\ SecondRead(loops[0].fires) \in Int
<1> DEFINE f == loops[0].fires
           x == f - Grain
           d == now - x
<1>1. f \in Int /\ x \in Int /\ d \in Nat /\ d <= MaxDelay /\ x + d = now /\ x + Grain = f
  <2>1. /\ loops[0].fires \in Nat /\ now \in Nat /\ Grain \in Nat /\ MaxDelay \in Nat
        /\ loops[0].fires - Grain <= now /\ now <= (loops[0].fires - Grain) + MaxDelay
    BY Ticker, RunLoopAssumption DEF Paced, Steady
  <2>2. f \in Nat /\ now \in Nat /\ f - Grain <= now /\ now <= (f - Grain) + MaxDelay
    BY <2>1
  <2>3. x = f - Grain /\ d = now - x /\ Grain \in Nat /\ MaxDelay \in Nat
    BY <2>1
  <2> HIDE DEF f, x, d
  <2> QED
    BY <2>2, <2>3
<1>2. (f % Grain) + MaxDelay < Grain /\ Grain \in Nat \ {0} /\ MaxDelay \in Nat
  BY RunLoopAssumption DEF Paced, Steady
<1>3. \E first \in Int : sampled = first .. (SecondRead(f) - 1) - 1
  BY DEF Paced, Steady, NextRead, ReadUpTo
<1> HIDE DEF f, x, d
<1>4. ((x + Grain) \div Grain) = (x \div Grain) + 1 /\ ((x + Grain) % Grain) = (x % Grain)
  BY <1>1, <1>2, NextQuotient
<1>5. (x % Grain) \in Nat /\ (x \div Grain) \in Int
  BY <1>1, <1>2, DivMod
<1>6. (x % Grain) + d < Grain
  BY <1>1, <1>2, <1>4, <1>5
<1>7. ((x + d) \div Grain) = (x \div Grain)
  BY <1>1, <1>2, <1>6, SameQuotient
<1>8. SecondRead(now) = SecondRead(f) - 1 /\ SecondRead(f) \in Int
  BY <1>1, <1>4, <1>5, <1>7 DEF SecondRead
<1>9. SecondRead(now) \notin sampled
  BY <1>3, <1>8
<1> QED
  BY <1>8, <1>9 DEF f

\* A Start that is not so late begins one loop.
LEMMA OneLoop ==
    ASSUME InPhase, TypeOK, now \in Created .. Created + StartDelay
    PROVE  Cardinality(MissedTicks(now)) = 0
<1>1. ASSUME NEW u \in MissedTicks(now) PROVE FALSE
  <2>1. PICK n \in Time \ {0} : u = Created + 2 * n * Grain
    BY <1>1 DEF MissedTicks
  <2>2. u < now /\ now <= Created + 2 * Grain /\ u \in Nat
    BY <1>1, Seconds, RunLoopAssumption DEF MissedTicks, InPhase, TypeOK
  <2>3. PICK m \in Nat : n = m + 1
    BY <2>1, Seconds
  <2>4. 2 * n = (2 * m) + 2 /\ 2 * m \in Nat
    BY <2>3
  <2>5. Grain * ((2 * m) + 2) = (Grain * (2 * m)) + (Grain * 2)
    BY <2>4, Seconds, Distribute
  <2>6. Grain * (2 * m) \in Nat /\ Grain * 2 = 2 * Grain
    BY <2>4, Seconds
  <2>7. 2 * n * Grain = Grain * ((2 * m) + 2)
    BY <2>4, Seconds
  <2>8. 2 * n * Grain >= 2 * Grain /\ 2 * n * Grain \in Nat /\ 2 * Grain \in Nat
    BY <2>5, <2>6, <2>7, Seconds
  <2> DEFINE v == 2 * n * Grain
             w == 2 * Grain
  <2>9. u = Created + v /\ now <= Created + w /\ v >= w /\ v \in Nat /\ w \in Nat
    BY <2>1, <2>2, <2>8
  <2> HIDE DEF v, w
  <2> QED
    BY <2>2, <2>9, RunLoopAssumption, Seconds DEF TypeOK
<1>2. MissedTicks(now) = {}
  BY <1>1
<1> QED
  BY <1>2, FS_EmptySet

\* Every step keeps the pace.
LEMMA PacedStep == InPhase /\ TypeOK /\ Paced /\ [Next]_vars => Paced'
<1> SUFFICES ASSUME InPhase, TypeOK, Paced, [Next]_vars PROVE Paced'
    OBVIOUS
<1>1. /\ now \in Nat /\ Grain \in Nat \ {0} /\ Created \in Nat /\ StartDelay \in Nat
      /\ MaxDelay \in Nat /\ MaxTime \in Nat
  BY Seconds, RunLoopAssumption DEF TypeOK, Time
<1>2. ASSUME Advance PROVE Paced'
  <2>1. UNCHANGED <<loops, sampled>> /\ now' = now + 1
    BY <1>2 DEF Advance
  <2>2. CASE loops = <<>>
    <3>1. now' \in Created .. Created + StartDelay
      BY <1>1, <1>2, <2>1, <2>2 DEF Advance, Paced
    <3> QED
      BY <2>1, <2>2, <3>1 DEF Paced
  <2>3. CASE loops # <<>>
    <3>1. now < loops[0].fires /\ (Waiting => now < loops[0].waits + MaxDelay)
      BY <1>2, <2>3, Ticker DEF Advance, Waiting
    <3>2. /\ now' <= loops[0].fires
          /\ Waiting => loops[0].waits <= now' /\ now' <= loops[0].waits + MaxDelay
      BY <1>1, <2>1, <2>3, <3>1, Ticker DEF Paced, Steady
    <3>3. Waiting' = Waiting /\ NextRead' = NextRead
      BY <2>1 DEF Waiting, NextRead, SecondRead
    <3>4. ReadUpTo(NextRead)'
      BY <2>1, <2>3, <3>3 DEF Paced, Steady, ReadUpTo
    <3>5. Steady'
      BY <2>1, <2>3, <3>2, <3>3, <3>4 DEF Paced, Steady
    <3> QED
      BY <2>1, <2>3, <3>5 DEF Paced
  <2> QED
    BY <2>2, <2>3
<1>3. ASSUME Start PROVE Paced'
  <2>1. loops = <<>> /\ sampled = {} /\ now \in Created .. Created + StartDelay
    BY <1>3 DEF Start, Paced
  <2>2. loops' = [l \in 0 .. 0 |-> NewLoop] /\ UNCHANGED <<now, sampled>>
    BY <1>3, <2>1, OneLoop DEF Start
  <2>3. DOMAIN loops' = {0} /\ loops'[0].fires = now + Grain /\ loops'[0].waits = Never
    BY <2>2 DEF NewLoop
  <2>4. loops' # <<>> /\ ~Waiting'
    <3>1. loops' # <<>>
      <4>1. DOMAIN <<>> = {}
        OBVIOUS
      <4> QED
        BY <2>3, <4>1
    <3>2. Never' = Never
      BY DEF Never
    <3> QED
      BY <2>3, <3>1, <3>2 DEF Waiting
  <2>5. (now % Grain) + MaxDelay < Grain
    BY <2>1 DEF InPhase
  <2>6. ((now + Grain) % Grain) = (now % Grain) /\ SecondRead(now + Grain) \in Int
    <3>1. now \in Int /\ now + Grain \in Int
      BY <1>1
    <3> QED
      BY <3>1, NextTick
  <2> DEFINE n == SecondRead(loops'[0].fires)
  <2>7. n \in Int /\ sampled' = n .. n - 1 /\ n <= n
    <3>1. n \in Int
      BY <2>3, <2>6
    <3> HIDE DEF n
    <3> QED BY <2>1, <2>2, <3>1
  <2>8. NextRead' = n
    BY <2>4 DEF NextRead, SecondRead
  <2> HIDE DEF n
  <2>9. ReadUpTo(NextRead)'
    BY <2>7, <2>8 DEF ReadUpTo
  <2>10. Steady'
    BY <1>1, <2>2, <2>3, <2>4, <2>5, <2>6, <2>9 DEF Steady
  <2> QED
    BY <2>4, <2>10 DEF Paced
<1>4. ASSUME NEW l \in DOMAIN loops, Fire(l) \/ Receive(l)
      PROVE  l = 0 /\ loops # <<>> /\ loops' # <<>> /\ now' = now /\ DOMAIN loops' = {0}
  <2>1. loops # <<>>
    <3>1. DOMAIN <<>> = {}
      OBVIOUS
    <3> QED
      BY <1>4, <3>1
  <2>2. DOMAIN loops = {0} /\ l = 0
    BY <2>1, Ticker
  <2>3. DOMAIN loops' = {0} /\ now' = now
    BY <1>4, <2>2 DEF Fire, Receive
  <2>4. loops' # <<>>
    <3>1. DOMAIN <<>> = {}
      OBVIOUS
    <3> QED
      BY <2>3, <3>1
  <2> QED
    BY <2>1, <2>2, <2>3, <2>4
<1>5. ASSUME NEW l \in DOMAIN loops, Fire(l) PROVE Paced'
  <2> DEFINE f == loops[0].fires
             n == SecondRead(f)
  <2>1. l = 0 /\ loops # <<>> /\ loops' # <<>> /\ now' = now /\ DOMAIN loops' = {0}
    BY <1>4, <1>5
  <2>2. f \in Nat /\ loops[0].waits \in Nat /\ n \in Int /\ 0 \in DOMAIN loops
    BY <2>1, Ticker
  <2>3. now = f /\ (f % Grain) + MaxDelay < Grain /\ (f % Grain) \in Nat
    BY <1>1, <1>5, <2>1, <2>2, DivMod DEF Fire, Paced, Steady
  <2>4. ~Waiting
    <3>1. ASSUME Waiting PROVE FALSE
      <4>1. now <= (f - Grain) + MaxDelay
        BY <2>1, <3>1 DEF Paced, Steady
      <4> HIDE DEF f, n
      <4> QED
        BY <1>1, <2>2, <2>3, <4>1
    <3> QED
      BY <3>1
  <2>5. loops' = [loops EXCEPT ![0] = [fires |-> now + Grain, waits |-> now]]
        /\ sampled' = sampled
    BY <1>5, <2>1, <2>4 DEF Fire, Waiting
  <2>6. loops'[0].fires = f + Grain /\ loops'[0].waits = f
    BY <2>2, <2>3, <2>5
  <2>7. Waiting'
    BY <1>1, <2>3, <2>6 DEF Waiting, Never, TypeOK, Time
  <2>8. ((f + Grain) % Grain) = (f % Grain) /\ SecondRead(f + Grain) = n + 1
    <3>1. f \in Int
      BY <2>2
    <3> HIDE DEF f
    <3> QED
      BY <3>1, NextTick
  <2>9. ReadUpTo(n)
    BY <2>1, <2>4 DEF Paced, Steady, NextRead
  <2>10. NextRead' = (n + 1) - 1
    <3>1. NextRead' = SecondRead(f + Grain) - 1
      BY <2>6, <2>7 DEF NextRead, SecondRead
    <3> QED
      BY <2>8, <3>1
  <2> HIDE DEF f, n
  <2>11. NextRead' = n
    BY <2>2, <2>10
  <2>12. ReadUpTo(NextRead)'
    BY <2>5, <2>9, <2>11 DEF ReadUpTo
  <2>13. f <= f + Grain /\ f = (f + Grain) - Grain /\ f <= f + MaxDelay
    BY <1>1, <2>2
  <2>14. Steady'
    BY <2>1, <2>3, <2>6, <2>8, <2>12, <2>13 DEF Steady
  <2> QED
    BY <2>1, <2>14 DEF Paced
<1>6. ASSUME NEW l \in DOMAIN loops, Receive(l) PROVE Paced'
  <2> DEFINE f == loops[0].fires
             n == SecondRead(f)
  <2>1. l = 0 /\ loops # <<>> /\ loops' # <<>> /\ now' = now /\ DOMAIN loops' = {0}
    BY <1>4, <1>6
  <2>2. Waiting /\ sampled' = sampled \cup {SecondRead(now)}
        /\ loops' = [loops EXCEPT ![0] = [loops[0] EXCEPT !.waits = Never]]
    BY <1>6, <2>1 DEF Receive, Waiting
  <2>3. loops'[0].fires = f /\ loops'[0].waits = Never
    <3> DEFINE e == [loops[0] EXCEPT !.waits = Never]
    <3>1. loops[0] \in [fires : Nat, waits : Time \cup {Never}] /\ 0 \in DOMAIN loops
      BY <2>1, Ticker DEF TypeOK
    <3>2. e.fires = f /\ e.waits = Never
      BY <3>1
    <3> HIDE DEF e
    <3>3. loops'[0] = e
      BY <2>2, <3>1 DEF e
    <3> QED
      BY <3>2, <3>3
  <2>4. SecondRead(now) = n - 1 /\ n \in Int
    BY <2>1, <2>2, FreshSecond
  <2>5. ReadUpTo(n - 1)
    BY <2>1, <2>2 DEF Paced, Steady, NextRead
  <2>6. ~Waiting' /\ NextRead' = n
    BY <2>3 DEF SecondRead, Waiting, NextRead, Never
  <2>7. f \in Nat /\ now <= f /\ (f % Grain) + MaxDelay < Grain
    BY <2>1, Ticker DEF Paced, Steady
  <2> HIDE DEF f, n
  <2>8. PICK first \in Int : first <= n - 1 /\ sampled = first .. (n - 1) - 1
    BY <2>5 DEF ReadUpTo
  <2>9. first <= n /\ sampled' = first .. n - 1
    BY <2>2, <2>4, <2>8
  <2>10. ReadUpTo(NextRead)'
    BY <2>6, <2>9 DEF ReadUpTo
  <2>11. Steady'
    BY <2>1, <2>3, <2>6, <2>7, <2>10 DEF Steady
  <2> QED
    BY <2>1, <2>11 DEF Paced
<1>7. ASSUME UNCHANGED <<now, loops, sampled>> PROVE Paced'
  BY <1>7 DEF Paced, Steady, Waiting, NextRead, ReadUpTo, SecondRead
<1>8. ASSUME NEW r, RunnerStep(r) PROVE Paced'
  BY <1>7, <1>8 DEF RunnerStep, Snapshot, Check, CheckEnd, Begin, RunnerEnd
<1>9. ASSUME NEW j, Pause(j) \/ Resume(j) \/ Unschedule(j) \/ UNCHANGED vars PROVE Paced'
  BY <1>7, <1>9 DEF Pause, Resume, Unschedule, Control, vars
<1> QED
  BY <1>2, <1>3, <1>5, <1>6, <1>8, <1>9 DEF Next, LoopStep

\* A runner evaluates a second that has been read, and has still to begin the jobs
\* it holds for it.
Fine(r) ==
    /\ r.for \in sampled
    /\ r.st = "new" => \A j \in Job : r.for \notin began[j]
    /\ r.st = "launching" => r.left = {}
    /\ \A j \in r.left \cup r.due : r.for \notin began[j]

Distinct ==
    /\ ~again
    /\ \A j \in Job : began[j] \subseteq sampled
    /\ \A r \in runners : Fine(r)
    /\ \A r, q \in runners : r.for = q.for => r = q

\* Every step keeps the runners distinct, as long as a loop keeps its pace.
LEMMA DistinctStep == TypeOK /\ Paced /\ Distinct /\ [Next]_vars => Distinct'
<1> SUFFICES ASSUME TypeOK, Paced, Distinct, [Next]_vars PROVE Distinct'
    OBVIOUS
<1>1. ASSUME UNCHANGED <<runners, began, sampled, again>> PROVE Distinct'
  BY <1>1 DEF Distinct, Fine
<1>2. ASSUME NEW r \in runners, NEW s, runners' = (runners \ {r}) \cup {s}, s.for = r.for,
             UNCHANGED <<began, sampled, again>>, Fine(s)
      PROVE  Distinct'
  BY <1>2 DEF Distinct, Fine
<1>3. ASSUME Advance \/ Start \/ UNCHANGED vars PROVE Distinct'
  BY <1>1, <1>3 DEF Advance, Start, vars
<1>4. ASSUME NEW l \in DOMAIN loops, Fire(l) PROVE Distinct'
  BY <1>1, <1>4 DEF Fire
<1>5. ASSUME NEW l \in DOMAIN loops, Receive(l) PROVE Distinct'
  <2> DEFINE t == SecondRead(now)
             s == [for |-> t, st |-> "new", left |-> {}, due |-> {},
                   off |-> paused \cup (Job \ table)]
  <2>1. /\ runners' = runners \cup {s} /\ sampled' = sampled \cup {t} /\ began' = began
        /\ again' = (again \/ t \in sampled)
    BY <1>5 DEF Receive
  <2>2. t \notin sampled
    <3>1. DOMAIN <<>> = {}
      OBVIOUS
    <3>2. loops # <<>>
      BY <1>5, <3>1
    <3>3. l = 0
      BY <3>2, Ticker
    <3>4. Waiting
      BY <1>5, <3>3 DEF Receive, Waiting
    <3> QED
      BY <3>2, <3>4, FreshSecond
  <2>3. s.for = t /\ s.st = "new" /\ s.left = {} /\ s.due = {}
    OBVIOUS
  <2> HIDE DEF s, t
  <2>4. ~again'
    BY <2>1, <2>2 DEF Distinct
  <2>5. \A j \in Job : began'[j] \subseteq sampled' /\ t \notin began'[j]
    BY <2>1, <2>2 DEF Distinct
  <2>6. ASSUME NEW r \in runners' PROVE Fine(r)'
    <3>1. CASE r = s
      BY <2>1, <2>3, <2>5, <3>1 DEF Fine
    <3>2. CASE r \in runners
      BY <2>1, <3>2 DEF Distinct, Fine
    <3> QED
      BY <2>1, <3>1, <3>2
  <2>7. ASSUME NEW r \in runners', NEW q \in runners', r.for = q.for PROVE r = q
    <3>1. \A p \in runners : p.for # t
      BY <2>2 DEF Distinct, Fine
    <3> QED
      BY <2>1, <2>3, <2>7, <3>1 DEF Distinct
  <2> QED
    BY <2>4, <2>5, <2>6, <2>7 DEF Distinct
<1>6. ASSUME NEW r \in runners, Snapshot(r) PROVE Distinct'
  <2> DEFINE s == [r EXCEPT !.st = "checking", !.left = table]
  <2>1. s.for = r.for /\ s.left = table /\ s.due = r.due /\ s.st = "checking"
    BY Runners
  <2>2. runners' = (runners \ {r}) \cup {s} /\ UNCHANGED <<began, sampled, again>>
        /\ r.st = "new"
    BY <1>6 DEF Snapshot, Replace
  <2> HIDE DEF s
  <2>3. Fine(s)
    BY <2>1, <2>2 DEF Distinct, Fine, TypeOK
  <2> QED
    BY <1>2, <2>1, <2>2, <2>3
<1>7. ASSUME NEW r \in runners, NEW j \in Job, Check(r, j) PROVE Distinct'
  <2> DEFINE found == IF Picked(r, j) THEN r.due \cup {j} ELSE r.due
             s == [r EXCEPT !.left = r.left \ {j}, !.due = found]
  <2>1. s.for = r.for /\ s.left = r.left \ {j} /\ s.due = found /\ s.st = r.st
    <3> HIDE DEF found
    <3> QED BY Runners
  <2>2. runners' = (runners \ {r}) \cup {s} /\ UNCHANGED <<began, sampled, again>>
        /\ r.st = "checking" /\ j \in r.left
    BY <1>7 DEF Check, Replace
  <2>3. s.left \cup s.due \subseteq r.left \cup r.due
    <3>1. found \subseteq r.due \cup {j}
      OBVIOUS
    <3> HIDE DEF s, found
    <3> QED BY <2>1, <2>2, <3>1
  <2> HIDE DEF s, found
  <2>4. Fine(s)
    BY <2>1, <2>2, <2>3 DEF Distinct, Fine
  <2> QED
    BY <1>2, <2>1, <2>2, <2>4
<1>8. ASSUME NEW r \in runners, CheckEnd(r) PROVE Distinct'
  <2> DEFINE s == [r EXCEPT !.st = "launching"]
  <2>1. s.for = r.for /\ s.left = r.left /\ s.due = r.due /\ s.st = "launching"
    BY Runners
  <2>2. runners' = (runners \ {r}) \cup {s} /\ UNCHANGED <<began, sampled, again>>
        /\ r.left = {}
    BY <1>8 DEF CheckEnd, Replace
  <2> HIDE DEF s
  <2>3. Fine(s)
    BY <2>1, <2>2 DEF Distinct, Fine
  <2> QED
    BY <1>2, <2>1, <2>2, <2>3
<1>9. ASSUME NEW r \in runners, NEW j \in Job, Begin(r, j) PROVE Distinct'
  <2> DEFINE s == [r EXCEPT !.due = r.due \ {j}]
  <2>1. s.for = r.for /\ s.left = r.left /\ s.due = r.due \ {j} /\ s.st = r.st
    BY Runners
  <2>2. /\ runners' = (runners \ {r}) \cup {s} /\ sampled' = sampled
        /\ began' = [began EXCEPT ![j] = began[j] \cup {r.for}]
        /\ again' = (again \/ r.for \in began[j])
        /\ r.st = "launching" /\ j \in r.due
    BY <1>9 DEF Begin, Replace
  <2> HIDE DEF s
  <2>3. began \in [Job -> SUBSET Second]
    BY DEF TypeOK
  <2>4. \A k : k \in DOMAIN began => began'[k] = IF k = j THEN began[j] \cup {r.for} ELSE began[k]
    BY <2>2, <2>3
  <2>5. ~again' /\ r.for \in sampled /\ r.left = {}
    BY <2>2 DEF Distinct, Fine
  <2>6. \A k \in Job : began'[k] \subseteq sampled'
    BY <2>2, <2>3, <2>4, <2>5 DEF Distinct
  <2>7. /\ r \in Runner /\ r.due \subseteq Job
        /\ \A q \in runners : q.left \subseteq Job /\ q.due \subseteq Job
    BY DEF TypeOK, Runner
  <2>8. ASSUME NEW q \in runners' PROVE Fine(q)'
    <3>1. CASE q = s
      BY <2>1, <2>2, <2>3, <2>4, <2>5, <2>7, <3>1 DEF Distinct, Fine
    <3>2. CASE q \in runners /\ q # r
      <4>1. q.for # r.for /\ Fine(q)
        BY <3>2 DEF Distinct
      <4>2. \A k \in Job : q.for \notin began[k] => q.for \notin began'[k]
        BY <2>3, <2>4, <4>1
      <4> QED
        BY <2>2, <2>7, <3>2, <4>1, <4>2 DEF Fine
    <3> QED
      BY <2>2, <3>1, <3>2
  <2>9. \A p, q \in runners' : p.for = q.for => p = q
    BY <2>1, <2>2 DEF Distinct
  <2> QED
    BY <2>5, <2>6, <2>8, <2>9 DEF Distinct
<1>10. ASSUME NEW r \in runners, RunnerEnd(r) PROVE Distinct'
  BY <1>10 DEF RunnerEnd, Distinct, Fine
<1>11. ASSUME NEW j \in Job, Pause(j) \/ Unschedule(j) PROVE Distinct'
  BY <1>1, <1>11 DEF Pause, Unschedule, Control
<1>12. ASSUME NEW j \in Job, Resume(j) PROVE Distinct'
  <2>1. UNCHANGED <<began, sampled, again>>
    BY <1>12 DEF Resume, Control
  <2>2. ASSUME NEW s \in runners'
        PROVE  \E r \in runners : /\ s = [r EXCEPT !.off = @ \ {j}]
                                  /\ s.for = r.for /\ s.st = r.st
                                  /\ s.left = r.left /\ s.due = r.due
    <3>1. PICK r \in runners : s = [r EXCEPT !.off = @ \ {j}]
      BY <1>12 DEF Resume
    <3>2. s.for = r.for /\ s.left = r.left /\ s.due = r.due /\ s.st = r.st
      BY <3>1, Runners
    <3> QED
      BY <3>1, <3>2
  <2>3. ASSUME NEW s \in runners' PROVE Fine(s)'
    <3>1. PICK r \in runners : /\ s.for = r.for /\ s.st = r.st
                               /\ s.left = r.left /\ s.due = r.due
      BY <2>2
    <3>2. Fine(r)
      BY DEF Distinct
    <3> QED
      BY <2>1, <3>1, <3>2 DEF Fine
  <2>4. ASSUME NEW s \in runners', NEW q \in runners', s.for = q.for PROVE s = q
    <3>1. PICK r \in runners : s = [r EXCEPT !.off = @ \ {j}] /\ s.for = r.for
      BY <2>2
    <3>2. PICK p \in runners : q = [p EXCEPT !.off = @ \ {j}] /\ q.for = p.for
      BY <2>2
    <3>3. r = p
      BY <2>4, <3>1, <3>2 DEF Distinct
    <3> QED
      BY <3>1, <3>2, <3>3
  <2> QED
    BY <2>1, <2>3, <2>4 DEF Distinct
<1> QED
  BY <1>3, <1>4, <1>5, <1>6, <1>7, <1>8, <1>9, <1>10, <1>11, <1>12
  DEF Next, LoopStep, RunnerStep

\* The host begins with nothing read and nothing begun.
LEMMA InitPaced == Init => Paced /\ Distinct
<1> SUFFICES ASSUME Init PROVE Paced /\ Distinct
    OBVIOUS
<1>1. loops = <<>> /\ sampled = {} /\ now = Created /\ runners = {} /\ again = FALSE
      /\ began = [j \in Job |-> {}]
  BY DEF Init
<1>2. Created \in Created .. Created + StartDelay
  BY RunLoopAssumption
<1> QED
  BY <1>1, <1>2 DEF Paced, Distinct

\* Each due job runs at most once per second, whatever the delays, as long as they
\* fit into the ticker's phase: no second is evaluated twice, by one loop or by
\* two, and no job begun twice for one (Start, RunSchedulerPerSecond, runJobs).
THEOREM OncePerSecond == InPhase => (Spec => []NoSecondTwice)
<1> SUFFICES ASSUME InPhase PROVE Spec => []NoSecondTwice
    OBVIOUS
<1>1. TypeOK /\ Paced /\ [Next]_vars => Paced'
  BY PacedStep
<1>2. Distinct => NoSecondTwice
  BY DEF Distinct, NoSecondTwice
<1> QED
  BY <1>1, <1>2, InitPaced, DistinctStep, TypeCorrect, PTL DEF Spec

\* Under the same condition a loop passes over no second, so a sub-minute job
\* misses none of its (RunSchedulerPerSecond).
THEOREM NoGap == InPhase => (Spec => []NoSecondSkipped)
<1> SUFFICES ASSUME InPhase PROVE Spec => []NoSecondSkipped
    OBVIOUS
<1>1. TypeOK /\ Paced /\ [Next]_vars => Paced'
  BY PacedStep
<1>2. TypeOK /\ Paced => NoSecondSkipped
  <2> SUFFICES ASSUME TypeOK, Paced PROVE NoSecondSkipped
      OBVIOUS
  <2>1. CASE loops = <<>>
    BY <2>1 DEF Paced, NoSecondSkipped
  <2>2. CASE loops # <<>>
    <3>1. ReadUpTo(NextRead) /\ NextRead \in Int
      BY <2>2, Ticker DEF Paced, Steady
    <3> QED
      BY <3>1 DEF ReadUpTo, NoSecondSkipped
  <2> QED
    BY <2>1, <2>2
<1> QED
  BY <1>1, <1>2, InitPaced, TypeCorrect, PTL DEF Spec
=============================================================================
