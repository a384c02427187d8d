--------------------------- MODULE RecoveryProofs ---------------------------
(***************************************************************************)
(* Proofs about Recovery, for every set of jobs and callers, every         *)
(* schedule, every bound and every environment.                            *)
(***************************************************************************)
EXTENDS Recovery, Numbers, FiniteSetTheorems

-----------------------------------------------------------------------------
(* What the helpers of Replay and backfill return.                         *)

\* The cursor is a time, and no stored success ended after it.
LEMMA LastSuccessfulType ==
    ASSUME NEW R \in SUBSET RunRecord
    PROVE  /\ LastSuccessful(R) \in Time
           /\ \A r \in R : r.ok => r.fin <= LastSuccessful(R)
<1> DEFINE S == {0} \cup {r.fin : r \in {s \in R : s.ok}}
<1>1. S \in SUBSET (0 .. MaxTime) /\ S # {} /\ MaxTime \in Nat
  BY RecoveryAssumption DEF RunRecord, Time
<1>2. Max(S) \in S /\ \A x \in S : Max(S) >= x
  BY <1>1, MaxGreatest
<1>3. \A r \in R : r.ok => r.fin \in S
  OBVIOUS
<1>4. LastSuccessful(R) = Max(S)
  BY DEF LastSuccessful
<1> QED
  BY <1>1, <1>2, <1>3, <1>4 DEF Time

\* Missed occurrences are steps, and past the cursor of a job that has run.
LEMMA MissedOccurrencesType ==
    ASSUME NEW j \in Job, NEW last \in Time, NEW t \in Step, NEW whole
    PROVE  /\ MissedOccurrences(j, last, t, whole) \in SUBSET Step
           /\ last # 0 => \A s \in MissedOccurrences(j, last, t, whole) : last < s
           /\ \A s \in MissedOccurrences(j, last, t, whole) : s <= t
  BY RecoveryAssumption DEF MissedOccurrences, Step, Time

\* Latest keeps at most k members: its least member has fewer than k above it.
LEMMA LatestBound ==
    ASSUME NEW S \in SUBSET Step, NEW k \in Nat
    PROVE  /\ Latest(S, k) \in SUBSET S
           /\ Cardinality(Latest(S, k)) <= k
<1> DEFINE T == Latest(S, k)
<1>1. T \in SUBSET S /\ T \in SUBSET Nat
  <2>1. T \in SUBSET S
    BY DEF Latest
  <2>2. S \in SUBSET Nat
    BY RecoveryAssumption DEF Step
  <2> QED
    BY <2>1, <2>2
<1>2. IsFiniteSet(Step)
  BY RecoveryAssumption, FS_Interval DEF Step
<1>3. IsFiniteSet(S) /\ IsFiniteSet(T)
  BY <1>1, <1>2, FS_Subset
<1>4. CASE T = {}
  BY <1>1, <1>4, FS_EmptySet
<1>5. CASE T # {}
  <2>1. PICK m \in T : \A x \in T : m <= x
    BY <1>1, <1>5, NatLeast
  <2> DEFINE A == {u \in S : m < u}
  <2>2. IsFiniteSet(A) /\ Cardinality(A) \in Nat /\ Cardinality(A) < k
    BY <2>1, <1>3, FS_Subset, FS_CardinalityType DEF Latest
  <2>3. T \in SUBSET (A \cup {m})
    BY <2>1, <1>1
  <2>4. IsFiniteSet(A \cup {m}) /\ Cardinality(A \cup {m}) <= Cardinality(A) + 1
    BY <2>2, FS_AddElement
  <2>5. Cardinality(T) <= Cardinality(A \cup {m})
    BY <2>3, <2>4, FS_Subset
  <2>6. Cardinality(T) \in Nat /\ Cardinality(A \cup {m}) \in Nat
    BY <1>3, <2>4, FS_CardinalityType
  <2> HIDE DEF T, A
  <2> QED
    BY <1>1, <2>2, <2>4, <2>5, <2>6 DEF T
<1> QED
  BY <1>4, <1>5

-----------------------------------------------------------------------------
(* Type correctness.                                                       *)

\* The initial states are well typed.
LEMMA InitType == Init => TypeOK
  BY RecoveryAssumption DEF Init, TypeOK, Time, Step, Backfill, NoBackfill

\* Every step keeps the state well typed.
LEMMA NextType == TypeOK /\ [Next]_vars => TypeOK'
<1> SUFFICES ASSUME TypeOK, [Next]_vars PROVE TypeOK'
  OBVIOUS
<1> USE RecoveryAssumption
<1>1. NoBackfill \in Backfill
  BY DEF NoBackfill, Backfill, Time
<1>2. \A who \in Caller \cup {"tick", "trigger"} : \A t \in Step :
          Begun(t, who) \in Execution
  BY DEF Begun, Execution, Time
<1>3. CASE Advance
  BY <1>3 DEF Advance, TypeOK, memory, history, Step, Time
<1>4. CASE Crash
  BY <1>4, <1>1 DEF Crash, TypeOK, history
<1>5. CASE Boot
  BY <1>5 DEF Boot, TypeOK, memory, Step, Time
<1>6. CASE Tick
  <2>1. now \in Step /\ Begun(now, "tick") \in Execution
    BY <1>2 DEF TypeOK
  <2>2. flight' \in [Job -> SUBSET Execution]
    BY <1>6, <2>1 DEF Tick, TypeOK
  <2>3. accounted' \in [Job -> SUBSET Step]
    BY <1>6, <2>1 DEF Tick, TypeOK
  <2>4. ticked' \in Time
    BY <1>6, <2>1 DEF Tick, Step, Time
  <2> QED
    BY <1>6, <2>2, <2>3, <2>4 DEF Tick, TypeOK
<1>7. ASSUME NEW j \in Job, TriggerNow(j) PROVE TypeOK'
  <2>1. Begun(now, "trigger") \in Execution
    BY <1>2 DEF TypeOK
  <2> QED
    BY <1>7, <2>1 DEF TriggerNow, TypeOK, history
<1>8. ASSUME NEW j \in Job, Finish(j) PROVE TypeOK'
  <2>1. PICK e \in flight[j], result \in {"ok", "failed"} :
          flight' = [flight EXCEPT ![j] =
                        (@ \ {e}) \cup {[e EXCEPT !.st = result, !.fin = now]}]
    BY <1>8 DEF Finish
  <2>2. [e EXCEPT !.st = result, !.fin = now] \in Execution
    <3>1. e \in Execution /\ now \in Time
      BY DEF TypeOK, Step, Time
    <3>2. result \in {"running", "ok", "failed"}
      OBVIOUS
    <3> QED
      BY <3>1, <3>2 DEF Execution
  <2> QED
    BY <1>8, <2>1, <2>2 DEF Finish, TypeOK, history
<1>9. ASSUME NEW j \in Job, Persist(j) PROVE TypeOK'
  <2>1. PICK e \in flight[j] :
          /\ flight' = [flight EXCEPT ![j] = @ \ {e}]
          /\ runs' = [runs EXCEPT ![j] = @ \cup {RecordOf(e)}]
          /\ since' = [since EXCEPT ![j] = IF @ = 0 /\ e.st = "ok" THEN e.fin ELSE @]
          /\ kept' = [kept EXCEPT ![j] = IF e.st = "ok" THEN @ \cup {e.for} ELSE @]
    BY <1>9 DEF Persist
  <2>2. e \in Execution
    BY DEF TypeOK
  <2>3. RecordOf(e) \in RunRecord
    BY <2>2 DEF RecordOf, RunRecord, Execution
  <2>4. runs' \in [Job -> SUBSET RunRecord]
    BY <2>1, <2>3 DEF TypeOK
  <2>5. since' \in [Job -> Time]
    BY <2>1, <2>2 DEF TypeOK, Execution
  <2>6. kept' \in [Job -> SUBSET Step]
    BY <2>1, <2>2 DEF TypeOK, Execution
  <2>7. flight' \in [Job -> SUBSET Execution]
    BY <2>1 DEF TypeOK
  <2> QED
    BY <1>9, <2>4, <2>5, <2>6, <2>7 DEF Persist, TypeOK
<1>10. ASSUME NEW j \in Job, PersistFails(j) PROVE TypeOK'
  BY <1>10 DEF PersistFails, TypeOK, history
<1>11. ASSUME NEW c \in Caller, ReplayBegin(c) PROVE TypeOK'
  BY <1>11 DEF ReplayBegin, TypeOK, history
<1>12. ASSUME NEW c \in Caller, NEW j \in Job, ReplayJob(c, j) PROVE TypeOK'
  BY <1>12, LastSuccessfulType DEF ReplayJob, TypeOK, history, Backfill
<1>13. ASSUME NEW c \in Caller, NEW j \in Job, ReplayJobFails(c, j) PROVE TypeOK'
  BY <1>13 DEF ReplayJobFails, TypeOK, history
<1>14. ASSUME NEW c \in Caller, NEW j \in Job, BackfillStart(c, j) PROVE TypeOK'
  <2>1. PICK whole \in BOOLEAN :
          /\ backfill' = [backfill EXCEPT ![c][j] =
                 [st |-> "going", last |-> backfill[c][j].last,
                  todo |-> Latest(MissedOccurrences(j, backfill[c][j].last, now, whole),
                                  MaxBackfillRuns)]]
          /\ cut' = IF MidMinute(j, backfill[c][j].last, now, whole) THEN cut \cup {j} ELSE cut
    BY <1>14 DEF BackfillStart
  <2>2. backfill' \in [Caller -> [Job -> Backfill]]
    BY <2>1, MissedOccurrencesType, LatestBound DEF TypeOK, Backfill
  <2>3. accounted' \in [Job -> SUBSET Step] /\ cut' \subseteq Job
    BY <1>14, <2>1 DEF BackfillStart, TypeOK, BeyondBounds
  <2> QED
    BY <1>14, <2>2, <2>3 DEF BackfillStart, TypeOK
<1>15. ASSUME NEW c \in Caller, NEW j \in Job, BackfillNext(c, j) PROVE TypeOK'
  <2> DEFINE b == backfill[c][j]
             t == NextOccurrence(b.todo)
  <2>1. b \in Backfill /\ b.todo # {}
    BY <1>15 DEF BackfillNext, TypeOK
  <2>2. t \in b.todo
    <3>1. b.todo \in SUBSET Step /\ b.todo \in SUBSET Nat
      BY <2>1 DEF Backfill, Step
    <3> QED
      BY <2>1, <3>1, MinLeast DEF NextOccurrence
  <2>3. t \in Step /\ Begun(t, c) \in Execution
    BY <1>2, <2>1, <2>2 DEF Backfill
  <2>4. /\ backfill' = [backfill EXCEPT ![c][j].todo = @ \ {t}]
        /\ flight' = [flight EXCEPT ![j] = @ \cup {Begun(t, c)}]
        /\ accounted' = [accounted EXCEPT ![j] = @ \cup {t}]
    BY <1>15 DEF BackfillNext
  <2> HIDE DEF t
  <2>5. backfill' \in [Caller -> [Job -> Backfill]]
    BY <2>1, <2>4 DEF TypeOK, Backfill
  <2>6. flight' \in [Job -> SUBSET Execution] /\ accounted' \in [Job -> SUBSET Step]
    BY <2>3, <2>4 DEF TypeOK
  <2> QED
    BY <1>15, <2>5, <2>6 DEF BackfillNext, TypeOK
<1>16. ASSUME NEW c \in Caller, NEW j \in Job, BackfillEnd(c, j) PROVE TypeOK'
  BY <1>16, <1>1 DEF BackfillEnd, TypeOK, history
<1>17. ASSUME NEW j \in Job, Pause(j) \/ Resume(j) \/ ClearHistory(j) PROVE TypeOK'
  BY <1>17 DEF Pause, Resume, ClearHistory, TypeOK, memory, history
<1>18. CASE UNCHANGED vars
  BY <1>18 DEF TypeOK, vars, memory, history
<1> QED
  BY <1>3, <1>4, <1>5, <1>6, <1>7, <1>8, <1>9, <1>10, <1>11, <1>12, <1>13, <1>14,
     <1>15, <1>16, <1>17, <1>18 DEF Next, JobStep, ReplayStep

\* The state of the scheduler is well typed in every behaviour.
THEOREM TypeCorrect == Spec => []TypeOK
  BY InitType, NextType, PTL DEF Spec

-----------------------------------------------------------------------------
(* A backfill replays in order, one execution at a time, within its bound. *)

\* Nothing to replay is within the bound.
LEMMA EmptyBound == Cardinality({}) <= MaxBackfillRuns
  BY RecoveryAssumption, FS_EmptySet

LEMMA InitOrder == Init => OrderInv
<1> SUFFICES ASSUME Init, NEW c \in Caller, NEW j \in Job PROVE InOrder(c, j)
  BY DEF OrderInv
<1>1. backfill[c][j] = NoBackfill /\ flight[j] = {}
  BY DEF Init
<1> QED
  BY <1>1, EmptyBound DEF InOrder, NoBackfill

\* InOrder(d, i) depends on three parts of the state only.
LEMMA OrderFrame ==
    ASSUME NEW d \in Caller, NEW i \in Job, InOrder(d, i),
           replaying'[d] = replaying[d] \/ i \notin replaying'[d],
           backfill'[d][i] = backfill[d][i],
           flight'[i] = flight[i]
    PROVE  InOrder(d, i)'
  BY DEF InOrder

LEMMA NextOrder == TypeOK /\ OrderInv /\ [Next]_vars => OrderInv'
<1> SUFFICES ASSUME TypeOK, OrderInv, [Next]_vars,
                    NEW d \in Caller, NEW i \in Job
             PROVE  InOrder(d, i)'
  BY DEF OrderInv
<1>1. InOrder(d, i) /\ d # "tick" /\ d # "trigger"
  BY RecoveryAssumption DEF OrderInv
<1>2. CASE Advance \/ Boot \/ UNCHANGED vars
  BY <1>1, <1>2, OrderFrame DEF Advance, Boot, vars, memory
<1>3. CASE Crash
  BY <1>3, EmptyBound DEF Crash, InOrder, NoBackfill
<1>4. CASE Tick
  <2>1. \A e \in flight'[i] : e \in flight[i] \/ e.by = "tick"
    BY <1>4 DEF Tick, TypeOK, Begun
  <2>2. replaying' = replaying /\ backfill' = backfill
    BY <1>4 DEF Tick
  <2> QED
    BY <1>1, <2>1, <2>2 DEF InOrder
<1>5. ASSUME NEW j \in Job, TriggerNow(j) PROVE InOrder(d, i)'
  <2>1. \A e \in flight'[i] : e \in flight[i] \/ e.by = "trigger"
    BY <1>5 DEF TriggerNow, TypeOK, Begun
  <2>2. replaying' = replaying /\ backfill' = backfill
    BY <1>5 DEF TriggerNow
  <2> QED
    BY <1>1, <2>1, <2>2 DEF InOrder
<1>6. ASSUME NEW j \in Job, Finish(j) PROVE InOrder(d, i)'
  <2>1. PICK e \in flight[j], result \in {"ok", "failed"} :
          flight' = [flight EXCEPT ![j] =
                        (@ \ {e}) \cup {[e EXCEPT !.st = result, !.fin = now]}]
    BY <1>6 DEF Finish
  <2> DEFINE f == [e EXCEPT !.st = result, !.fin = now]
  <2>2. f.for = e.for /\ f.by = e.by
    BY DEF TypeOK, Execution
  <2>3. replaying' = replaying /\ backfill' = backfill
    BY <1>6 DEF Finish
  <2>4. CASE i = j
    <3>1. flight'[i] = (flight[i] \ {e}) \cup {f}
      BY <2>1, <2>4 DEF TypeOK
    <3> HIDE DEF f
    <3> QED
      BY <1>1, <2>1, <2>2, <2>3, <2>4, <3>1 DEF InOrder
  <2>5. CASE i # j
    BY <1>1, <2>1, <2>3, <2>5, OrderFrame DEF TypeOK
  <2> QED
    BY <2>4, <2>5
<1>7. ASSUME NEW j \in Job, Persist(j) \/ PersistFails(j) PROVE InOrder(d, i)'
  <2>1. flight'[i] \in SUBSET flight[i] /\ replaying' = replaying /\ backfill' = backfill
    BY <1>7 DEF Persist, PersistFails, TypeOK
  <2> QED
    BY <1>1, <2>1 DEF InOrder
<1>8. ASSUME NEW c \in Caller, ReplayBegin(c) PROVE InOrder(d, i)'
  <2>1. replaying'[d] = replaying[d] \/ backfill[d][i].st = "none"
    BY <1>8 DEF ReplayBegin, TypeOK
  <2>2. backfill' = backfill /\ flight' = flight
    BY <1>8 DEF ReplayBegin
  <2> QED
    BY <1>1, <2>1, <2>2 DEF InOrder
<1>9. ASSUME NEW c \in Caller, NEW j \in Job, ReplayJob(c, j) PROVE InOrder(d, i)'
  <2>1. CASE d = c /\ i = j
    <3>1. backfill[d][i].st = "none"
      BY <1>1, <1>9, <2>1 DEF ReplayJob, InOrder
    <3>2. backfill'[d][i] = [st |-> "ready", last |-> LastSuccessful(runs[j]), todo |-> {}]
      BY <1>9, <2>1 DEF ReplayJob, TypeOK
    <3>3. i \notin replaying'[d] /\ flight' = flight
      BY <1>9, <2>1 DEF ReplayJob, TypeOK
    <3> QED
      BY <1>1, <3>1, <3>2, <3>3, EmptyBound DEF InOrder
  <2>2. CASE d # c \/ i # j
    BY <1>1, <1>9, <2>2 DEF ReplayJob, TypeOK, InOrder
  <2> QED
    BY <2>1, <2>2
<1>10. ASSUME NEW c \in Caller, NEW j \in Job, ReplayJobFails(c, j) PROVE InOrder(d, i)'
  BY <1>1, <1>10 DEF ReplayJobFails, TypeOK, InOrder
<1>11. ASSUME NEW c \in Caller, NEW j \in Job, BackfillStart(c, j) PROVE InOrder(d, i)'
  <2>1. replaying' = replaying /\ flight' = flight
    BY <1>11 DEF BackfillStart
  <2>2. CASE d = c /\ i = j
    <3>0. PICK whole \in BOOLEAN :
            backfill' = [backfill EXCEPT ![c][j] =
                [st |-> "going", last |-> backfill[c][j].last,
                 todo |-> Latest(MissedOccurrences(j, backfill[c][j].last, now, whole),
                                 MaxBackfillRuns)]]
      BY <1>11 DEF BackfillStart
    <3> DEFINE todo == Latest(MissedOccurrences(j, backfill[c][j].last, now, whole),
                              MaxBackfillRuns)
    <3>1. Cardinality(todo) <= MaxBackfillRuns
      <4>1. MissedOccurrences(j, backfill[c][j].last, now, whole) \in SUBSET Step
        BY MissedOccurrencesType DEF TypeOK, Backfill
      <4> QED
        BY <4>1, LatestBound, RecoveryAssumption
    <3>2. backfill'[d][i] = [st |-> "going", last |-> backfill[c][j].last, todo |-> todo]
      BY <2>2, <3>0 DEF TypeOK
    <3>3. backfill[d][i].st = "ready"
      BY <1>11, <2>2 DEF BackfillStart
    <3> HIDE DEF todo
    <3> QED
      BY <1>1, <2>1, <3>1, <3>2, <3>3 DEF InOrder
  <2>3. CASE d # c \/ i # j
    <3>1. backfill'[d][i] = backfill[d][i]
      BY <1>11, <2>3 DEF BackfillStart, TypeOK
    <3> QED
      BY <1>1, <2>1, <3>1, OrderFrame
  <2> QED
    BY <2>2, <2>3
<1>12. ASSUME NEW c \in Caller, NEW j \in Job, BackfillNext(c, j) PROVE InOrder(d, i)'
  <2> DEFINE b == backfill[c][j]
             t == NextOccurrence(b.todo)
  <2>1. b \in Backfill /\ b.todo # {} /\ b.todo \in SUBSET Nat
    BY <1>12 DEF BackfillNext, TypeOK, Backfill, Step
  <2>2. t \in b.todo /\ \A x \in b.todo \ {t} : t < x
    <3>1. t \in b.todo /\ \A x \in b.todo : t <= x
      BY <2>1, MinLeast DEF NextOccurrence
    <3> HIDE DEF t
    <3> QED
      BY <2>1, <3>1
  <2>3. /\ backfill' = [backfill EXCEPT ![c][j].todo = @ \ {t}]
        /\ flight' = [flight EXCEPT ![j] = @ \cup {Begun(t, c)}]
        /\ replaying' = replaying
        /\ \A e \in flight[j] : e.by # c
        /\ b.st = "going"
    BY <1>12 DEF BackfillNext, LoopMayGoOn
  <2>4. Begun(t, c).for = t /\ Begun(t, c).by = c
    BY DEF Begun
  <2> HIDE DEF t
  <2>5. CASE d = c /\ i = j
    <3>1. backfill'[d][i] = [b EXCEPT !.todo = @ \ {t}]
      BY <2>3, <2>5 DEF TypeOK
    <3>2. backfill'[d][i].st = b.st /\ backfill'[d][i].todo = b.todo \ {t}
      BY <2>1, <3>1 DEF Backfill
    <3>3. Cardinality(b.todo \ {t}) <= MaxBackfillRuns
      <4>1. IsFiniteSet(b.todo)
        <5>1. IsFiniteSet(Step)
          BY RecoveryAssumption, FS_Interval DEF Step
        <5> QED
          BY <2>1, <5>1, FS_Subset DEF Backfill
      <4>2. /\ Cardinality(b.todo \ {t}) <= Cardinality(b.todo)
            /\ Cardinality(b.todo) \in Nat
            /\ Cardinality(b.todo \ {t}) \in Nat
        BY <4>1, FS_Subset, FS_CardinalityType
      <4>3. Cardinality(b.todo) <= MaxBackfillRuns
        BY <1>1, <2>5 DEF InOrder
      <4> QED
        BY <4>2, <4>3, RecoveryAssumption
    <3>4. flight'[i] = flight[j] \cup {Begun(t, c)}
      BY <2>3, <2>5 DEF TypeOK
    <3>5. i \notin replaying'[d]
      BY <1>1, <2>3, <2>5 DEF InOrder
    <3> QED
      BY <2>2, <2>3, <2>4, <2>5, <3>2, <3>3, <3>4, <3>5 DEF InOrder
  <2>6. CASE d # c \/ i # j
    <3>1. backfill'[d][i] = backfill[d][i]
      BY <2>3, <2>6 DEF TypeOK
    <3>2. \A e \in flight'[i] : e \in flight[i] \/ e.by # d
      BY <2>3, <2>4, <2>6 DEF TypeOK
    <3> QED
      BY <1>1, <2>3, <3>1, <3>2 DEF InOrder
  <2> QED
    BY <2>5, <2>6
<1>13. ASSUME NEW c \in Caller, NEW j \in Job, BackfillEnd(c, j) PROVE InOrder(d, i)'
  <2>1. replaying' = replaying /\ flight' = flight
    BY <1>13 DEF BackfillEnd
  <2>2. CASE d = c /\ i = j
    <3>1. backfill'[d][i] = NoBackfill /\ \A e \in flight[i] : e.by # d
      BY <1>13, <2>2 DEF BackfillEnd, LoopMayGoOn, TypeOK
    <3> QED
      BY <1>1, <2>1, <3>1, EmptyBound DEF InOrder, NoBackfill
  <2>3. CASE d # c \/ i # j
    <3>1. backfill'[d][i] = backfill[d][i]
      BY <1>13, <2>3 DEF BackfillEnd, TypeOK
    <3> QED
      BY <1>1, <2>1, <3>1, OrderFrame
  <2> QED
    BY <2>2, <2>3
<1>14. ASSUME NEW j \in Job, Pause(j) \/ Resume(j) \/ ClearHistory(j)
       PROVE  InOrder(d, i)'
  BY <1>1, <1>14, OrderFrame DEF Pause, Resume, ClearHistory, memory
<1> QED
  BY <1>2, <1>3, <1>4, <1>5, <1>6, <1>7, <1>8, <1>9, <1>10, <1>11, <1>12, <1>13,
     <1>14 DEF Next, JobStep, ReplayStep

\* Every backfill is oldest-first, sequential and bounded, with any number of
\* callers of Replay at once and in every environment.
THEOREM BackfillOrder == Spec => []BackfillInOrder
<1>1. OrderInv => BackfillInOrder
  BY DEF OrderInv, InOrder, BackfillInOrder
<1> QED
  BY <1>1, InitType, NextType, InitOrder, NextOrder, PTL DEF Spec

-----------------------------------------------------------------------------
(* No run stored as succeeded before a restart is made again.              *)

LEMMA InitSettled == Init => SettledInv
  BY DEF Init, SettledInv, DownEmpty, Settled, NoBackfill

\* Settled(i) is kept when nothing it speaks of but the clock changes.
LEMMA SettledFrame ==
    ASSUME TypeOK, TypeOK', NEW i \in Job, Settled(i),
           now <= now', ticked <= ticked',
           flight'[i] = flight[i], runs'[i] = runs[i],
           kept'[i] = kept[i], settled'[i] = settled[i],
           \A c \in Caller : backfill'[c][i] = backfill[c][i]
    PROVE  Settled(i)'
<1>1. /\ now \in Nat /\ now' \in Nat /\ ticked \in Nat /\ ticked' \in Nat
      /\ \A e \in flight[i] : e.for \in Nat
      /\ \A t \in kept[i] \cup settled[i] : t \in Nat
      /\ \A c \in Caller : \A t \in backfill[c][i].todo : t \in Nat
  BY DEF TypeOK, Execution, Backfill, Step, Time
<1> QED
  BY <1>1 DEF Settled

\* The clock and the run loop only go forward.
LEMMA ClockForward ==
    ASSUME TypeOK, ticked <= now, [Next]_vars
    PROVE  now <= now' /\ ticked <= ticked' /\ ticked' <= now'
<1>1. now \in Nat /\ ticked \in Nat
  BY DEF TypeOK, Step, Time
<1>2. CASE Advance
  BY <1>1, <1>2 DEF Advance
<1>3. CASE Boot \/ Tick
  BY <1>1, <1>3 DEF Boot, Tick
<1>4. CASE now' = now /\ ticked' = ticked
  BY <1>1, <1>4
<1> QED
  BY <1>2, <1>3, <1>4
     DEF Next, Crash, TriggerNow, JobStep, Finish, Persist, PersistFails, ReplayBegin,
         ReplayStep, ReplayJob, ReplayJobFails, BackfillStart, BackfillNext,
         BackfillEnd, Pause, Resume, ClearHistory, vars

\* A process that is down has no executions, Replays or backfills.
LEMMA NextDown == TypeOK /\ DownEmpty /\ [Next]_vars => DownEmpty'
<1> SUFFICES ASSUME TypeOK, DownEmpty, [Next]_vars, ~ up' PROVE DownEmpty'
  BY DEF DownEmpty
<1>1. CASE Crash
  BY <1>1 DEF Crash, DownEmpty
<1>2. CASE Advance \/ UNCHANGED vars
  BY <1>2 DEF Advance, DownEmpty, vars, memory
<1>3. CASE \E j \in Job : JobStep(j) \/ PersistFails(j)
  <2>1. PICK j \in Job : flight[j] # {} /\ up' = up
    BY <1>3 DEF JobStep, Finish, Persist, PersistFails
  <2> QED
    BY <2>1 DEF DownEmpty
<1>4. CASE \E c \in Caller, j \in Job : ReplayStep(c, j) \/ ReplayJobFails(c, j)
  BY <1>4 DEF ReplayStep, ReplayJob, ReplayJobFails, BackfillStart, BackfillNext,
              BackfillEnd, DownEmpty, NoBackfill
<1> QED
  BY <1>1, <1>2, <1>3, <1>4 DEF Next, Boot, Tick, TriggerNow, ReplayBegin, Pause,
       Resume, ClearHistory

LEMMA NextSettled ==
    TypeOK /\ TypeOK' /\ SettledInv /\ [Next]_vars => SettledInv'
<1> SUFFICES ASSUME TypeOK, TypeOK', SettledInv, [Next]_vars, NEW i \in Job
             PROVE  Settled(i)'
  BY ClockForward, NextDown DEF SettledInv
<1>1. /\ now \in Nat /\ now' \in Nat /\ ticked \in Nat /\ ticked' \in Nat
      /\ ticked <= now /\ now <= now' /\ ticked <= ticked'
  BY ClockForward DEF TypeOK, Step, Time, SettledInv
<1>2. /\ \A e \in flight[i] : e \in Execution /\ e.for \in Nat /\ e.fin \in Nat
      /\ \A t \in kept[i] \cup settled[i] : t \in Nat
      /\ \A c \in Caller : \A t \in backfill[c][i].todo : t \in Nat
      /\ \A r \in runs[i] : r.fin \in Nat
  BY DEF TypeOK, Execution, Backfill, RunRecord, Step, Time
<1>3. Settled(i) /\ DownEmpty
  BY DEF SettledInv
<1>4. CASE Advance \/ UNCHANGED vars
  BY <1>1, <1>3, <1>4, SettledFrame DEF Advance, vars, memory, history
<1>5. CASE Crash
  BY <1>1, <1>2, <1>3, <1>5 DEF Crash, Settled, NoBackfill, history
<1>6. CASE Boot
  <2>1. /\ flight'[i] = {} /\ \A c \in Caller : backfill'[c][i] = NoBackfill
        /\ runs' = runs /\ kept' = kept /\ settled' = kept
        /\ now' = now /\ ticked' = now
    BY <1>3, <1>6 DEF Boot, DownEmpty, memory
  <2> QED
    BY <1>1, <1>2, <1>3, <2>1 DEF Settled, NoBackfill
<1>7. CASE Tick
  <2>1. /\ \A e \in flight'[i] : e \in flight[i] \/ e = Begun(now, "tick")
        /\ ticked' = now /\ now' = now /\ ticked < now
        /\ runs' = runs /\ kept' = kept /\ settled' = settled /\ backfill' = backfill
    BY <1>7 DEF Tick, TypeOK
  <2>2. now \notin settled[i]
    BY <1>1, <1>2, <1>3, <2>1 DEF Settled
  <2> QED
    BY <1>1, <1>2, <1>3, <2>1, <2>2 DEF Settled, Begun
<1>8. ASSUME NEW j \in Job, TriggerNow(j) PROVE Settled(i)'
  <2>1. /\ \A e \in flight'[i] : e \in flight[i] \/ e = Begun(now, "trigger")
        /\ ticked' = ticked /\ now' = now
        /\ runs' = runs /\ kept' = kept /\ settled' = settled /\ backfill' = backfill
    BY <1>8 DEF TriggerNow, TypeOK, history
  <2> QED
    BY <1>1, <1>2, <1>3, <2>1 DEF Settled, Begun
<1>9. ASSUME NEW j \in Job, Finish(j) PROVE Settled(i)'
  <2>1. PICK e \in flight[j], result \in {"ok", "failed"} :
          flight' = [flight EXCEPT ![j] =
                        (@ \ {e}) \cup {[e EXCEPT !.st = result, !.fin = now]}]
    BY <1>9 DEF Finish
  <2> DEFINE f == [e EXCEPT !.st = result, !.fin = now]
  <2>2. f.for = e.for /\ f.by = e.by /\ f.fin = now
    BY DEF TypeOK, Execution
  <2>3. /\ ticked' = ticked /\ now' = now
        /\ runs' = runs /\ kept' = kept /\ settled' = settled /\ backfill' = backfill
    BY <1>9 DEF Finish, history
  <2>4. \A g \in flight'[i] : g \in flight[i] \/ (i = j /\ g = f)
    BY <2>1 DEF TypeOK
  <2> HIDE DEF f
  <2> QED
    BY <1>1, <1>2, <1>3, <2>1, <2>2, <2>3, <2>4 DEF Settled
<1>10. ASSUME NEW j \in Job, Persist(j) PROVE Settled(i)'
  <2>1. PICK e \in flight[j] :
          /\ e.st # "running"
          /\ flight' = [flight EXCEPT ![j] = @ \ {e}]
          /\ runs' = [runs EXCEPT ![j] = @ \cup {RecordOf(e)}]
          /\ kept' = [kept EXCEPT ![j] = IF e.st = "ok" THEN @ \cup {e.for} ELSE @]
    BY <1>10 DEF Persist
  <2>2. ticked' = ticked /\ now' = now /\ settled' = settled /\ backfill' = backfill
    BY <1>10 DEF Persist
  <2>3. flight'[i] \in SUBSET flight[i] /\ runs[i] \in SUBSET runs'[i]
    BY <2>1 DEF TypeOK
  <2>4. \A t \in kept'[i] : t \in kept[i] \/ (i = j /\ e.st = "ok" /\ t = e.for)
    BY <2>1 DEF TypeOK
  <2>5. i = j /\ e.st = "ok" =>
          /\ e.for <= now
          /\ RecordOf(e) \in runs'[i] /\ RecordOf(e).ok /\ e.for <= RecordOf(e).fin
    BY <1>3, <2>1 DEF TypeOK, RecordOf, Settled
  <2>6. \A t \in kept'[i] : t <= now /\ \E r \in runs'[i] : r.ok /\ t <= r.fin
    BY <1>3, <2>3, <2>4, <2>5 DEF Settled
  <2> QED
    BY <1>3, <2>2, <2>3, <2>6 DEF Settled
<1>11. ASSUME NEW j \in Job, PersistFails(j) PROVE Settled(i)'
  <2>1. flight'[i] \in SUBSET flight[i]
    BY <1>11 DEF PersistFails, TypeOK
  <2> QED
    BY <1>3, <1>11, <2>1 DEF PersistFails, Settled, history
<1>12. ASSUME NEW c \in Caller, ReplayBegin(c) PROVE Settled(i)'
  BY <1>1, <1>3, <1>12, SettledFrame DEF ReplayBegin, history
<1>13. ASSUME NEW c \in Caller, NEW j \in Job, ReplayJobFails(c, j) PROVE Settled(i)'
  BY <1>1, <1>3, <1>13, SettledFrame DEF ReplayJobFails, history
<1>14. ASSUME NEW j \in Job, Pause(j) \/ Resume(j) PROVE Settled(i)'
  BY <1>1, <1>3, <1>14, SettledFrame DEF Pause, Resume, history
<1>15. ASSUME NEW c \in Caller, NEW j \in Job, ReplayJob(c, j) PROVE Settled(i)'
  <2>1. /\ flight' = flight /\ runs' = runs /\ kept' = kept /\ settled' = settled
        /\ now' = now /\ ticked' = ticked
    BY <1>15 DEF ReplayJob, history
  <2> DEFINE b == [st |-> "ready", last |-> LastSuccessful(runs[j]), todo |-> {}]
  <2>2. \A d \in Caller : backfill'[d][i] = backfill[d][i]
                            \/ (i = j /\ backfill'[d][i] = b)
    BY <1>15 DEF ReplayJob, TypeOK
  <2>3. \A r \in runs[i] : r.ok => r.fin <= LastSuccessful(runs[i])
    BY LastSuccessfulType DEF TypeOK
  <2>4. LastSuccessful(runs[i]) \in Nat
    BY LastSuccessfulType DEF TypeOK, Time
  <2>5. \A t \in settled[i] : t <= LastSuccessful(runs[i])
    BY <1>2, <1>3, <2>3, <2>4 DEF Settled
  <2> QED
    BY <1>3, <2>1, <2>2, <2>5 DEF Settled
<1>16. ASSUME NEW c \in Caller, NEW j \in Job, BackfillStart(c, j) PROVE Settled(i)'
  <2>0. PICK whole \in BOOLEAN :
          backfill' = [backfill EXCEPT ![c][j] =
              [st |-> "going", last |-> backfill[c][j].last,
               todo |-> Latest(MissedOccurrences(j, backfill[c][j].last, now, whole),
                               MaxBackfillRuns)]]
    BY <1>16 DEF BackfillStart
  <2> DEFINE last == backfill[c][j].last
             missed == MissedOccurrences(j, last, now, whole)
             todo == Latest(missed, MaxBackfillRuns)
             b == [st |-> "going", last |-> last, todo |-> todo]
  <2>1. /\ flight' = flight /\ runs' = runs /\ kept' = kept /\ settled' = settled
        /\ now' = now /\ ticked' = ticked /\ backfill[c][j].st = "ready"
    BY <1>16 DEF BackfillStart
  <2>2. \A d \in Caller : backfill'[d][i] = backfill[d][i]
                            \/ (i = j /\ backfill'[d][i] = b)
    BY <2>0 DEF TypeOK
  <2>3. last \in Time /\ last \in Nat /\ now \in Step
    BY DEF TypeOK, Backfill, Time
  <2>4. /\ missed \in SUBSET Step
        /\ last # 0 => \A s \in missed : last < s
        /\ \A s \in missed : s <= now
    BY <2>3, MissedOccurrencesType
  <2>5. todo \in SUBSET missed
    BY <2>4, LatestBound, RecoveryAssumption
  <2>6. i = j => \A t \in settled[i] : t <= last /\ t \in Step
    BY <1>3, <2>1 DEF Settled, TypeOK
  <2> HIDE DEF missed, todo, last
  <2>7. i = j => \A t \in todo : t <= now /\ t \notin settled[i]
    <3> SUFFICES ASSUME i = j, NEW t \in todo, t \in settled[i] PROVE FALSE
      BY <2>4, <2>5
    <3>1. t \in Nat /\ 1 <= t /\ t <= last
      BY <2>6 DEF Step
    <3>2. last # 0
      BY <2>3, <3>1
    <3> QED
      BY <2>3, <2>4, <2>5, <3>1, <3>2
  <2> QED
    BY <1>3, <2>1, <2>2, <2>7 DEF Settled
<1>17. ASSUME NEW c \in Caller, NEW j \in Job, BackfillNext(c, j) PROVE Settled(i)'
  <2> DEFINE b == backfill[c][j]
             t == NextOccurrence(b.todo)
  <2>1. b \in Backfill /\ b.todo # {} /\ b.todo \in SUBSET Nat
    BY <1>17 DEF BackfillNext, TypeOK, Backfill, Step
  <2>2. t \in b.todo
    BY <2>1, MinLeast DEF NextOccurrence
  <2>3. /\ backfill' = [backfill EXCEPT ![c][j].todo = @ \ {t}]
        /\ flight' = [flight EXCEPT ![j] = @ \cup {Begun(t, c)}]
        /\ runs' = runs /\ kept' = kept /\ settled' = settled
        /\ now' = now /\ ticked' = ticked
    BY <1>17 DEF BackfillNext
  <2> HIDE DEF t
  <2>4. \A d \in Caller : /\ backfill'[d][i].todo \in SUBSET backfill[d][i].todo
                          /\ backfill'[d][i].st = backfill[d][i].st
                          /\ backfill'[d][i].last = backfill[d][i].last
    BY <2>3 DEF TypeOK, Backfill
  <2>5. \A e \in flight'[i] : e \in flight[i] \/ (i = j /\ e = Begun(t, c))
    BY <2>3 DEF TypeOK
  <2>6. i = j => t <= now /\ t \notin settled[i]
    BY <1>3, <2>2 DEF Settled
  <2> QED
    BY <1>3, <2>3, <2>4, <2>5, <2>6 DEF Settled, Begun
<1>18. ASSUME NEW c \in Caller, NEW j \in Job, BackfillEnd(c, j) PROVE Settled(i)'
  <2>1. \A d \in Caller : backfill'[d][i] = backfill[d][i] \/ backfill'[d][i] = NoBackfill
    BY <1>18 DEF BackfillEnd, TypeOK
  <2> QED
    BY <1>3, <1>18, <2>1 DEF BackfillEnd, Settled, NoBackfill, history
<1>19. ASSUME NEW j \in Job, ClearHistory(j) PROVE Settled(i)'
  <2>1. CASE i = j
    <3>1. runs'[i] = {} /\ kept'[i] = {} /\ settled'[i] = {}
      BY <1>19, <2>1 DEF ClearHistory, TypeOK
    <3> QED
      BY <1>3, <1>19, <3>1 DEF ClearHistory, Settled, memory
  <2>2. CASE i # j
    BY <1>1, <1>3, <1>19, <2>2, SettledFrame DEF ClearHistory, TypeOK, memory
  <2> QED
    BY <2>1, <2>2
<1> QED
  BY <1>4, <1>5, <1>6, <1>7, <1>8, <1>9, <1>10, <1>11, <1>12, <1>13, <1>14, <1>15,
     <1>16, <1>17, <1>18, <1>19 DEF Next, JobStep, ReplayStep

\* Whatever crashes, fails, is cleared, paused or triggered, and however many
\* Replays run at once, a restarted scheduler does not make again a run it has
\* a stored success of.
THEOREM SettledRunsStand == Spec => []NoSettledRunRepeated
<1>1. SettledInv => NoSettledRunRepeated
  BY DEF SettledInv, Settled, NoSettledRunRepeated
<1> QED
  BY <1>1, InitType, NextType, InitSettled, NextSettled, PTL DEF Spec

-----------------------------------------------------------------------------
(* No missed run is lost, if the process only ever ends when it is idle.   *)

\* Restarts are orderly, no history is cleared, and Replay has read the histories
\* when the loop starts; jobs may fail, be paused and triggered, runs not be saved.
Orderly == Env \cap {"crash", "kill", "early", "clear", "read"} = {}

\* A backfill has step s still to do, or will find it.
Awaits(b, s) == \/ b.st = "ready" /\ b.last # 0 /\ b.last < s
                \/ b.st = "going" /\ s \in b.todo

\* One job.  Before its history is read nothing of it is at work, and all it owes
\* up to the cursor is accounted for.
Untouched(j) ==
    /\ flight[j] = {}
    /\ \A c \in Caller : backfill[c][j].st = "none"
    /\ since[j] # 0 /\ j \notin cut =>
          \A s \in Due[j] : since[j] < s /\ s <= LastSuccessful(runs[j]) => s \in accounted[j]

\* Afterwards, so is all it owes up to the last tick, or a backfill awaits it.
Owing(j) ==
    since[j] # 0 /\ j \notin cut =>
        \A s \in Due[j] : since[j] < s /\ s <= ticked =>
            s \in accounted[j] \/ \E c \in Caller : Awaits(backfill[c][j], s)

\* The ends of executions and of stored runs are not in the future; the loop has
\* ticked ever since an execution ended; the first success is on record.
Timely(j) ==
    /\ \A e \in flight[j] : e.st # "running" =>
          /\ e.fin # 0 /\ e.fin <= now
          /\ \A s \in Due[j] : e.fin < s /\ s <= ticked => s \in accounted[j]
    /\ \A r \in runs[j] : r.fin <= now
    /\ since[j] # 0 => \E r \in runs[j] : r.ok /\ r.fin # 0

Caught(j) ==
    /\ Timely(j)
    /\ j \notin read => Untouched(j)
    /\ j \in read => Owing(j)

CaughtInv ==
    /\ ticked <= now
    /\ up => now <= ticked + 1
    /\ ~ up => read = {}
    /\ \A j \in Job : Caught(j)

LEMMA InitCaught == Init => CaughtInv
  BY DEF Init, CaughtInv, Caught, Timely, Untouched, NoBackfill

\* The loop is never more than one step behind a process that is up.
LEMMA NextClock ==
    TypeOK /\ SettledInv /\ CaughtInv /\ [Next]_vars =>
        ticked' <= now' /\ (up' => now' <= ticked' + 1) /\ (~ up' => read' = {})
<1> SUFFICES ASSUME TypeOK, SettledInv, CaughtInv, [Next]_vars
             PROVE  ticked' <= now' /\ (up' => now' <= ticked' + 1) /\ (~ up' => read' = {})
  OBVIOUS
<1>1. now \in Nat /\ ticked \in Nat /\ ticked <= now /\ (up => now <= ticked + 1)
      /\ (~ up => read = {})
  BY DEF TypeOK, Step, Time, CaughtInv
<1>2. CASE Advance
  BY <1>1, <1>2 DEF Advance, memory
<1>3. CASE Crash
  BY <1>1, <1>3 DEF Crash
<1>4. CASE Boot \/ Tick
  BY <1>1, <1>4 DEF Boot, Tick, memory
<1>5. ASSUME NEW c \in Caller, NEW j \in Job, ReplayJob(c, j)
      PROVE  now' = now /\ ticked' = ticked /\ up' = up /\ up
  BY <1>5 DEF ReplayJob, SettledInv, DownEmpty
<1>6. ASSUME now' = now, ticked' = ticked, up' = up, up \/ read' = read
      PROVE  ticked' <= now' /\ (up' => now' <= ticked' + 1) /\ (~ up' => read' = {})
  BY <1>1, <1>6
<1>7. CASE UNCHANGED vars
  BY <1>6, <1>7 DEF vars, memory
<1>8. ASSUME NEW j \in Job, TriggerNow(j) \/ JobStep(j) \/ PersistFails(j) \/ Pause(j)
                            \/ Resume(j) \/ ClearHistory(j)
      PROVE  now' = now /\ ticked' = ticked /\ up' = up /\ read' = read
  BY <1>8 DEF TriggerNow, JobStep, Finish, Persist, PersistFails, Pause, Resume,
              ClearHistory, memory
<1>9. ASSUME NEW c \in Caller, NEW j \in Job, ReplayJobFails(c, j)
             \/ BackfillStart(c, j) \/ BackfillNext(c, j) \/ BackfillEnd(c, j)
      PROVE  now' = now /\ ticked' = ticked /\ up' = up /\ read' = read
  BY <1>9 DEF ReplayJobFails, BackfillStart, BackfillNext, BackfillEnd
<1>10. ASSUME NEW c \in Caller, ReplayBegin(c)
       PROVE  now' = now /\ ticked' = ticked /\ up' = up /\ read' = read
  BY <1>10 DEF ReplayBegin
<1> QED
  BY <1>2, <1>3, <1>4, <1>5, <1>6, <1>7, <1>8, <1>9, <1>10 DEF Next, ReplayStep

\* The cursor is not in the future, and a job with a success has one.
LEMMA CursorWithin ==
    ASSUME NEW R \in SUBSET RunRecord, NEW n \in Nat
    PROVE  /\ (\A r \in R : r.fin <= n) => LastSuccessful(R) <= n
           /\ (\E r \in R : r.ok /\ r.fin # 0) => LastSuccessful(R) # 0
<1> DEFINE S == {0} \cup {r.fin : r \in {s \in R : s.ok}}
<1>1. S \in SUBSET (0 .. MaxTime) /\ S # {} /\ MaxTime \in Nat
  BY RecoveryAssumption DEF RunRecord, Time
<1>2. LastSuccessful(R) \in S
  BY <1>1, MaxGreatest DEF LastSuccessful
<1>3. (\A r \in R : r.fin <= n) => LastSuccessful(R) <= n
  BY <1>2
<1>4. ASSUME NEW r \in R, r.ok, r.fin # 0 PROVE LastSuccessful(R) # 0
  <2>1. r.fin <= LastSuccessful(R) /\ LastSuccessful(R) \in Nat /\ r.fin \in Nat
    BY <1>4, LastSuccessfulType DEF RunRecord, Time
  <2> QED
    BY <1>4, <2>1
<1> QED
  BY <1>3, <1>4

\* A due step after the cursor is among the latest missed ones or beyond a
\* documented bound, unless the scan begins in mid-minute.
LEMMA FoundOrExcused ==
    ASSUME NEW j \in Job, NEW last \in Time, last # 0, NEW t \in Step,
           NEW s \in Due[j], last < s, s <= t,
           NEW whole, ~MidMinute(j, last, t, whole)
    PROVE  \/ s \in Latest(MissedOccurrences(j, last, t, whole), MaxBackfillRuns)
           \/ s \in BeyondBounds(j, last, t)
<1> DEFINE missed == {u \in Due[j] : last # 0 /\ last < u /\ u <= t}
           found == MissedOccurrences(j, last, t, whole)
           above == {u \in found : s < u}
           later == {u \in missed : s < u}
<1>1. s \in missed /\ found \subseteq missed /\ missed \in SUBSET Step
  BY RecoveryAssumption DEF MissedOccurrences
<1>2. s \in found \/ s + MaxBackfillScans < t
  BY RecoveryAssumption DEF MissedOccurrences, Step, Time
<1>3. IsFiniteSet(Step)
  BY RecoveryAssumption, FS_Interval DEF Step
<1>4. /\ IsFiniteSet(later) /\ Cardinality(above) <= Cardinality(later)
      /\ Cardinality(above) \in Nat /\ Cardinality(later) \in Nat
  <2>1. above \subseteq later /\ later \subseteq Step
    BY <1>1
  <2> HIDE DEF above, later
  <2>2. IsFiniteSet(later)
    BY <1>3, <2>1, FS_Subset
  <2> QED
    BY <2>1, <2>2, FS_Subset, FS_CardinalityType
<1>5. s \in found /\ Cardinality(above) < MaxBackfillRuns => s \in Latest(found, MaxBackfillRuns)
  BY DEF Latest
<1>6. s + MaxBackfillScans < t \/ Cardinality(later) >= MaxBackfillRuns
        => s \in BeyondBounds(j, last, t)
  BY <1>1 DEF BeyondBounds
<1> HIDE DEF missed, above, later
<1>7. Cardinality(above) < MaxBackfillRuns \/ Cardinality(later) >= MaxBackfillRuns
  BY <1>4, RecoveryAssumption
<1> QED
  BY <1>2, <1>5, <1>6, <1>7

\* Caught(i) is kept when nothing it speaks of but the clock changes.
LEMMA CaughtFrame ==
    ASSUME TypeOK, NEW i \in Job, Caught(i), now' \in Nat, now <= now', ticked' = ticked,
           flight'[i] = flight[i], runs'[i] = runs[i], since'[i] = since[i],
           accounted[i] \subseteq accounted'[i], i \in read' <=> i \in read,
           cut \subseteq cut',
           \A c \in Caller : backfill'[c][i] = backfill[c][i]
    PROVE  Caught(i)'
<1>1. /\ now \in Nat /\ \A r \in runs[i] : r.fin \in Nat
      /\ \A e \in flight[i] : e.fin \in Nat
  BY DEF TypeOK, RunRecord, Execution, Step, Time
<1>2. Timely(i)'
  BY <1>1 DEF Caught, Timely
<1>3. i \notin read' => Untouched(i)'
  BY DEF Caught, Untouched
<1>4. i \in read' => Owing(i)'
  BY DEF Caught, Owing, Awaits
<1> QED
  BY <1>2, <1>3, <1>4 DEF Caught

LEMMA NextCaught ==
    ASSUME Orderly, TypeOK, TypeOK', SettledInv, OrderInv, CaughtInv, [Next]_vars
    PROVE  CaughtInv'
<1> SUFFICES ASSUME NEW i \in Job PROVE Caught(i)'
  BY NextClock DEF CaughtInv
<1>1. /\ now \in Nat /\ now' \in Nat /\ ticked \in Nat /\ ticked <= now
      /\ up => now <= ticked + 1
      /\ ~ up => read = {}
  BY DEF TypeOK, Step, Time, CaughtInv
<1>2. /\ \A e \in flight[i] : e \in Execution /\ e.fin \in Nat
      /\ \A r \in runs[i] : r \in RunRecord /\ r.fin \in Nat
      /\ since[i] \in Nat
      /\ Due[i] \subseteq Step /\ \A s \in Due[i] : s \in Nat
  BY RecoveryAssumption DEF TypeOK, Execution, RunRecord, Step, Time
<1>3. Caught(i) /\ Timely(i) /\ DownEmpty
  BY DEF CaughtInv, Caught, SettledInv
<1>4. \A c \in Caller : InOrder(c, i)
  BY DEF OrderInv
<1>5. CASE Advance \/ UNCHANGED vars
  BY <1>1, <1>3, <1>5, CaughtFrame DEF Advance, vars, memory, history
<1>6. CASE Crash
  <2>1. /\ Idle /\ read' = {} /\ flight'[i] = {} /\ runs' = runs /\ since' = since
        /\ cut' = cut /\ accounted' = accounted /\ now' = now /\ ticked' = ticked
        /\ \A c \in Caller : backfill'[c][i] = NoBackfill
    BY <1>6 DEF Crash, Orderly, history
  <2>2. /\ ticked = now /\ \A c \in Caller : backfill[c][i].st = "none"
    BY <2>1 DEF Idle, LoopIdle
  <2>3. Timely(i)'
    BY <1>3, <2>1 DEF Timely
  <2>4. LastSuccessful(runs[i]) <= ticked /\ LastSuccessful(runs[i]) \in Nat
    <3>1. runs[i] \in SUBSET RunRecord /\ \A r \in runs[i] : r.fin <= now
      BY <1>3 DEF Timely, TypeOK
    <3>2. LastSuccessful(runs[i]) <= now
      BY <1>1, <3>1, CursorWithin
    <3> QED
      BY <2>2, <3>1, <3>2, LastSuccessfulType DEF Time
  <2>5. ASSUME since[i] # 0, i \notin cut,
               NEW s \in Due[i], since[i] < s, s <= LastSuccessful(runs[i])
        PROVE  s \in accounted[i]
    <3>1. CASE i \notin read
      BY <1>3, <2>5, <3>1 DEF Caught, Untouched
    <3>2. CASE i \in read
      <4>1. s <= ticked
        BY <1>1, <1>2, <2>4, <2>5
      <4>2. \A c \in Caller : ~ Awaits(backfill[c][i], s)
        BY <2>2 DEF Awaits
      <4> QED
        BY <1>3, <2>5, <3>2, <4>1, <4>2 DEF Caught, Owing
    <3> QED
      BY <3>1, <3>2
  <2>6. Untouched(i)'
    BY <2>1, <2>5 DEF Untouched, NoBackfill
  <2> QED
    BY <2>1, <2>3, <2>6 DEF Caught
<1>7. CASE Boot
  <2>1. /\ flight'[i] = {} /\ i \notin read' /\ i \notin read /\ runs' = runs /\ since' = since
        /\ cut' = cut /\ accounted' = accounted /\ now' = now /\ flight' = flight /\ backfill' = backfill
    BY <1>1, <1>3, <1>7 DEF Boot, memory, DownEmpty
  <2>2. Timely(i)'
    BY <1>3, <2>1 DEF Timely
  <2>3. Untouched(i)'
    BY <1>3, <2>1 DEF Caught, Untouched
  <2> QED
    BY <2>1, <2>2, <2>3 DEF Caught
<1>8. CASE Tick
  <2>1. /\ i \in read /\ read' = read /\ up /\ ticked' = now /\ now' = now
        /\ runs' = runs /\ since' = since /\ cut' = cut /\ backfill' = backfill
    BY <1>8 DEF Tick, ReplayedFirst, Orderly
  <2>2. \A e \in flight'[i] : e \in flight[i] \/ e.st = "running"
    BY <1>8 DEF Tick, TypeOK, Begun
  <2>3. /\ accounted[i] \subseteq accounted'[i]
        /\ now \in Due[i] => now \in accounted'[i]
    BY <1>8 DEF Tick, TypeOK, DueNow
  <2>4. \A s \in Due[i] : s <= now => s <= ticked \/ s = now
    BY <1>1, <1>2, <2>1
  <2>5. Timely(i)'
    BY <1>3, <2>1, <2>2, <2>3, <2>4 DEF Timely
  <2>6. Owing(i)'
    BY <1>3, <2>1, <2>3, <2>4 DEF Caught, Owing, Awaits
  <2> QED
    BY <2>1, <2>5, <2>6 DEF Caught
<1>9. ASSUME NEW j \in Job, TriggerNow(j) PROVE Caught(i)'
  <2>1. /\ i \in read /\ read' = read /\ ticked' = ticked /\ now' = now /\ accounted' = accounted
        /\ runs' = runs /\ since' = since /\ cut' = cut /\ backfill' = backfill
    BY <1>9 DEF TriggerNow, ReplayedFirst, Orderly, history
  <2>2. \A e \in flight'[i] : e \in flight[i] \/ e.st = "running"
    BY <1>9 DEF TriggerNow, TypeOK, Begun
  <2>3. Timely(i)'
    BY <1>3, <2>1, <2>2 DEF Timely
  <2>4. Owing(i)'
    BY <1>3, <2>1 DEF Caught, Owing, Awaits
  <2> QED
    BY <2>1, <2>3, <2>4 DEF Caught
<1>10. ASSUME NEW j \in Job, Finish(j) PROVE Caught(i)'
  <2>1. PICK e \in flight[j], result \in {"ok", "failed"} :
          flight' = [flight EXCEPT ![j] =
                        (@ \ {e}) \cup {[e EXCEPT !.st = result, !.fin = now]}]
    BY <1>10 DEF Finish
  <2> DEFINE f == [e EXCEPT !.st = result, !.fin = now]
  <2>2. f.fin = now /\ now # 0
    BY DEF TypeOK, Execution, Step
  <2>3. /\ ticked' = ticked /\ now' = now /\ read' = read /\ accounted' = accounted
        /\ runs' = runs /\ since' = since /\ cut' = cut /\ backfill' = backfill
    BY <1>10 DEF Finish, history
  <2>4. CASE i = j
    <3>1. \A g \in flight'[i] : g \in flight[i] \/ g = f
      BY <2>1, <2>4 DEF TypeOK
    <3> HIDE DEF f
    <3>2. \A s \in Due[i] : ~ (now < s /\ s <= ticked)
      BY <1>1, <1>2
    <3>3. Timely(i)'
      BY <1>1, <1>3, <2>2, <2>3, <3>1, <3>2 DEF Timely
    <3>4. i \in read
      BY <1>3, <2>1, <2>4 DEF Caught, Untouched
    <3>5. Owing(i)'
      BY <1>3, <2>3, <3>4 DEF Caught, Owing, Awaits
    <3> QED
      BY <2>3, <3>3, <3>4, <3>5 DEF Caught
  <2>5. CASE i # j
    <3>1. flight'[i] = flight[i]
      BY <2>1, <2>5 DEF TypeOK
    <3> QED
      BY <1>1, <1>3, <2>3, <3>1, CaughtFrame
  <2> QED
    BY <2>4, <2>5
<1>11. ASSUME NEW j \in Job, Persist(j) PROVE Caught(i)'
  <2>1. PICK e \in flight[j] :
          /\ e.st # "running"
          /\ flight' = [flight EXCEPT ![j] = @ \ {e}]
          /\ runs' = [runs EXCEPT ![j] = @ \cup {RecordOf(e)}]
          /\ since' = [since EXCEPT ![j] = IF @ = 0 /\ e.st = "ok" THEN e.fin ELSE @]
    BY <1>11 DEF Persist
  <2>2. cut' = cut /\ ticked' = ticked /\ now' = now /\ read' = read /\ accounted' = accounted
        /\ backfill' = backfill
    BY <1>11 DEF Persist
  <2>3. CASE i = j
    <3>1. /\ flight'[i] \subseteq flight[i] /\ runs'[i] = runs[i] \cup {RecordOf(e)}
          /\ \/ since'[i] = since[i] 
             \/ since[i] = 0 /\ e.st = "ok" /\ since'[i] = e.fin
      BY <2>1, <2>3 DEF TypeOK
    <3>2. RecordOf(e).fin = e.fin /\ (e.st = "ok" => RecordOf(e).ok)
      BY DEF RecordOf
    <3>3. /\ e.fin # 0 /\ e.fin <= now
          /\ \A s \in Due[i] : e.fin < s /\ s <= ticked => s \in accounted[i]
      BY <1>3, <2>1, <2>3 DEF Timely
    <3>4. Timely(i)'
      BY <1>3, <2>2, <3>1, <3>2, <3>3 DEF Timely
    <3>5. i \in read
      BY <1>3, <2>1, <2>3 DEF Caught, Untouched
    <3>6. Owing(i)'
      BY <1>3, <2>2, <3>1, <3>3, <3>5 DEF Caught, Owing, Awaits
    <3> QED
      BY <2>2, <3>4, <3>5, <3>6 DEF Caught
  <2>4. CASE i # j
    <3>1. flight'[i] = flight[i] /\ runs'[i] = runs[i] /\ since'[i] = since[i]
      BY <2>1, <2>4 DEF TypeOK
    <3> QED
      BY <1>1, <1>3, <2>2, <3>1, CaughtFrame
  <2> QED
    BY <2>3, <2>4
<1>12. ASSUME NEW j \in Job, PersistFails(j) PROVE Caught(i)'
  <2>1. /\ ticked' = ticked /\ now' = now /\ read' = read /\ accounted' = accounted
        /\ runs' = runs /\ since' = since /\ cut' = cut /\ backfill' = backfill
        /\ flight'[i] \subseteq flight[i]
    BY <1>12 DEF PersistFails, TypeOK, history
  <2> QED
    BY <1>3, <2>1 DEF Caught, Timely, Untouched, Owing, Awaits
<1>13. ASSUME NEW c \in Caller, ReplayBegin(c) PROVE Caught(i)'
  BY <1>1, <1>3, <1>13, CaughtFrame DEF ReplayBegin, history
<1>14. ASSUME NEW c \in Caller, NEW j \in Job, ReplayJobFails(c, j) PROVE Caught(i)'
  BY <1>1, <1>3, <1>14, CaughtFrame DEF ReplayJobFails, history
<1>15. ASSUME NEW j \in Job, Pause(j) \/ Resume(j) PROVE Caught(i)'
  BY <1>1, <1>3, <1>15, CaughtFrame DEF Pause, Resume, history
<1>16. ASSUME NEW c \in Caller, NEW j \in Job, ReplayJob(c, j) PROVE Caught(i)'
  <2> DEFINE last == LastSuccessful(runs[j])
             b == [st |-> "ready", last |-> last, todo |-> {}]
  <2>1. /\ ticked' = ticked /\ now' = now /\ accounted' = accounted /\ read' = read \cup {j}
        /\ runs' = runs /\ since' = since /\ cut' = cut /\ flight' = flight
        /\ j \in replaying[c] /\ backfill' = [backfill EXCEPT ![c][j] = b]
    BY <1>16 DEF ReplayJob, history
  <2>2. CASE i = j
    <3>1. backfill[c][i].st = "none"
      BY <1>4, <2>1, <2>2 DEF InOrder
    <3>2. /\ backfill'[c][i] = b
          /\ \A d \in Caller : d # c => backfill'[d][i] = backfill[d][i]
      BY <2>1, <2>2 DEF TypeOK
    <3>3. since[i] # 0 => last # 0 /\ last \in Nat
      BY <1>3, <2>2, CursorWithin, LastSuccessfulType DEF Timely, TypeOK, Time
    <3>4. b.st = "ready" /\ b.last = last
      OBVIOUS
    <3> HIDE DEF b, last
    <3>5. ASSUME since[i] # 0, i \notin cut, NEW s \in Due[i], since[i] < s, s <= ticked
          PROVE  s \in accounted[i] \/ \E d \in Caller : Awaits(backfill'[d][i], s)
      <4>1. CASE i \in read
        <5>1. s \in accounted[i] \/ \E d \in Caller : Awaits(backfill[d][i], s)
          BY <1>3, <3>5, <4>1 DEF Caught, Owing
        <5>2. ~ Awaits(backfill[c][i], s)
          BY <3>1 DEF Awaits
        <5> QED
          BY <3>2, <5>1, <5>2
      <4>2. CASE i \notin read
        <5>1. s <= last => s \in accounted[i]
          BY <1>3, <2>2, <3>5, <4>2 DEF Caught, Untouched, last
        <5>2. ~ (s <= last) => last < s
          BY <1>2, <3>3, <3>5
        <5>3. last < s => Awaits(backfill'[c][i], s)
          BY <3>2, <3>3, <3>4, <3>5 DEF Awaits
        <5> QED
          BY <5>1, <5>2, <5>3
      <4> QED
        BY <4>1, <4>2
    <3>6. Owing(i)'
      BY <2>1, <3>5 DEF Owing, Awaits
    <3>7. Timely(i)'
      BY <1>3, <2>1 DEF Timely
    <3> QED
      BY <2>1, <2>2, <3>6, <3>7 DEF Caught
  <2>3. CASE i # j
    <3>1. \A d \in Caller : backfill'[d][i] = backfill[d][i]
      BY <2>1, <2>3 DEF TypeOK
    <3> QED
      BY <1>1, <1>3, <2>1, <2>3, <3>1, CaughtFrame
  <2> QED
    BY <2>2, <2>3
<1>17. ASSUME NEW c \in Caller, NEW j \in Job, BackfillStart(c, j) PROVE Caught(i)'
  <2>0. PICK whole \in BOOLEAN :
          /\ backfill' = [backfill EXCEPT ![c][j] =
                 [st |-> "going", last |-> backfill[c][j].last,
                  todo |-> Latest(MissedOccurrences(j, backfill[c][j].last, now, whole),
                                  MaxBackfillRuns)]]
          /\ cut' = IF MidMinute(j, backfill[c][j].last, now, whole) THEN cut \cup {j} ELSE cut
    BY <1>17 DEF BackfillStart
  <2> DEFINE last == backfill[c][j].last
             todo == Latest(MissedOccurrences(j, last, now, whole), MaxBackfillRuns)
             beyond == BeyondBounds(j, last, now)
             b == [st |-> "going", last |-> last, todo |-> todo]
  <2>1. /\ ticked' = ticked /\ now' = now /\ read' = read /\ runs' = runs /\ since' = since
        /\ flight' = flight /\ backfill[c][j].st = "ready"
        /\ backfill' = [backfill EXCEPT ![c][j] = b]
        /\ accounted' = [accounted EXCEPT ![j] = @ \cup beyond]
        /\ cut \subseteq cut' /\ (j \notin cut' => ~MidMinute(j, last, now, whole))
    BY <1>17, <2>0 DEF BackfillStart
  <2>2. CASE i = j
    <3>1. /\ backfill'[c][i] = b
          /\ \A d \in Caller : d # c => backfill'[d][i] = backfill[d][i]
          /\ accounted'[i] = accounted[i] \cup beyond
      BY <2>1, <2>2 DEF TypeOK
    <3>2. i \in read
      BY <1>3, <2>1, <2>2 DEF Caught, Untouched
    <3>3. last \in Time /\ now \in Step
      BY DEF TypeOK, Backfill
    <3>4. ASSUME i \notin cut', NEW s \in Due[i], s <= ticked, Awaits(backfill[c][i], s)
          PROVE  s \in todo \/ s \in beyond
      <4>1. last # 0 /\ last < s
        BY <2>1, <2>2, <3>4 DEF Awaits
      <4>2. s <= now
        BY <1>1, <1>2, <3>4
      <4> QED
        BY <2>1, <2>2, <3>3, <3>4, <4>1, <4>2, FoundOrExcused
    <3>5. b.st = "going" /\ b.todo = todo
      OBVIOUS
    <3> HIDE DEF last, todo, beyond, b
    <3>6. ASSUME since[i] # 0, i \notin cut', NEW s \in Due[i], since[i] < s, s <= ticked
          PROVE  s \in accounted'[i] \/ \E d \in Caller : Awaits(backfill'[d][i], s)
      <4>1. s \in accounted[i] \/ \E d \in Caller : Awaits(backfill[d][i], s)
        BY <1>3, <2>1, <3>2, <3>6 DEF Caught, Owing
      <4>2. s \in todo => Awaits(backfill'[c][i], s)
        BY <3>1, <3>5 DEF Awaits
      <4> QED
        BY <3>1, <3>4, <3>6, <4>1, <4>2
    <3>7. Owing(i)'
      BY <2>1, <3>6 DEF Owing, Awaits
    <3>8. Timely(i)'
      BY <1>3, <2>1, <3>1 DEF Timely
    <3> QED
      BY <2>1, <3>2, <3>7, <3>8 DEF Caught
  <2>3. CASE i # j
    <3>1. accounted'[i] = accounted[i] /\ \A d \in Caller : backfill'[d][i] = backfill[d][i]
      BY <2>1, <2>3 DEF TypeOK
    <3> QED
      BY <1>1, <1>3, <2>1, <3>1, CaughtFrame
  <2> QED
    BY <2>2, <2>3
<1>18. ASSUME NEW c \in Caller, NEW j \in Job, BackfillNext(c, j) PROVE Caught(i)'
  <2> DEFINE t == NextOccurrence(backfill[c][j].todo)
  <2>1. /\ ticked' = ticked /\ now' = now /\ read' = read /\ runs' = runs /\ since' = since /\ cut' = cut
        /\ backfill[c][j].st = "going"
        /\ backfill' = [backfill EXCEPT ![c][j].todo = @ \ {t}]
        /\ flight' = [flight EXCEPT ![j] = @ \cup {Begun(t, c)}]
        /\ accounted' = [accounted EXCEPT ![j] = @ \cup {t}]
    BY <1>18 DEF BackfillNext
  <2> HIDE DEF t
  <2>2. CASE i = j
    <3>1. /\ backfill'[c][i].st = "going"
          /\ backfill'[c][i].todo = backfill[c][i].todo \ {t}
          /\ \A d \in Caller : d # c => backfill'[d][i] = backfill[d][i]
          /\ accounted'[i] = accounted[i] \cup {t}
          /\ flight'[i] = flight[i] \cup {Begun(t, c)}
      BY <2>1, <2>2 DEF TypeOK, Backfill
    <3>2. i \in read
      BY <1>3, <2>1, <2>2 DEF Caught, Untouched
    <3>3. \A e \in flight'[i] : e \in flight[i] \/ e.st = "running"
      BY <3>1 DEF Begun
    <3>4. Timely(i)'
      BY <1>3, <2>1, <3>1, <3>3 DEF Timely
    <3>5. ASSUME since[i] # 0, i \notin cut, NEW s \in Due[i], since[i] < s, s <= ticked
          PROVE  s \in accounted'[i] \/ \E d \in Caller : Awaits(backfill'[d][i], s)
      <4>1. s \in accounted[i] \/ \E d \in Caller : Awaits(backfill[d][i], s)
        BY <1>3, <3>2, <3>5 DEF Caught, Owing
      <4>2. Awaits(backfill[c][i], s) => s = t \/ Awaits(backfill'[c][i], s)
        BY <2>1, <2>2, <3>1 DEF Awaits
      <4> QED
        BY <3>1, <4>1, <4>2
    <3>6. Owing(i)'
      BY <2>1, <3>5 DEF Owing, Awaits
    <3> QED
      BY <2>1, <3>2, <3>4, <3>6 DEF Caught
  <2>3. CASE i # j
    <3>1. /\ accounted'[i] = accounted[i] /\ flight'[i] = flight[i]
          /\ \A d \in Caller : backfill'[d][i] = backfill[d][i]
      BY <2>1, <2>3 DEF TypeOK
    <3>2. /\ runs'[i] = runs[i] /\ since'[i] = since[i] /\ now <= now'
          /\ i \in read' <=> i \in read /\ cut' = cut
          /\ accounted[i] \subseteq accounted'[i]
      BY <1>1, <2>1, <3>1
    <3> QED
      BY <1>1, <1>3, <2>1, <3>1, <3>2, CaughtFrame
  <2> QED
    BY <2>2, <2>3
<1>19. ASSUME NEW c \in Caller, NEW j \in Job, BackfillEnd(c, j) PROVE Caught(i)'
  <2>1. /\ ticked' = ticked /\ now' = now /\ read' = read /\ runs' = runs /\ since' = since /\ cut' = cut
        /\ flight' = flight /\ accounted' = accounted
        /\ backfill[c][j].st = "going" /\ backfill[c][j].todo = {}
        /\ backfill' = [backfill EXCEPT ![c][j] = NoBackfill]
    BY <1>19 DEF BackfillEnd, history
  <2>2. CASE i = j
    <3>1. i \in read
      BY <1>3, <2>1, <2>2 DEF Caught, Untouched
    <3>2. \A d \in Caller : d # c => backfill'[d][i] = backfill[d][i]
      BY <2>1, <2>2 DEF TypeOK
    <3>3. \A s : ~ Awaits(backfill[c][i], s)
      BY <2>1, <2>2 DEF Awaits
    <3>4. Timely(i)'
      BY <1>3, <2>1 DEF Timely
    <3>5. ASSUME since[i] # 0, i \notin cut, NEW s \in Due[i], since[i] < s, s <= ticked
          PROVE  s \in accounted[i] \/ \E d \in Caller : Awaits(backfill'[d][i], s)
      BY <1>3, <3>1, <3>2, <3>3, <3>5 DEF Caught, Owing
    <3>6. Owing(i)'
      BY <2>1, <3>5 DEF Owing, Awaits
    <3> QED
      BY <2>1, <3>1, <3>4, <3>6 DEF Caught
  <2>3. CASE i # j
    <3>1. \A d \in Caller : backfill'[d][i] = backfill[d][i]
      BY <2>1, <2>3 DEF TypeOK
    <3> QED
      BY <1>1, <1>3, <2>1, <3>1, CaughtFrame
  <2> QED
    BY <2>2, <2>3
<1>20. ASSUME NEW j \in Job, ClearHistory(j) PROVE Caught(i)'
  BY <1>20 DEF ClearHistory, Orderly
<1> QED
  BY <1>5, <1>6, <1>7, <1>8, <1>9, <1>10, <1>11, <1>12, <1>13, <1>14, <1>15, <1>16,
     <1>17, <1>18, <1>19, <1>20 DEF Next, JobStep, ReplayStep

\* Restarted in an orderly way, and with the histories read before the loop starts,
\* the scheduler loses no missed run but what README's two bounds leave out, with
\* any number of jobs and of Replays at once and any bounds, whatever jobs fail, are
\* paused or triggered and whichever runs cannot be saved: once a job is recovered,
\* every step it was due at since its first stored success has been executed or
\* fell under a pause or a bound.  Of a cron job whose downtime once exceeded the
\* window, so that its scan began in mid-minute, nothing is claimed; a read that
\* fails, a crash, a loop ahead of Replay and a cleared history are excluded by
\* Orderly (README.md:249-251; Replay, backfill, missedOccurrences, execute).
THEOREM MissedRunsMade == Orderly => (Spec => []NoMissedRunLost)
<1> SUFFICES ASSUME Orderly PROVE Spec => []NoMissedRunLost
  OBVIOUS
<1> DEFINE I == TypeOK /\ OrderInv /\ SettledInv /\ CaughtInv
<1>1. Init => I
  BY InitType, InitOrder, InitSettled, InitCaught
<1>2. I /\ [Next]_vars => I'
  <2> SUFFICES ASSUME I, [Next]_vars PROVE I'
    OBVIOUS
  <2>1. TypeOK'
    BY NextType
  <2> QED
    BY <2>1, NextOrder, NextSettled, NextCaught
<1>3. I => NoMissedRunLost
  <2> SUFFICES ASSUME I, NEW j \in Job \ cut, Recovered(j), since[j] # 0, NEW s \in Due[j],
                      since[j] < s, s <= ticked
               PROVE  s \in accounted[j]
    BY DEF NoMissedRunLost
  <2>1. \A c \in Caller : ~ Awaits(backfill[c][j], s)
    BY DEF Recovered, Awaits
  <2>2. Owing(j)
    BY DEF CaughtInv, Caught, Recovered
  <2> QED
    BY <2>1, <2>2 DEF Owing
<1> HIDE DEF I
<1> QED
  BY <1>1, <1>2, <1>3, PTL DEF Spec
=============================================================================
