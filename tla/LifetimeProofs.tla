---------------------------- MODULE LifetimeProofs ----------------------------
(***************************************************************************)
(* Proofs about the life of a persistent job, for every calendar, zone,    *)
(* host clock, schedule and bound, any number of processes, outages and    *)
(* cleared histories.                                                      *)
(***************************************************************************)
EXTENDS Lifetime, CadenceProofs, FiniteSetTheorems

Runs == db["runs"]

\* The runs on record are in the order they ended in, and none was for an
\* instant after its end.
Chronicle ==
    /\ \A i \in 1 .. Len(Runs) :
           Runs[i].for <= Runs[i].fin /\ Never < Runs[i].fin /\ Runs[i].fin <= now
    /\ \A i, k \in 1 .. Len(Runs) : i <= k => Runs[i].fin <= Runs[k].fin

WellFormed == TypeOK /\ Chronicle

Typed(d) == DOMAIN d = Key /\ \A k \in Key : d[k] \in Seq(ValueOf[k])

-----------------------------------------------------------------------------
(* The store.                                                              *)

\* What the keys hold.
LEMMA Values ==
    /\ "schedule" \in Key /\ "index" \in Key /\ "runs" \in Key
    /\ \A k \in Key : k = "schedule" \/ k = "index" \/ k = "runs"
    /\ ValueOf["schedule"] = Schedules
    /\ ValueOf["index"] = {"job"}
    /\ ValueOf["runs"] = Run
BY LifetimeAssumption DEF ValueOf

\* CreateMany appends to one list, or changes nothing.
LEMMA Appends ==
    ASSUME NEW d, Typed(d), NEW k \in Key, NEW v \in ValueOf[k]
    PROVE  /\ Typed(CreateMany(d, k, v))
           /\ \A j \in Key : j # k => CreateMany(d, k, v)[j] = d[j]
           /\ Answers => CreateMany(d, k, v)[k] = Append(d[k], v)
           /\ ~Answers => CreateMany(d, k, v) = d
<1>1. CASE Answers
  <2> DEFINE e == [d EXCEPT ![k] = Append(d[k], v)]
  <2>1. DOMAIN e = Key /\ \A j \in Key : e[j] = IF j = k THEN Append(d[k], v) ELSE d[j]
    BY DEF Typed
  <2>2. CreateMany(d, k, v) = e
    BY <1>1 DEF CreateMany
  <2>3. Append(d[k], v) \in Seq(ValueOf[k])
    BY DEF Typed
  <2> HIDE DEF e
  <2> QED
    BY <1>1, <2>1, <2>2, <2>3 DEF Typed
<1>2. CASE ~Answers
  BY <1>2 DEF CreateMany
<1> QED
  BY <1>1, <1>2

\* Sync leaves the runs alone.
LEMMA SyncLeavesRuns ==
    ASSUME TypeOK
    PROVE  /\ Typed(Synced(db))
           /\ Synced(db)["runs"] = Runs
           /\ ~Answers => Synced(db) = db
<1> DEFINE e == Create(db, "schedule", sched)
<1>1. Typed(db) /\ sched \in Schedules
  BY DEF TypeOK, StoreTypeOK, Typed
<1>2. Typed(e) /\ e["runs"] = Runs /\ (~Answers => e = db)
  <2>1. CASE Answers
    <3> DEFINE f == [db EXCEPT !["schedule"] = <<sched>>]
    <3>1. /\ DOMAIN f = Key
          /\ \A j \in Key : f[j] = IF j = "schedule" THEN <<sched>> ELSE db[j]
      BY <1>1, Values DEF Typed
    <3>2. e = f
      BY <2>1 DEF Create
    <3>3. <<sched>> \in Seq(Schedules)
      BY <1>1
    <3> HIDE DEF f, e
    <3> QED
      BY <1>1, <2>1, <3>1, <3>2, <3>3, Values DEF Typed, Runs
  <2>2. CASE ~Answers
    BY <1>1, <2>2 DEF Create, Runs
  <2> QED
    BY <2>1, <2>2
<1>3. /\ Typed(CreateMany(e, "index", "job"))
      /\ CreateMany(e, "index", "job")["runs"] = e["runs"]
      /\ ~Answers => CreateMany(e, "index", "job") = e
  <2> HIDE DEF e
  <2> QED BY <1>2, Values, Appends
<1>4. Synced(db) = IF Get(e, "index") = <<>> THEN CreateMany(e, "index", "job") ELSE e
  BY DEF Synced
<1> HIDE DEF e
<1> QED
  BY <1>2, <1>3, <1>4

\* The run that an execution for t puts on record, if it is saved.
Saved(t) ==
    \/ Answers /\ Runs' = Append(Runs, [for |-> t, fin |-> now])
    \/ ~Answers /\ Runs' = Runs

\* An execution appends its run to the record, if the store answers.
LEMMA ExecuteEffect ==
    ASSUME TypeOK, NEW t \in Time, Execute(t)
    PROVE  Typed(db') /\ Saved(t)
<1>1. Typed(db) /\ now \in Time
  BY DEF TypeOK, StoreTypeOK, Typed
<1>2. [for |-> t, fin |-> now] \in Run
  BY <1>1 DEF Run
<1> QED
  BY <1>1, <1>2, Values, Appends DEF Execute, Runs, Saved

\* The runs on record are runs.
LEMMA RunsTyped ==
    ASSUME TypeOK
    PROVE  /\ Runs \in Seq(Run) /\ Len(Runs) \in Nat
           /\ \A i \in 1 .. Len(Runs) : /\ Runs[i] \in Run
                                        /\ Runs[i].for \in Nat /\ Runs[i].fin \in Nat
                                        /\ Runs[i].fin \in Time
<1>1. Runs \in Seq(Run)
  BY Values DEF TypeOK, StoreTypeOK, Runs
<1>2. \A r \in Run : r.for \in Nat /\ r.fin \in Nat /\ r.fin \in Time
  BY DEF Run, Time
<1> QED
  BY <1>1, <1>2

\* The cursor is the end of the last run on record (lastSuccessful).
LEMMA Cursor ==
    ASSUME WellFormed
    PROVE  /\ LastSuccessful \in Time /\ LastSuccessful \in Nat /\ LastSuccessful <= now
           /\ Len(Runs) = 0 <=> LastSuccessful = Never
           /\ \A i \in 1 .. Len(Runs) : Runs[i].fin <= LastSuccessful
<1> DEFINE F == {Never} \cup {r.fin : r \in Stored}
           last == IF Len(Runs) = 0 THEN Never ELSE Runs[Len(Runs)].fin
<1>1. Len(Runs) \in Nat
  BY RunsTyped DEF WellFormed
<1>2. \A x : x \in F <=> x = Never \/ \E i \in 1 .. Len(Runs) : x = Runs[i].fin
  BY DEF Stored, Runs
<1>3. \A i \in 1 .. Len(Runs) : /\ Runs[i].fin \in Nat /\ Runs[i].fin \in Time
                                /\ Never < Runs[i].fin
                                /\ Runs[i].fin <= Runs[Len(Runs)].fin
                                /\ Runs[i].fin <= now
  BY RunsTyped, <1>1 DEF WellFormed, Chronicle
<1>4. last \in F /\ last \in Nat /\ \A x \in F : x <= last /\ x \in Nat
  <2>1. CASE Len(Runs) = 0
    <3>1. last = Never /\ \A x : x \in F <=> x = Never
      BY <1>2, <2>1
    <3> HIDE DEF F, last
    <3> QED BY <3>1 DEF Never
  <2>2. CASE Len(Runs) # 0
    <3>1. Len(Runs) \in 1 .. Len(Runs)
      BY <1>1, <2>2
    <3>2. last = Runs[Len(Runs)].fin
      BY <2>2
    <3> HIDE DEF F, last
    <3> QED BY <1>2, <1>3, <3>1, <3>2 DEF Never
  <2> QED
    BY <2>1, <2>2
<1>5. Max(F) = last
  <2> HIDE DEF F, last
  <2>1. Max(F) \in F /\ \A y \in F : Max(F) >= y
    BY <1>4 DEF Max
  <2> DEFINE m == Max(F)
  <2>2. m \in F /\ m >= last
    BY <1>4, <2>1
  <2>3. m <= last /\ m \in Nat /\ last \in Nat
    BY <1>4, <2>1
  <2> HIDE DEF m
  <2>4. m = last
    BY <2>2, <2>3
  <2> QED
    BY <2>4 DEF m
<1>6. LastSuccessful = last
  BY <1>5 DEF LastSuccessful
<1>7. now \in Nat /\ Never \in Time /\ Never <= now
  BY LifetimeAssumption DEF WellFormed, TypeOK, Time, Never
<1> QED
  BY <1>1, <1>3, <1>6, <1>7 DEF Never

-----------------------------------------------------------------------------
(* Types and the order of the record.                                      *)

\* The types of everything but the keys' values.
Scalars ==
    /\ sched \in Schedules /\ host \in Hosts
    /\ now \in Time \ {Never}
    /\ up \in BOOLEAN
    /\ ticked \in 0 .. now /\ asked \in 0 .. now
    /\ todo \subseteq 1 .. asked
    /\ boots \in 0 .. MaxBoots /\ events \in 0 .. MaxEvents
    /\ reachable \in BOOLEAN /\ client \in {"new", "open", "failed"}
    /\ made \subseteq 1 .. now
    /\ baseline \subseteq Time /\ since \in 0 .. now /\ beyond \subseteq Time
    /\ misaligned \in BOOLEAN

\* The type invariant in those two parts.
LEMMA TypeParts == TypeOK <=> Scalars /\ Typed(db)
BY DEF TypeOK, StoreTypeOK, Scalars, Typed

\* Instants are numbers.
LEMMA Instants ==
    ASSUME Scalars
    PROVE  /\ now \in Nat \ {0} /\ now \in Time /\ now <= MaxTime /\ MaxTime \in Nat
           /\ 1 .. now \subseteq Time /\ 1 .. now \subseteq Nat
           /\ ticked \in Nat /\ asked \in Nat /\ since \in Nat
           /\ ticked <= now /\ asked <= now /\ since <= now
           /\ host \in Nat /\ (host % Minute) = 0 /\ IsSchedule(sched)
BY LifetimeAssumption DEF Scalars, Time, Never

\* The occurrences of a backfill are later than the cursor (backfill).
LEMMA Backfilled ==
    ASSUME WellFormed, NEW n
    PROVE  LET todo_ == Latest(MissedOccurrences(sched, LastSuccessful, now, host), n)
           IN  /\ todo_ \subseteq 1 .. now
               /\ LastSuccessful = Never => todo_ \subseteq {now}
               /\ LastSuccessful # Never => \A t \in todo_ : LastSuccessful < t
<1> DEFINE M == MissedOccurrences(sched, LastSuccessful, now, host)
<1>1. LastSuccessful \in Nat /\ now \in Nat \ {0}
  BY Cursor, TypeParts, Instants DEF WellFormed
<1>2. /\ LastSuccessful = Never => M = {now}
      /\ LastSuccessful # Never => M \subseteq LastSuccessful + 1 .. now
  BY <1>1, MissedBetween
<1>3. Latest(M, n) \subseteq M
  BY DEF Latest
<1> HIDE DEF M
<1>4. M \subseteq 1 .. now
  BY <1>1, <1>2
<1>5. LastSuccessful # Never => \A t \in M : LastSuccessful < t
  BY <1>1, <1>2
<1> QED
  BY <1>2, <1>3, <1>4, <1>5 DEF M

\* Every step keeps the types.
LEMMA TypeStep == WellFormed /\ [Next]_vars => TypeOK'
<1> SUFFICES ASSUME WellFormed, [Next]_vars PROVE TypeOK'
    OBVIOUS
<1>1. TypeOK /\ Scalars /\ Typed(db)
  BY TypeParts DEF WellFormed
<1>2. /\ now \in Nat \ {0} /\ now \in Time /\ now <= MaxTime /\ MaxTime \in Nat
      /\ now \in 0 .. now /\ 0 \in 0 .. now /\ ticked <= now /\ asked <= now
  BY <1>1, Instants
<1>3. ASSUME NEW t \in now + 1 .. MaxTime, Boot(t) PROVE Scalars' /\ Typed(db')
  <2>1. /\ t \in Time \ {Never} /\ 1 .. now \subseteq 1 .. t /\ 0 .. now \subseteq 0 .. t
        /\ t \in 0 .. t
    BY <1>2 DEF Time, Never
  <2>2. boots' \in 0 .. MaxBoots
    BY <1>1, <1>3, LifetimeAssumption DEF Boot, Scalars
  <2> QED
    BY <1>1, <1>3, <2>1, <2>2 DEF Boot, Open, Scalars, past
<1>4. ASSUME Event PROVE events' \in 0 .. MaxEvents
  BY <1>1, <1>4, LifetimeAssumption DEF Event, Scalars
<1>5. ASSUME Replay PROVE Scalars' /\ Typed(db')
  <2>1. todo' \subseteq 1 .. now /\ asked' = now
    BY <1>5, Backfilled DEF Replay
  <2>2. Typed(db')
    BY <1>1, <1>5, SyncLeavesRuns DEF Replay
  <2>3. baseline' \subseteq Time
    BY <1>1, <1>2, <1>5 DEF Replay, Scalars
  <2>4. BeyondBounds(LastSuccessful) \subseteq Time
    <3>1. LastSuccessful \in Nat
      BY Cursor
    <3>2. LastSuccessful + 1 .. now \subseteq Time
      BY <1>2, <3>1 DEF Time
    <3> QED
      BY <3>2 DEF BeyondBounds
  <2>5. beyond' \subseteq Time
    BY <1>1, <1>5, <2>4 DEF Replay, Scalars
  <2>6. events' \in 0 .. MaxEvents
    BY <1>1, <1>4, <1>5 DEF Replay, Scalars
  <2>7. misaligned' \in BOOLEAN
    <3>1. Misaligned(sched, LastSuccessful, now, host) \in BOOLEAN
      BY DEF Misaligned
    <3>2. misaligned' = misaligned
              \/ misaligned' = (misaligned \/ Misaligned(sched, LastSuccessful, now, host))
      BY <1>5, Zenon DEF Replay
    <3> QED
      BY <1>1, <3>1, <3>2, Zenon DEF Scalars
  <2> QED
    BY <1>1, <1>2, <1>5, <2>1, <2>2, <2>3, <2>5, <2>6, <2>7 DEF Replay, Scalars
<1>6. ASSUME NEW t \in 1 .. now, Execute(t)
      PROVE  /\ Typed(db') /\ since' \in 0 .. now
             /\ made' \subseteq 1 .. now
             /\ UNCHANGED <<baseline, beyond, misaligned>>
  <2>1. Typed(db')
    BY <1>1, <1>2, <1>6, ExecuteEffect, Instants
  <2> QED
    BY <1>1, <1>2, <1>6, <2>1 DEF Execute, Scalars
<1>7. ASSUME NEW t \in todo, Backfill(t) PROVE Scalars' /\ Typed(db')
  <2>1. t \in 1 .. now /\ Execute(t)
    BY <1>1, <1>2, <1>7 DEF Scalars, Backfill
  <2> QED
    BY <1>1, <1>6, <1>7, <2>1 DEF Backfill, Scalars
<1>8. ASSUME Advance PROVE Scalars' /\ Typed(db')
  <2>1. now' = now + 1 /\ now < MaxTime
    BY <1>8 DEF Advance
  <2>2. /\ 1 .. now \subseteq 1 .. now' /\ 0 .. now \subseteq 0 .. now'
        /\ now' \in Time \ {Never}
    BY <1>2, <2>1 DEF Time, Never
  <2> QED
    BY <1>1, <1>8, <2>2 DEF Advance, storeVars, Scalars, past
<1>9. ASSUME Fire PROVE Scalars' /\ Typed(db')
  <2>1. Tick /\ Execute(now) /\ now \in 1 .. now
    BY <1>2, <1>9 DEF Fire
  <2> QED
    BY <1>1, <1>2, <1>6, <2>1 DEF Tick, Scalars
<1>10. ASSUME Pass PROVE Scalars' /\ Typed(db')
  <2>1. Tick /\ UNCHANGED <<db, past>>
    BY <1>10 DEF Pass
  <2> QED
    BY <1>1, <1>2, <2>1 DEF Tick, Scalars, past
<1>11. ASSUME Stop PROVE Scalars' /\ Typed(db')
  BY <1>1, <1>2, <1>11 DEF Stop, NewProvider, Scalars, past, Never
<1>12. ASSUME ClearHistory PROVE Scalars' /\ Typed(db')
  <2>1. Typed(db')
    <3> DEFINE d == [db EXCEPT !["runs"] = <<>>]
    <3>1. db' = d
      BY <1>12 DEF ClearHistory, Delete
    <3>2. DOMAIN d = Key /\ \A j \in Key : d[j] = IF j = "runs" THEN <<>> ELSE db[j]
      BY <1>1, Values DEF Typed
    <3>3. \A j \in Key : <<>> \in Seq(ValueOf[j]) /\ db[j] \in Seq(ValueOf[j])
      BY <1>1 DEF Typed
    <3>4. Typed(d)
      <4> HIDE DEF d
      <4> QED BY <3>2, <3>3 DEF Typed
    <3> QED
      BY <3>1, <3>4
  <2>2. events' \in 0 .. MaxEvents
    BY <1>4, <1>12 DEF ClearHistory
  <2>3. since' \in 0 .. now
    BY <1>2, <1>12 DEF ClearHistory, Never
  <2> QED
    BY <1>1, <1>12, <2>1, <2>2, <2>3 DEF ClearHistory, Scalars
<1>13. ASSUME Outage PROVE Scalars' /\ Typed(db')
  <2>1. events' \in 0 .. MaxEvents
    BY <1>4, <1>13 DEF Outage
  <2> QED
    BY <1>1, <1>13, <2>1 DEF Outage, Scalars, past
<1>14. ASSUME UNCHANGED vars PROVE Scalars' /\ Typed(db')
  <2>1. UNCHANGED <<sched, host, now, up, ticked, asked, todo, boots, events>>
    BY <1>14 DEF vars
  <2>2. UNCHANGED <<reachable, client, db>> /\ UNCHANGED past
    BY <1>14 DEF vars, storeVars
  <2> QED
    BY <1>1, <2>1, <2>2 DEF past, Scalars
<1>15. Scalars' /\ Typed(db')
  BY <1>3, <1>5, <1>7, <1>8, <1>9, <1>10, <1>11, <1>12, <1>13, <1>14 DEF Next
<1> QED
  BY <1>15 DEF TypeOK, StoreTypeOK, Scalars, Typed

\* What a step does to the record, the clock, the loop and the backfill.
Quiet == Runs' = Runs /\ now <= now' /\ todo' = todo /\ asked' = asked
Caught(t) == now' = now /\ asked' = asked /\ Saved(t)

LEMMA RecordStep ==
    ASSUME WellFormed, [Next]_vars
    PROVE  \/ Quiet /\ (ticked' = now' \/ now < now')
           \/ Quiet /\ now' = now /\ ticked' = ticked
           \/ Runs' = Runs /\ now' = now /\ todo' = {} /\ ticked' = now
           \/ Runs' = Runs /\ now' = now /\ Replay
           \/ Runs' = <<>> /\ now' = now
           \/ \E t \in todo : Caught(t) /\ todo' = todo \ {t} /\ ticked' = ticked
           \/ Caught(now) /\ todo' = todo /\ ticked < now /\ ticked' = now
<1>1. TypeOK /\ Scalars /\ Typed(db)
  BY TypeParts DEF WellFormed
<1>2. now \in Nat \ {0} /\ now \in Time /\ now <= MaxTime /\ MaxTime \in Nat /\ now <= now
  BY <1>1, Instants
<1>3. ASSUME NEW t \in now + 1 .. MaxTime, Boot(t) PROVE Quiet /\ ticked' = now'
  BY <1>2, <1>3 DEF Boot, Runs, Quiet
<1>4. ASSUME Replay PROVE Runs' = Runs /\ now' = now
  BY <1>1, <1>4, SyncLeavesRuns DEF Replay, Runs
<1>5. ASSUME NEW t \in todo, Backfill(t)
      PROVE  Caught(t) /\ todo' = todo \ {t} /\ ticked' = ticked
  <2>1. t \in Time /\ Execute(t)
    BY <1>1, <1>5, Instants DEF Scalars, Backfill
  <2> QED
    BY <1>1, <1>5, <2>1, ExecuteEffect DEF Backfill, Caught
<1>6. ASSUME Advance PROVE Quiet /\ now < now'
  BY <1>2, <1>6 DEF Advance, storeVars, Quiet, Runs
<1>7. ASSUME Fire PROVE Caught(now) /\ todo' = todo /\ ticked < now /\ ticked' = now
  BY <1>1, <1>2, <1>7, ExecuteEffect DEF Fire, Tick, Caught
<1>8. ASSUME Pass PROVE Quiet /\ ticked' = now'
  BY <1>2, <1>8 DEF Pass, Tick, Quiet, Runs
<1>9. ASSUME Stop PROVE Runs' = Runs /\ now' = now /\ todo' = {} /\ ticked' = now
  BY <1>9 DEF Stop, Runs
<1>10. ASSUME ClearHistory PROVE Runs' = <<>> /\ now' = now
  <2>1. db' = [db EXCEPT !["runs"] = <<>>] /\ "runs" \in DOMAIN db
    BY <1>1, <1>10, Values DEF ClearHistory, Delete, Typed
  <2> QED
    BY <1>10, <2>1 DEF ClearHistory, Runs
<1>11. ASSUME Outage \/ UNCHANGED vars PROVE Quiet /\ now' = now /\ ticked' = ticked
  BY <1>2, <1>11 DEF Outage, vars, storeVars, Quiet, Runs
<1> QED
  BY <1>3, <1>4, <1>5, <1>6, <1>7, <1>8, <1>9, <1>10, <1>11 DEF Next

\* A run appended to a record is its last.
LEMMA AppendedRun ==
    ASSUME NEW s \in Seq(Run), NEW r \in Run
    PROVE  /\ Len(Append(s, r)) = Len(s) + 1 /\ Len(s) \in Nat
           /\ Append(s, r)[Len(s) + 1] = r
           /\ \A i \in 1 .. Len(s) : Append(s, r)[i] = s[i]
OBVIOUS

\* Every step keeps the record in order.
LEMMA ChronicleStep == WellFormed /\ [Next]_vars => Chronicle'
<1> SUFFICES ASSUME WellFormed, [Next]_vars PROVE Chronicle'
    OBVIOUS
<1>1. TypeOK /\ Scalars /\ Chronicle
  BY TypeParts DEF WellFormed
<1>2. now \in Nat /\ now <= MaxTime /\ MaxTime \in Nat /\ now' \in Nat
  BY <1>1, TypeStep, Instants DEF TypeOK, Time
<1>3. Runs \in Seq(Run) /\ \A i \in 1 .. Len(Runs) : Runs[i].fin \in Nat
  BY <1>1, RunsTyped
<1>4. CASE Runs' = Runs /\ now <= now'
  BY <1>1, <1>2, <1>3, <1>4 DEF Chronicle, Never
<1>5. CASE Runs' = <<>>
  BY <1>5 DEF Chronicle
<1>6. ASSUME NEW t \in 1 .. now, now' = now, Runs' = Append(Runs, [for |-> t, fin |-> now])
      PROVE  Chronicle'
  <2> DEFINE n == Len(Runs)
             r == [for |-> t, fin |-> now]
  <2>1. t \in Time /\ r \in Run /\ Never < now
    BY <1>1, <1>2 DEF Run, Time, Never
  <2>2. /\ Len(Runs') = n + 1 /\ n \in Nat
        /\ Runs'[n + 1] = r
        /\ \A i \in 1 .. n : Runs'[i] = Runs[i]
    BY <1>3, <1>6, <2>1, AppendedRun
  <2>3. r.for = t /\ r.fin = now
    OBVIOUS
  <2>4. \A i \in 1 .. n + 1 : i \in 1 .. n \/ i = n + 1
    BY <2>2
  <2> HIDE DEF n, r
  <2>5. \A i \in 1 .. n + 1 : /\ Runs'[i].for <= Runs'[i].fin
                              /\ Never < Runs'[i].fin /\ Runs'[i].fin <= now
    BY <1>1, <1>2, <1>3, <1>6, <2>1, <2>2, <2>3, <2>4 DEF Chronicle, Never, n
  <2>6. \A i, k \in 1 .. n + 1 : i <= k => Runs'[i].fin <= Runs'[k].fin
    <3>1. ASSUME NEW i \in 1 .. n + 1, NEW k \in 1 .. n + 1, i <= k
          PROVE  Runs'[i].fin <= Runs'[k].fin
      <4>1. CASE k = n + 1
        BY <2>2, <2>3, <2>5, <4>1
      <4>2. CASE k \in 1 .. n
        <5>1. i \in 1 .. n
          BY <2>2, <3>1, <4>2
        <5> QED
          BY <1>1, <2>2, <3>1, <4>2, <5>1 DEF Chronicle, n
      <4> QED
        BY <2>4, <4>1, <4>2
    <3> QED
      BY <3>1
  <2> QED
    BY <1>6, <2>2, <2>5, <2>6 DEF Chronicle
<1>7. ASSUME NEW t \in 1 .. now, Caught(t) PROVE Chronicle'
  BY <1>2, <1>4, <1>6, <1>7 DEF Saved, Caught
<1>8. now \in 1 .. now /\ todo \subseteq 1 .. now
  BY <1>1, <1>2, Instants DEF Scalars, Never
<1> QED
  BY <1>2, <1>4, <1>5, <1>7, <1>8, RecordStep DEF Quiet

\* Nothing is on record at first.
LEMMA InitWellFormed == Init => WellFormed
<1> SUFFICES ASSUME Init PROVE WellFormed
    OBVIOUS
<1>1. Typed(db) /\ Runs = <<>>
  <2>1. db = [k \in Key |-> <<>>]
    BY DEF Init, StoreInit
  <2>2. \A k \in Key : <<>> \in Seq(ValueOf[k])
    OBVIOUS
  <2> QED
    BY <2>1, <2>2, Values DEF Typed, Runs
<1>2. Chronicle
  BY <1>1 DEF Chronicle
<1>3. 1 \in Time \ {Never} /\ Never \in Time /\ 0 \in 0 .. MaxBoots /\ 0 \in 0 .. MaxEvents
  BY LifetimeAssumption DEF Time, Never
<1>4. /\ sched \in Schedules /\ host \in Hosts /\ now = 1 /\ up = FALSE
      /\ ticked = 1 /\ asked = 0 /\ since = 0 /\ todo = {} /\ boots = 0 /\ events = 0
      /\ reachable = TRUE /\ client = "new"
      /\ made = {} /\ baseline = {} /\ beyond = {} /\ misaligned = FALSE
  BY DEF Init, StoreInit, Never
<1>5. 1 \in 0 .. 1 /\ 0 \in 0 .. 1
  OBVIOUS
<1>6. Scalars
  BY <1>3, <1>4, <1>5 DEF Scalars
<1> QED
  BY <1>1, <1>2, <1>6, TypeParts DEF WellFormed

\* The record is in order in every behaviour.
LEMMA AlwaysWellFormed == Spec => []WellFormed
<1>1. WellFormed /\ [Next]_vars => WellFormed'
  BY TypeStep, ChronicleStep DEF WellFormed
<1> QED
  BY <1>1, InitWellFormed, PTL DEF Spec

\* The state keeps its types whatever the calendar and the bounds: a backfill
\* has no occurrence in the future or before the first second (backfill).
THEOREM TypeCorrect == Spec => []TypeOK
BY AlwaysWellFormed, PTL DEF WellFormed

-----------------------------------------------------------------------------
(* What is put on record twice.                                            *)

\* Of what the backfill has still to execute, and of what the loop has still to
\* evaluate, only the second of the Replay's own scan can be on record.
Fresh ==
    \A i \in 1 .. Len(Runs) :
        Runs[i].for \in todo \/ (ticked < now /\ Runs[i].for = now)
            => Runs[i].for = asked

\* Every step keeps what is to be executed fresh.
LEMMA FreshStep == WellFormed /\ Fresh /\ [Next]_vars => Fresh'
<1> SUFFICES ASSUME WellFormed, Fresh, [Next]_vars PROVE Fresh'
    OBVIOUS
<1>1. TypeOK /\ Scalars /\ Chronicle
  BY TypeParts DEF WellFormed
<1>2. /\ now \in Nat /\ now \in Time /\ now' \in Nat
      /\ asked \in Nat /\ asked <= now /\ ticked \in Nat /\ ticked' \in Nat
      /\ todo \subseteq 1 .. asked /\ todo \subseteq Time
  BY <1>1, TypeStep, Instants DEF TypeOK, Scalars, Time
<1>3. \A i \in 1 .. Len(Runs) : Runs[i].for \in Nat /\ Runs[i].fin \in Nat
                                /\ Runs[i].for <= Runs[i].fin /\ Runs[i].fin <= now
  BY <1>1, RunsTyped DEF Chronicle
<1>4. CASE Quiet /\ (ticked' = now' \/ now < now')
  BY <1>2, <1>3, <1>4 DEF Fresh, Quiet, Runs
<1>5. CASE Quiet /\ now' = now /\ ticked' = ticked
  BY <1>5 DEF Fresh, Quiet, Runs
<1>6. CASE Runs' = Runs /\ now' = now /\ Replay
  <2>1. /\ todo' = Latest(MissedOccurrences(sched, LastSuccessful, now, host), MaxBackfillRuns)
        /\ asked' = now
    BY <1>6 DEF Replay
  <2>2. CASE LastSuccessful = Never
    BY <1>6, <2>2, Cursor DEF Fresh
  <2>3. CASE LastSuccessful # Never
    <3>1. \A t \in todo' : LastSuccessful < t /\ t \in Nat
      BY <1>1, <2>1, <2>3, Backfilled, Instants
    <3>2. LastSuccessful \in Nat /\ \A i \in 1 .. Len(Runs) : Runs[i].fin <= LastSuccessful
      BY Cursor
    <3>3. \A i \in 1 .. Len(Runs) : Runs[i].for \notin todo'
      BY <1>3, <3>1, <3>2
    <3> QED
      BY <1>6, <2>1, <3>3 DEF Fresh
  <2> QED
    BY <2>2, <2>3
<1>7. CASE Runs' = <<>>
  BY <1>7 DEF Fresh
<1>8. ASSUME NEW t \in Time, Caught(t)
      PROVE  \A i \in 1 .. Len(Runs') :
                \/ i \in 1 .. Len(Runs) /\ Runs'[i].for = Runs[i].for
                \/ Runs'[i].for = t
  <2>1. CASE Runs' = Runs
    BY <2>1
  <2>2. CASE Runs' = Append(Runs, [for |-> t, fin |-> now])
    <3> DEFINE r == [for |-> t, fin |-> now]
               n == Len(Runs)
    <3>1. Runs \in Seq(Run) /\ r \in Run /\ r.for = t
      BY <1>1, <1>2, RunsTyped DEF Run
    <3>2. /\ Len(Runs') = n + 1 /\ n \in Nat /\ Runs'[n + 1] = r
          /\ \A i \in 1 .. n : Runs'[i] = Runs[i]
      BY <2>2, <3>1, AppendedRun
    <3> HIDE DEF r
    <3>3. \A i \in 1 .. n + 1 : i \in 1 .. n \/ i = n + 1
      BY <3>2
    <3> QED
      BY <3>1, <3>2, <3>3
  <2> QED
    BY <1>8, <2>1, <2>2 DEF Caught, Saved
<1>9. ASSUME NEW t \in todo, Caught(t), todo' = todo \ {t}, ticked' = ticked
      PROVE  Fresh'
  <2>1. now' = now /\ asked' = asked /\ t \in Time
    BY <1>2, <1>9 DEF Caught
  <2>2. t = now => now = asked
    BY <1>2
  <2>3. ASSUME NEW i \in 1 .. Len(Runs'),
               Runs'[i].for \in todo' \/ (ticked' < now' /\ Runs'[i].for = now')
        PROVE  Runs'[i].for = asked'
    BY <1>8, <1>9, <2>1, <2>2, <2>3 DEF Fresh
  <2> QED
    BY <2>3 DEF Fresh
<1>10. ASSUME Caught(now), todo' = todo, ticked' = now PROVE Fresh'
  <2>1. now' = now /\ asked' = asked
    BY <1>10 DEF Caught
  <2>2. now \in todo => now = asked
    BY <1>2
  <2>3. ASSUME NEW i \in 1 .. Len(Runs'),
               Runs'[i].for \in todo' \/ (ticked' < now' /\ Runs'[i].for = now')
        PROVE  Runs'[i].for = asked'
    BY <1>2, <1>8, <1>10, <2>1, <2>2, <2>3 DEF Fresh
  <2> QED
    BY <2>3 DEF Fresh
<1>11. CASE Runs' = Runs /\ now' = now /\ todo' = {} /\ ticked' = now
  BY <1>2, <1>11 DEF Fresh, Runs
<1> QED
  BY <1>4, <1>5, <1>6, <1>7, <1>9, <1>10, <1>11, RecordStep

\* A step that puts on record what is there already did it for the second of the
\* Replay's scan.
LEMMA RecordedOnceStep == WellFormed /\ Fresh /\ [Next]_vars => RepeatsOnlyAsked
<1> SUFFICES ASSUME WellFormed, Fresh, [Next]_vars PROVE RepeatsOnlyAsked
    OBVIOUS
<1>1. TypeOK /\ Scalars
  BY TypeParts DEF WellFormed
<1>2. now \in Time /\ todo \subseteq Time /\ Runs \in Seq(Run) /\ Len(Runs) \in Nat
  BY <1>1, RunsTyped, Instants DEF Scalars
<1>3. \A r \in Stored : \E i \in 1 .. Len(Runs) : r = Runs[i]
  BY DEF Stored, Runs
<1>4. CASE Runs' = Runs \/ Runs' = <<>>
  BY <1>2, <1>4 DEF RepeatsOnlyAsked, Runs
<1>5. ASSUME NEW t \in Time, Caught(t),
             \A i \in 1 .. Len(Runs) : Runs[i].for = t => t = asked
      PROVE  RepeatsOnlyAsked
  <2>1. CASE Runs' = Append(Runs, [for |-> t, fin |-> now])
    <3> DEFINE r == [for |-> t, fin |-> now]
               n == Len(Runs)
    <3>1. r \in Run /\ r.for = t
      BY <1>2 DEF Run
    <3>2. Runs'[n + 1] = r
      BY <1>2, <2>1, <3>1, AppendedRun
    <3>3. Runs'[n + 1].for = t
      <4> HIDE DEF r
      <4> QED BY <3>1, <3>2
    <3>4. (\E x \in Stored : x.for = t) => t = asked
      BY <1>3, <1>5
    <3> QED
      BY <3>3, <3>4 DEF RepeatsOnlyAsked, Runs
  <2> QED
    BY <1>4, <1>5, <2>1 DEF Caught, Saved
<1>6. ASSUME NEW t \in todo, Caught(t) PROVE RepeatsOnlyAsked
  BY <1>2, <1>5, <1>6 DEF Fresh
<1>7. ASSUME Caught(now), ticked < now PROVE RepeatsOnlyAsked
  BY <1>2, <1>5, <1>7 DEF Fresh
<1> QED
  BY <1>4, <1>6, <1>7, RecordStep DEF Quiet

\* No instant is put on record a second time, but for the second in which the
\* last Replay took its scan, which loop and backfill both see: the scan begins
\* after the cursor, the cursor is no earlier than any instant on record, and what
\* the loop evaluates while the backfill is at work is later than the scan
\* (missedOccurrences, lastSuccessful, runJobs).
THEOREM RecordedOnce == Spec => StoredOnce
<1>1. Init => Fresh
  BY Values DEF Init, StoreInit, Fresh, Runs
<1> QED
  BY <1>1, FreshStep, RecordedOnceStep, AlwaysWellFormed, PTL DEF Spec, StoredOnce

-----------------------------------------------------------------------------
(* Nothing out of schedule.                                                *)

\* What a backfill has still to execute are instants the loop would have fired
\* at, or the catch-up of a job that never ran.
InSchedule ==
    Agreeing(sched, host) =>
        \A t \in made \cup todo : t \in baseline \/ Fires(sched, t, host)

\* Every step keeps to the schedule.
LEMMA ScheduleStep == WellFormed /\ InSchedule /\ [Next]_vars => InSchedule'
<1> SUFFICES ASSUME WellFormed, InSchedule, [Next]_vars, Agreeing(sched, host)'
             PROVE  \A t \in (made \cup todo)' : (t \in baseline \/ Fires(sched, t, host))'
    BY DEF InSchedule
<1> DEFINE Good(t) == t \in baseline \/ Fires(sched, t, host)
<1>1. Scalars
  BY TypeParts DEF WellFormed
<1>2. UNCHANGED <<sched, host>>
  BY DEF Next, Boot, Replay, Backfill, Advance, Fire, Pass, Tick, Stop, ClearHistory,
         Outage, vars
<1>3. \A t \in made \cup todo : Good(t)
  BY <1>2 DEF InSchedule
<1>4. ASSUME made' \cup todo' \subseteq made \cup todo, baseline \subseteq baseline'
      PROVE  \A t \in made' \cup todo' : Good(t)'
  BY <1>2, <1>3, <1>4
<1>5. ASSUME Replay PROVE \A t \in made' \cup todo' : Good(t)'
  <2> DEFINE last == LastSuccessful
             M == MissedOccurrences(sched, last, now, host)
  <2>1. /\ todo' = Latest(M, MaxBackfillRuns) /\ made' = made
        /\ baseline' = IF last = Never THEN baseline \cup {now} ELSE baseline
    BY <1>5 DEF Replay
  <2>2. ASSUME NEW t \in todo' PROVE Good(t)'
    <3>1. CASE last = Never
      <4>1. t = now
        BY <2>1, <2>2, <3>1, Backfilled
      <4> QED
        BY <2>1, <3>1, <4>1
    <3>2. CASE last # Never
      <4>1. t \in M
        BY <2>1, <2>2 DEF Latest
      <4>2. BackfillDue(sched, t, host) /\ t \in ScanStart(sched, last, now) .. now
        BY <3>2, <4>1 DEF MissedOccurrences
      <4>3. ScanStart(sched, last, now) \in Int /\ now \in Int
        BY <1>1, Cursor, ScanAfterCursor, Instants
      <4>4. t \in Int
        BY <4>2, <4>3
      <4>5. Fires(sched, t, host)
        BY <1>1, <1>2, <4>2, <4>4, Instants, ScanFindsNoOther
      <4> QED
        BY <1>2, <4>5
    <3> QED
      BY <3>1, <3>2
  <2>3. ASSUME NEW t \in made' PROVE Good(t)'
    BY <1>2, <1>3, <2>1, <2>3
  <2> QED
    BY <2>2, <2>3
<1>6. ASSUME NEW t \in todo, Backfill(t) PROVE \A u \in made' \cup todo' : Good(u)'
  BY <1>4, <1>6 DEF Backfill, Execute
<1>7. ASSUME Fire PROVE \A t \in made' \cup todo' : Good(t)'
  <2>1. /\ made' = made \cup {now} /\ todo' = todo /\ baseline' = baseline
        /\ Fires(sched, now, host)
    BY <1>7 DEF Fire, Tick, Execute
  <2> QED
    BY <1>2, <1>3, <2>1
<1>8. ASSUME NEW t, Boot(t) PROVE \A u \in made' \cup todo' : Good(u)'
  BY <1>4, <1>8 DEF Boot, past
<1>9. ASSUME \/ Advance \/ Pass \/ Stop \/ ClearHistory \/ Outage \/ UNCHANGED vars
      PROVE  \A t \in made' \cup todo' : Good(t)'
  BY <1>4, <1>9 DEF Advance, Pass, Tick, Stop, ClearHistory, Outage, vars, past
<1> QED
  BY <1>5, <1>6, <1>7, <1>8, <1>9 DEF Next

\* Where the loop's test and the scan are meant to agree, a job is executed for
\* no instant its schedule does not have, whatever the calendar, the zone and
\* the times a process is down (missedOccurrences, IsDue, runJobs).
THEOREM OnSchedule == Spec => []NothingOutOfSchedule
<1>1. Init => InSchedule
  BY DEF Init, InSchedule
<1>2. InSchedule => NothingOutOfSchedule
  BY DEF InSchedule, NothingOutOfSchedule
<1> QED
  BY <1>1, <1>2, ScheduleStep, AlwaysWellFormed, PTL DEF Spec

-----------------------------------------------------------------------------
(* Caught up.                                                              *)

Owed(to) == {t \in since + 1 .. to : Fires(sched, t, host)}

\* Once this process has replayed, what the schedule owes until the loop's last
\* second is done, beyond a bound or about to be backfilled; before, what it owes
\* until the cursor is.  A run that is not saved leaves the cursor, so that a
\* later Replay starts there.
Accounted ==
    /\ ~up => asked = Never
    /\ up => now <= ticked + 1
    /\ since = Never <=> Len(Runs) = 0
    /\ since # Never /\ Agreeing(sched, host) /\ ~misaligned =>
           /\ asked # Never => Owed(ticked) \subseteq made \cup beyond \cup todo
           /\ asked = Never => Owed(LastSuccessful) \subseteq made \cup beyond

\* The cursor is not ahead of the clock.
CursorBehind == LastSuccessful \in Nat /\ LastSuccessful <= now

LEMMA CursorIsBehind == WellFormed => CursorBehind
BY Cursor DEF CursorBehind

\* The backfill of a job that has a cursor takes in all that is owed since, but
\* for what is beyond a documented bound: no instant that is not the schedule's
\* takes the place of one that is (Replay, backfill).
LEMMA BackfillCovers ==
    ASSUME WellFormed, LastSuccessful # Never, Agreeing(sched, host),
           ~Misaligned(sched, LastSuccessful, now, host),
           NEW t \in LastSuccessful + 1 .. now, Fires(sched, t, host),
           t \notin BeyondBounds(LastSuccessful)
    PROVE  t \in Latest(MissedOccurrences(sched, LastSuccessful, now, host), MaxBackfillRuns)
<1> DEFINE last == LastSuccessful
           M == MissedOccurrences(sched, last, now, host)
           missed == {u \in last + 1 .. now : Fires(sched, u, host)}
           Found == {u \in M : t < u}
           Later == {u \in missed : t < u}
<1>1. /\ last \in Nat \ {0} /\ now \in Nat \ {0} /\ now \in Nat /\ t \in Int
      /\ host \in Nat /\ (host % Minute) = 0 /\ IsSchedule(sched)
  BY Cursor, TypeParts, Instants DEF WellFormed, Never
<1>2. /\ ~(t < WindowEdge(sched, now))
      /\ ~(Cardinality(Later) >= MaxBackfillRuns)
  BY DEF BeyondBounds
<1>3. t \in M
  <2>1. WindowEdge(sched, now) <= t
    <3>1. WindowEdge(sched, now) \in Int
      BY <1>1, Lengths DEF WindowEdge
    <3> QED
      BY <1>1, <1>2, <3>1
  <2>2. Covered(sched, host)
    BY DEF Agreeing
  <2> QED
    BY <1>1, <2>1, <2>2, ScanFindsAll
<1>4. M \subseteq missed
  <2>1. M \subseteq last + 1 .. now
    BY <1>1, MissedBetween
  <2>2. ASSUME NEW u \in M PROVE BackfillDue(sched, u, host)
    BY <1>1, <2>2 DEF MissedOccurrences, Never
  <2>3. ASSUME NEW u \in M PROVE u \in last + 1 .. now /\ Fires(sched, u, host)
    <3>1. u \in last + 1 .. now /\ u \in Int
      BY <1>1, <2>1
    <3> QED
      BY <1>1, <2>2, <3>1, ScanFindsNoOther
  <2> HIDE DEF M, last
  <2> QED
    BY <2>3
<1>5. IsFiniteSet(Later)
  <2>1. IsFiniteSet(last + 1 .. now) /\ Later \subseteq last + 1 .. now
    BY <1>1, FS_Interval
  <2> HIDE DEF Later, last
  <2> QED
    BY <2>1, FS_Subset
<1>6. /\ Cardinality(Later) \in Nat /\ Cardinality(Found) \in Nat
      /\ Cardinality(Found) <= Cardinality(Later)
  <2>1. Found \subseteq Later
    <3> HIDE DEF M, missed
    <3> QED BY <1>4
  <2> HIDE DEF Found, Later
  <2> QED
    BY <1>5, <2>1, FS_Subset, FS_CardinalityType
<1>7. Cardinality(Found) < MaxBackfillRuns
  <2> HIDE DEF Found, Later
  <2> QED BY <1>2, <1>6, LifetimeAssumption
<1> QED
  BY <1>3, <1>7 DEF Latest

\* Every step keeps the account of what is owed.
LEMMA AccountedStep == WellFormed /\ Accounted /\ [Next]_vars => Accounted'
<1> SUFFICES ASSUME WellFormed, Accounted, [Next]_vars PROVE Accounted'
    OBVIOUS
<1>1. TypeOK /\ Scalars /\ Typed(db)
  BY TypeParts DEF WellFormed
<1>2. /\ now \in Nat \ {0} /\ since \in Nat /\ ticked \in Nat /\ asked \in Nat
      /\ now \in Time /\ ticked <= now /\ since <= now
      /\ LastSuccessful \in Nat /\ LastSuccessful <= now
      /\ Len(Runs) = 0 <=> LastSuccessful = Never
  BY <1>1, Instants, Cursor DEF Scalars
<1>3. UNCHANGED <<sched, host>>
  BY DEF Next, Boot, Replay, Backfill, Advance, Fire, Pass, Tick, Stop, ClearHistory,
         Outage, vars
<1>4. ASSUME Runs' = Runs PROVE LastSuccessful' = LastSuccessful
  BY <1>4 DEF LastSuccessful, Stored, Runs
<1>5. CursorBehind'
  <2>1. WellFormed'
    BY TypeStep, ChronicleStep DEF WellFormed
  <2> QED
    BY <2>1, CursorIsBehind, PTL
<1>6. ASSUME NEW t, Boot(t) PROVE Accounted'
  <2>1. /\ UNCHANGED <<asked, since, made, beyond, misaligned>> /\ Runs' = Runs
        /\ asked = Never /\ up' /\ now' = t /\ ticked' = t /\ todo' = todo
    BY <1>6 DEF Boot, Accounted, past, Runs
  <2>2. now' <= ticked' + 1
    BY <2>1, TypeStep DEF TypeOK, Time
  <2> QED
    BY <1>3, <1>4, <2>1, <2>2 DEF Accounted, Owed
<1>7. ASSUME Replay PROVE Accounted'
  <2> DEFINE last == LastSuccessful
  <2>1. /\ UNCHANGED <<now, ticked, since, made, up>> /\ up /\ todo = {} /\ asked' = now
        /\ Runs' = Runs
        /\ todo' = Latest(MissedOccurrences(sched, last, now, host), MaxBackfillRuns)
    BY <1>1, <1>7, SyncLeavesRuns DEF Replay, Runs
  <2>2. ASSUME since # Never, Agreeing(sched, host), ~misaligned', NEW t \in Owed(ticked)
        PROVE  t \in made' \cup beyond' \cup todo'
    <3>1. last # Never
      BY <1>2, <2>2 DEF Accounted
    <3>2. /\ beyond' = beyond \cup BeyondBounds(last)
          /\ misaligned' = (misaligned \/ Misaligned(sched, last, now, host))
      BY <1>7, <3>1 DEF Replay
    <3>3. ~misaligned /\ ~Misaligned(sched, last, now, host)
      BY <2>2, <3>2
    <3>4. t \in since + 1 .. ticked /\ Fires(sched, t, host) /\ t \in Int
      BY <1>2, <2>2 DEF Owed
    <3>5. CASE asked # Never
      <4>1. Owed(ticked) \subseteq made \cup beyond
        BY <2>1, <2>2, <3>3, <3>5 DEF Accounted
      <4> QED
        BY <2>1, <2>2, <3>2, <4>1
    <3>6. CASE asked = Never /\ t <= last
      <4>1. t \in Owed(last)
        <5> HIDE DEF last
        <5> QED BY <1>2, <3>4, <3>6 DEF Owed, last
      <4>2. Owed(last) \subseteq made \cup beyond
        BY <2>2, <3>3, <3>6 DEF Accounted
      <4> QED
        BY <2>1, <3>2, <4>1, <4>2
    <3>7. CASE ~(t <= last)
      <4>1. t \in last + 1 .. now
        BY <1>2, <3>4, <3>7
      <4>2. CASE t \in BeyondBounds(last)
        BY <3>2, <4>2
      <4>3. CASE t \notin BeyondBounds(last)
        BY <2>1, <2>2, <3>1, <3>3, <3>4, <4>1, <4>3, BackfillCovers
      <4> QED
        BY <4>2, <4>3
    <3> QED
      BY <3>5, <3>6, <3>7
  <2>3. Owed(ticked)' = Owed(ticked) /\ asked' # Never
    BY <1>2, <1>3, <2>1 DEF Owed, Never
  <2>4. since' # Never /\ Agreeing(sched, host)' /\ ~misaligned' =>
            Owed(ticked)' \subseteq made' \cup beyond' \cup todo'
    BY <1>3, <2>1, <2>2, <2>3
  <2> QED
    BY <2>1, <2>3, <2>4 DEF Accounted
<1>8. ASSUME NEW t \in Time, Execute(t)
      PROVE  /\ made' = made \cup {t} /\ beyond' = beyond /\ misaligned' = misaligned
             /\ since' = Never <=> Len(Runs') = 0
             /\ \/ since' = now
                \/ since' = since /\ (Answers => asked # Never)
             /\ ~Answers => Runs' = Runs
  <2>1. CASE Answers
    <3>1. Runs' = Append(Runs, [for |-> t, fin |-> now])
      BY <1>1, <1>8, <2>1, ExecuteEffect DEF Saved
    <3>2. Runs \in Seq(Run) /\ [for |-> t, fin |-> now] \in Run
      BY <1>1, <1>2, RunsTyped DEF Run
    <3>3. Len(Runs') # 0
      BY <3>1, <3>2, AppendedRun
    <3>4. \/ since' = now
          \/ since' = since /\ since # Never /\ asked # Never
      BY <1>8, <2>1 DEF Execute
    <3> QED
      BY <1>2, <1>8, <2>1, <3>3, <3>4 DEF Execute, Never
  <2>2. CASE ~Answers
    <3>1. Runs' = Runs
      BY <1>1, <1>8, <2>2, ExecuteEffect DEF Saved
    <3> QED
      BY <1>8, <2>2, <3>1 DEF Execute, Accounted
  <2> QED
    BY <2>1, <2>2
<1>9. ASSUME NEW t \in todo, Backfill(t) PROVE Accounted'
  <2>1. /\ UNCHANGED <<now, up, ticked, asked>> /\ todo' = todo \ {t} /\ Execute(t)
    BY <1>9 DEF Backfill
  <2>2. t \in Time /\ asked # Never
    BY <1>1, <1>2, Instants DEF Scalars, Never
  <2>3. ASSUME since' # Never, Agreeing(sched, host), ~misaligned', NEW u \in Owed(ticked)'
        PROVE  u \in made' \cup beyond' \cup todo'
    <3>1. CASE since' = since
      BY <1>3, <1>8, <2>1, <2>2, <2>3, <3>1 DEF Accounted, Owed
    <3>2. CASE since' = now
      BY <1>2, <2>1, <2>3, <3>2 DEF Owed
    <3> QED
      BY <1>8, <2>1, <2>2, <3>1, <3>2
  <2> QED
    BY <1>3, <1>8, <2>1, <2>2, <2>3 DEF Accounted
<1>10. ASSUME Tick
       PROVE  /\ UNCHANGED <<now, up, asked, todo>> /\ up /\ ticked' = now
              /\ \A u \in Int : ticked < u /\ u <= now => u = now
  BY <1>2, <1>10 DEF Tick, Accounted
<1>11. ASSUME since' # Never, since' = since, Agreeing(sched, host), ~misaligned,
              asked # Never, Tick, NEW u \in Owed(ticked)'
       PROVE  Fires(sched, u, host) /\ (u = now \/ u \in made \cup beyond \cup todo)
  <2>1. u \in since + 1 .. now /\ Fires(sched, u, host) /\ u \in Int
    BY <1>2, <1>3, <1>10, <1>11 DEF Owed
  <2>2. CASE u <= ticked
    <3>1. u \in Owed(ticked)
      BY <1>2, <2>1, <2>2 DEF Owed
    <3> QED
      BY <1>11, <2>1, <3>1 DEF Accounted
  <2>3. CASE ~(u <= ticked)
    BY <1>2, <1>10, <1>11, <2>1, <2>3
  <2> QED
    BY <2>2, <2>3
<1>12. ASSUME Fire PROVE Accounted'
  <2>1. Tick /\ Execute(now) /\ now' = now /\ now' <= ticked' + 1
    BY <1>2, <1>10, <1>12 DEF Fire
  <2>2. ASSUME since' # Never, Agreeing(sched, host), ~misaligned', asked # Never,
               NEW u \in Owed(ticked)'
        PROVE  u \in made' \cup beyond' \cup todo'
    <3>1. CASE since' = now
      BY <1>2, <1>10, <2>1, <2>2, <3>1 DEF Owed
    <3>2. CASE since' = since
      BY <1>2, <1>8, <1>10, <1>11, <2>1, <2>2, <3>2
    <3> QED
      BY <1>2, <1>8, <2>1, <3>1, <3>2
  <2>3. ASSUME since' # Never, Agreeing(sched, host), ~misaligned', asked = Never,
               NEW u \in Owed(LastSuccessful)'
        PROVE  u \in made' \cup beyond'
    <3>1. CASE since' = now
      <4>1. u \in now + 1 .. LastSuccessful' /\ LastSuccessful' \in Nat /\ LastSuccessful' <= now
        BY <1>5, <2>1, <2>3, <3>1 DEF Owed, CursorBehind
      <4> QED
        BY <1>2, <4>1
    <3>2. CASE since' = since /\ ~Answers
      <4>1. Runs' = Runs /\ LastSuccessful' = LastSuccessful
        BY <1>2, <1>4, <1>8, <2>1, <3>2
      <4> QED
        BY <1>2, <1>3, <1>8, <2>1, <2>3, <3>2, <4>1 DEF Accounted, Owed
    <3> QED
      BY <1>2, <1>8, <2>1, <2>3, <3>1, <3>2
  <2>4. since' = Never <=> Len(Runs') = 0
    BY <1>2, <1>8, <2>1
  <2> QED
    BY <1>3, <1>10, <2>1, <2>2, <2>3, <2>4 DEF Accounted
<1>13. ASSUME Pass PROVE Accounted'
  <2>1. /\ Tick /\ ~Fires(sched, now, host) /\ now' = now /\ now' <= ticked' + 1
        /\ UNCHANGED <<made, beyond, misaligned, since>> /\ Runs' = Runs
    BY <1>2, <1>10, <1>13 DEF Pass, past, Runs
  <2>2. ASSUME since' # Never, Agreeing(sched, host), ~misaligned', asked # Never,
               NEW u \in Owed(ticked)'
        PROVE  u \in made' \cup beyond' \cup todo'
    BY <1>10, <1>11, <2>1, <2>2
  <2> QED
    BY <1>3, <1>4, <1>10, <2>1, <2>2 DEF Accounted, Owed
<1>14. ASSUME Advance PROVE Accounted'
  <2>1. /\ UNCHANGED <<up, ticked, asked, todo, made, beyond, misaligned, since>>
        /\ Runs' = Runs /\ ticked = now /\ now' = now + 1 /\ up
    BY <1>14 DEF Advance, storeVars, past, Runs
  <2> QED
    BY <1>2, <1>3, <1>4, <2>1 DEF Accounted, Owed
<1>15. ASSUME Stop PROVE Accounted'
  <2>1. /\ UNCHANGED <<now, ticked, todo, made, beyond, misaligned, since>>
        /\ Runs' = Runs /\ ticked = now /\ todo = {} /\ asked' = Never /\ ~up'
    BY <1>15 DEF Stop, past, Runs
  <2>2. Owed(LastSuccessful) \subseteq Owed(ticked)
    BY <1>2, <2>1 DEF Owed
  <2> QED
    BY <1>3, <1>4, <2>1, <2>2 DEF Accounted, Owed
<1>16. ASSUME ClearHistory PROVE Accounted'
  <2>1. since' = Never /\ UNCHANGED <<now, up, ticked, asked>>
    BY <1>16 DEF ClearHistory
  <2>2. Runs' = <<>>
    <3>1. db' = [db EXCEPT !["runs"] = <<>>] /\ "runs" \in DOMAIN db
      BY <1>1, <1>16, Values DEF ClearHistory, Delete, Typed
    <3> QED
      BY <3>1 DEF Runs
  <2> QED
    BY <2>1, <2>2 DEF Accounted
<1>17. ASSUME Outage \/ UNCHANGED vars PROVE Accounted'
  <2>1. /\ UNCHANGED <<now, up, ticked, asked, todo, made, beyond, misaligned, since>>
        /\ Runs' = Runs
    BY <1>17 DEF Outage, vars, storeVars, past, Runs
  <2> QED
    BY <1>3, <1>4, <2>1 DEF Accounted, Owed
<1> QED
  BY <1>6, <1>7, <1>9, <1>12, <1>13, <1>14, <1>15, <1>16, <1>17 DEF Next

\* Once a process has replayed and its backfill is done, the job has been executed
\* for every instant its schedule had since the first run on record, whatever
\* outages, restarts, unsaved runs and further Replays there were, but for what
\* is beyond the window or the count that README documents - unless a cron job's
\* scan began in mid-minute, which leaves out more (MisalignedFindsNothing)
\* (README.md:249-251; Replay, backfill, missedOccurrences, lastSuccessful).
THEOREM ReplayCatchesUp == Spec => []CaughtUp
<1>1. Init => Accounted
  BY Values DEF Init, StoreInit, Accounted, Runs
<1>2. Accounted => CaughtUp
  BY DEF Accounted, CaughtUp, AfterReplay, MissedRunsMade, Owed
<1> QED
  BY <1>1, <1>2, AccountedStep, AlwaysWellFormed, PTL DEF Spec
=============================================================================
