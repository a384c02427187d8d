------------------------------ MODULE Lifetime ------------------------------
(***************************************************************************)
(* One persistent job from process to process, on a real calendar and with *)
(* the real store: the facade wires a process, the store is opened, the    *)
(* run loop starts and fires by its own test, Replay writes and reads the  *)
(* store and backfills what the scan finds missing, every run is saved,    *)
(* the process is stopped and another one comes later                      *)
(* (internals/pkg/coravel/coravel.go, scheduler/persistence.go,            *)
(* schedule_event.go, internals/pkg/store/).                               *)
(*                                                                         *)
(* What Recovery leaves to a constant is here computed as the code does.   *)
(* The loop runs beside Replay and the backfill, from the second after the *)
(* process came up; but an execution takes less than a second here, Replay *)
(* reads and scans at once, and a process is stopped when it is idle,      *)
(* which Recovery does without.                                            *)
(***************************************************************************)
EXTENDS Cadence, Store, FiniteSets, FiniteSetsExt

CONSTANTS
    Schedules,        \* the schedules the job may have
    Hosts,            \* the offsets the host's clock may have
    MaxBackfillRuns,  \* persistence.go: maxBackfillRuns (500)
    MaxTime,          \* bound of the model: the clock stops here
    MaxBoots,         \* bound of the model: processes
    MaxEvents         \* bound of the model: how often the server goes away or
                      \* comes back, or an operator clears or replays

ASSUME LifetimeAssumption ==
    /\ Key = {"schedule", "index", "runs"}
    /\ \A s \in Schedules : IsSchedule(s)
    /\ Hosts \subseteq Nat /\ \A h \in Hosts : h % Minute = 0
    /\ MaxBackfillRuns \in Nat
    /\ MaxTime \in Nat \ {0}
    /\ MaxBoots \in Nat /\ MaxEvents \in Nat

VARIABLES
    sched,      \* the job's schedule
    host,       \* the offset of the host's clock
    now,        \* the clock, in UTC
    up,         \* the process is running
    ticked,     \* the last second the run loop has evaluated
    asked,      \* the second at which the last Replay of this process that went
                \* through took its scan, or Never
    todo,       \* the occurrences the backfill has still to execute
    boots,      \* processes so far
    events,     \* the server's and the operator's events so far
    made,       \* history: the instants the job was executed for
    baseline,   \* history: those that were the catch-up of a job never run
    since,      \* history: end of the first run stored since the history was last
                \* cleared, or since a process that had not replayed stored one
    beyond,     \* history: missed instants beyond a documented bound
    misaligned  \* history: a cron job's scan has begun in mid-minute

past == <<made, baseline, since, beyond, misaligned>>
vars == <<sched, host, now, up, ticked, asked, todo, boots, events, storeVars, past>>

Time == 0 .. MaxTime
Run == [for : Time, fin : Time]
ValueOf == [k \in Key |-> CASE k = "schedule" -> Schedules
                            [] k = "index" -> {"job"}
                            [] k = "runs" -> Run]

TypeOK ==
    /\ sched \in Schedules
    /\ host \in Hosts
    /\ now \in Time \ {Never}
    /\ up \in BOOLEAN
    /\ ticked \in 0 .. now
    /\ asked \in 0 .. now
    /\ todo \subseteq 1 .. asked
    /\ boots \in 0 .. MaxBoots
    /\ events \in 0 .. MaxEvents
    /\ StoreTypeOK(ValueOf)
    /\ made \subseteq 1 .. now
    /\ baseline \subseteq Time
    /\ since \in 0 .. now
    /\ beyond \subseteq Time
    /\ misaligned \in BOOLEAN

-----------------------------------------------------------------------------
(* What Replay computes.                                                   *)

Stored == {db["runs"][i] : i \in 1 .. Len(db["runs"])}

\* All stored runs are successes here; Recovery has the failed ones.
LastSuccessful == Max({Never} \cup {r.fin : r \in Stored})

Latest(S, k) == {t \in S : Cardinality({u \in S : t < u}) < k}

\* What README documents a backfill may leave out: instants further back than
\* the scan window, and those with MaxBackfillRuns later missed ones.
BeyondBounds(last) ==
    LET missed == {t \in last + 1 .. now : Fires(sched, t, host)}
    IN  {t \in missed :
            \/ t < WindowEdge(sched, now)
            \/ Cardinality({u \in missed : t < u}) >= MaxBackfillRuns}

-----------------------------------------------------------------------------
Init ==
    /\ sched \in Schedules
    /\ host \in Hosts
    /\ now = 1
    /\ up = FALSE
    /\ ticked = 1
    /\ asked = Never
    /\ todo = {}
    /\ boots = 0
    /\ events = 0
    /\ StoreInit
    /\ made = {}
    /\ baseline = {}
    /\ since = Never
    /\ beyond = {}
    /\ misaligned = FALSE

\* The program starts at a later time: OnError, AddPersistenceStorage, which
\* builds the provider and opens it, AddScheduler, which starts the loop (its
\* first tick is a second away), and the job is declared.
Boot(t) ==
    /\ ~up
    /\ boots < MaxBoots
    /\ boots' = boots + 1
    /\ now' = t
    /\ ticked' = t
    /\ up' = TRUE
    /\ Open
    /\ UNCHANGED <<sched, host, asked, todo, events, reachable, db, past>>

\* Sync's writes; an id is indexed once.
Synced(d) ==
    LET e == Create(d, "schedule", sched)
    IN  IF Get(e, "index") = <<>> THEN CreateMany(e, "index", "job") ELSE e

Event ==
    /\ events < MaxEvents
    /\ events' = events + 1

\* Replay writes the schedule, loads it and the runs, and starts the backfill.
\* The program may call it, early or late, and the dashboard again (bound: this
\* is an event, and the last backfill has ended).  If no operation answers it
\* returns the error and nothing has changed.
Replay ==
    /\ up
    /\ todo = {}
    /\ Answers
    /\ IF asked = Never THEN UNCHANGED events ELSE Event
    /\ asked' = now
    /\ db' = Synced(db)
    /\ LET last == LastSuccessful IN
       /\ todo' = Latest(MissedOccurrences(sched, last, now, host), MaxBackfillRuns)
       /\ IF last = Never
          THEN baseline' = baseline \cup {now} /\ UNCHANGED <<beyond, misaligned>>
          ELSE /\ beyond' = beyond \cup BeyondBounds(last)
               /\ misaligned' = (misaligned \/ Misaligned(sched, last, now, host))
               /\ UNCHANGED baseline
    /\ UNCHANGED <<sched, host, now, up, ticked, boots, reachable, client, made,
                   since>>

\* execute for the occurrence t.  A run that cannot be saved is reported and
\* forgotten.
Execute(t) ==
    /\ made' = made \cup {t}
    /\ db' = CreateMany(db, "runs", [for |-> t, fin |-> now])
    /\ since' = IF Answers /\ (since = Never \/ asked = Never) THEN now ELSE since
    /\ UNCHANGED <<baseline, beyond, misaligned>>

\* The backfill executes its oldest occurrence.
Backfill(t) ==
    /\ t \in todo
    /\ \A u \in todo : t <= u
    /\ todo' = todo \ {t}
    /\ Execute(t)
    /\ UNCHANGED <<sched, host, now, up, ticked, asked, boots, events, reachable, client>>

\* A second passes; the loop misses none (RunLoop).
Advance ==
    /\ up
    /\ ticked = now
    /\ now < MaxTime
    /\ now' = now + 1
    /\ UNCHANGED <<sched, host, up, ticked, asked, todo, boots, events, storeVars, past>>

\* The run loop evaluates the second, whatever Replay and the backfill are at ...
Tick ==
    /\ up
    /\ ticked < now
    /\ ticked' = now
    /\ UNCHANGED <<sched, host, now, up, asked, todo, boots, events, reachable, client>>

\* ... and fires, or does not.
Fire ==
    /\ Tick
    /\ Fires(sched, now, host)
    /\ Execute(now)

Pass ==
    /\ Tick
    /\ ~Fires(sched, now, host)
    /\ UNCHANGED <<db, past>>

\* The process ends, when it is idle; the provider goes with it.
Stop ==
    /\ up
    /\ todo = {}
    /\ ticked = now
    /\ up' = FALSE
    /\ asked' = Never
    /\ NewProvider
    /\ UNCHANGED <<sched, host, now, ticked, todo, boots, events, reachable, db, past>>

\* The operator clears the job's history.
ClearHistory ==
    /\ Event
    /\ up
    /\ Answers
    /\ db' = Delete(db, "runs")
    /\ since' = Never
    /\ UNCHANGED <<sched, host, now, up, ticked, asked, todo, boots, reachable,
                   client, made, baseline, beyond, misaligned>>

\* The server goes away, or comes back.
Outage ==
    /\ Event
    /\ reachable' = ~reachable
    /\ UNCHANGED <<sched, host, now, up, ticked, asked, todo, boots, client, db,
                   past>>

Next ==
    \/ \E t \in now + 1 .. MaxTime : Boot(t)
    \/ Replay
    \/ \E t \in todo : Backfill(t)
    \/ Advance
    \/ Fire
    \/ Pass
    \/ Stop
    \/ ClearHistory
    \/ Outage

Spec == Init /\ [][Next]_vars

-----------------------------------------------------------------------------
(* Properties.                                                             *)

\* This process has replayed, its backfill is done, and what its schedule means
\* is not in dispute between the loop and the scan.
AfterReplay == asked # Never /\ todo = {} /\ since # Never /\ Agreeing(sched, host)

\* Every instant the loop would have fired at since "since" has been executed
\* for, but for those beyond a documented bound.
MissedRunsMade ==
    {t \in since + 1 .. ticked : Fires(sched, t, host)} \subseteq made \cup beyond

\* Replay "backfills the runs each job missed while the process was down"
\* (README.md:249), within its two bounds (README.md:251).  So it is after outages
\* that lost runs of the record, after a process that could not open the store at
\* all and ran on in the dark, and with the loop at work beside the backfill.
\* Three things end the claim: a cleared history and a run that a process stored
\* before its Replay had read the record move "since", and once a cron job's scan
\* has begun in mid-minute nothing is claimed (WindowKept).
CaughtUp == AfterReplay /\ ~misaligned => MissedRunsMade

\* "It scans at most 100_000 steps (keeping the most recent window) and replays at
\* most 500 occurrences per job" (README.md:251; persistence.go:404-408): so it is
\* also after a downtime that is longer than the window.
WindowKept == AfterReplay => MissedRunsMade

\* The job is executed for no instant that its schedule, as the run loop reads
\* it, does not have, but for the catch-up of a job that never ran
\* (missedOccurrences against IsDue and runJobs).
NothingOutOfSchedule ==
    Agreeing(sched, host) =>
        \A t \in made \ baseline : Fires(sched, t, host)

\* A run is put on record for an instant that has one already only if the instant
\* is the second in which this process's last Replay took its scan: that one both
\* the loop and the backfill may execute.  So what an earlier process did, or this
\* one before, is not repeated, whatever second a process stopped at, came back
\* at or found the window's edge at (missedOccurrences, lastSuccessful, runJobs).
RepeatsOnlyAsked ==
    LET runs == db["runs"]
        new == db'["runs"][Len(runs) + 1]
    IN  Len(db'["runs"]) > Len(runs) /\ (\E r \in Stored : r.for = new.for)
            => new.for = asked

StoredOnce == [][RepeatsOnlyAsked]_vars
=============================================================================
