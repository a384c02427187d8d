------------------------------ MODULE Recovery ------------------------------
(***************************************************************************)
(* Recovery of missed runs in the scheduler: the run loop, the execution   *)
(* of a job and the recording of its outcome, crashes and restarts, and    *)
(* Replay with the backfill goroutines it starts                           *)
(* (internals/pkg/scheduler/persistence.go, scheduler.go, and the control  *)
(* methods of observability.go).                                           *)
(*                                                                         *)
(* Time is counted in steps of the job's resolution: a second for a        *)
(* second-based job, a minute for a cron job (missedOccurrences' "step").  *)
(* Step 0 is Go's zero time, "never".  Which steps a job is due at is the  *)
(* constant Due.  All jobs opted into persistence.                         *)
(***************************************************************************)
EXTENDS Naturals, FiniteSets, FiniteSetsExt

CONSTANTS
    Job,               \* the persistent jobs
    Caller,            \* who may be inside Replay: the program, the dashboard
    Cron,              \* the cron jobs among them; the others are second-based
    Due,               \* Due[j]: the steps at which j's schedule is due
    MaxBackfillRuns,   \* persistence.go: maxBackfillRuns (500)
    MaxBackfillScans,  \* persistence.go: maxBackfillScans (100000)
    MaxTime,           \* bound of the model: the clock stops here
    MaxInFlight,       \* bound of the model: with as many executions of a job in
                       \* flight, time and the operator wait
    Env                \* what the environment may do, a subset of Hazards

Time == 0 .. MaxTime
Step == 1 .. MaxTime

\* crash:   the process may die at any moment, not only when it is idle
\* kill:    it may die while a backfill is at work, the run loop being idle
\* early:   the run loop may tick before Replay has read the stored runs
\* clear:   an operator may clear a job's history
\* pause:   an operator may pause and resume jobs
\* trigger: an operator may run a job out of schedule
\* fail:    a job may fail
\* store:   a write of the store may fail
\* read:    a read of it may
Hazards == {"crash", "kill", "early", "clear", "pause", "trigger", "fail", "store",
            "read"}

ASSUME RecoveryAssumption ==
    /\ IsFiniteSet(Job)
    /\ Cron \subseteq Job
    /\ Due \in [Job -> SUBSET Step]
    /\ MaxBackfillRuns \in Nat
    /\ MaxBackfillScans \in Nat
    /\ MaxTime \in Nat \ {0}
    /\ MaxInFlight \in Nat \ {0}
    /\ Env \subseteq Hazards
    /\ {"tick", "trigger"} \cap Caller = {}

VARIABLES
    now,        \* wall clock
    ticked,     \* last step for which the run loop has evaluated the jobs
    up,         \* the process is running
    paused,     \* the paused jobs (in memory only)
    read,       \* jobs whose stored runs a Replay has read since the boot
    flight,     \* flight[j]: the executions of j that have begun
    replaying,  \* replaying[c]: the jobs c's Replay still has to go through
    backfill,   \* backfill[c][j]: the backfill goroutine Replay started
    runs,       \* runs[j]: the stored run history (survives a crash)
    accounted,  \* history: the steps j was executed for, or that a pause or a
                \* documented bound let it skip
    since,      \* history: end of j's first stored successful run, or 0
    kept,       \* history: the steps a successful run is stored for
    settled,    \* history: those of them stored before the last boot
    cut         \* history: the jobs of which a scan has begun in mid-minute

memory == <<paused, read, flight, replaying, backfill>>
history == <<accounted, since, kept, settled, cut>>
vars == <<now, ticked, up, memory, runs, history>>

RunRecord == [fin : Time, ok : BOOLEAN]
Execution == [for : Step, by : Caller \cup {"tick", "trigger"},
              st : {"running", "ok", "failed"}, fin : Time]
Backfill == [st : {"none", "ready", "going"}, last : Time, todo : SUBSET Step]

NoBackfill == [st |-> "none", last |-> 0, todo |-> {}]
Begun(t, who) == [for |-> t, by |-> who, st |-> "running", fin |-> 0]

TypeOK ==
    /\ now \in Step
    /\ ticked \in Time
    /\ up \in BOOLEAN
    /\ paused \subseteq Job
    /\ read \subseteq Job
    /\ flight \in [Job -> SUBSET Execution]
    /\ replaying \in [Caller -> SUBSET Job]
    /\ backfill \in [Caller -> [Job -> Backfill]]
    /\ runs \in [Job -> SUBSET RunRecord]
    /\ accounted \in [Job -> SUBSET Step]
    /\ since \in [Job -> Time]
    /\ kept \in [Job -> SUBSET Step]
    /\ settled \in [Job -> SUBSET Step]
    /\ cut \subseteq Job

-----------------------------------------------------------------------------
(* What Replay and backfill compute.                                       *)

\* The cursor of recovery: the latest end of a successful stored run.
LastSuccessful(stored) == Max({0} \cup {r.fin : r \in {s \in stored : s.ok}})

\* With a window of N steps the scan begins at the step after the cursor, or at
\* the window's edge, N steps of time before now.  The edge is not truncated:
\* unless now is in the first second of a minute ("whole"), a cron job's scan that
\* begins there looks at a second of each minute that no cron job is due at.
MidMinute(j, last, t, whole) ==
    j \in Cron /\ ~whole /\ last # 0 /\ last + 1 + MaxBackfillScans <= t

\* (Mutants: the cursor's step is not skipped; the present step is left out; the
\* catch-up baseline is one step early.)
MissedOccurrences_FromCursor(j, last, t, whole) ==
    IF last = 0
    THEN {t}
    ELSE {s \in Due[j] : /\ last <= s /\ s <= t /\ t <= s + MaxBackfillScans
                         /\ ~MidMinute(j, last, t, whole)}
MissedOccurrences_BeforeNow(j, last, t, whole) ==
    IF last = 0
    THEN {t}
    ELSE {s \in Due[j] : /\ last < s /\ s < t /\ t <= s + MaxBackfillScans
                         /\ ~MidMinute(j, last, t, whole)}
MissedOccurrences_EarlyBaseline(j, last, t, whole) ==
    IF last = 0
    THEN {t - 1}
    ELSE {s \in Due[j] : /\ last < s /\ s <= t /\ t <= s + MaxBackfillScans
                         /\ ~MidMinute(j, last, t, whole)}

\* A job that never ran is caught up once, now; any other gets its due steps
\* after the cursor, no further back than the scan window.
MissedOccurrences(j, last, t, whole) ==
    IF last = 0
    THEN {t}
    ELSE {s \in Due[j] : /\ last < s /\ s <= t /\ t <= s + MaxBackfillScans
                         /\ ~MidMinute(j, last, t, whole)}

\* The k latest members of S.
Latest(S, k) == {s \in S : Cardinality({u \in S : s < u}) < k}

\* The occurrence a backfill goroutine executes next.  (Mutant: the newest.)
NextOccurrence_Newest(todo) == Max(todo)
NextOccurrence(todo) == Min(todo)

\* What README documents a backfill may leave out: steps older than the scan
\* window, and steps with MaxBackfillRuns newer missed ones.
BeyondBounds(j, last, t) ==
    LET missed == {s \in Due[j] : last # 0 /\ last < s /\ s <= t}
    IN  {s \in missed : \/ s + MaxBackfillScans < t
                        \/ Cardinality({u \in missed : s < u}) >= MaxBackfillRuns}

-----------------------------------------------------------------------------
Init ==
    /\ now = 1
    /\ ticked = 1
    /\ up = TRUE
    /\ paused = {}
    /\ read = {}
    /\ flight = [j \in Job |-> {}]
    /\ replaying = [c \in Caller |-> {}]
    /\ backfill = [c \in Caller |-> [j \in Job |-> NoBackfill]]
    /\ runs = [j \in Job |-> {}]
    /\ accounted = [j \in Job |-> {}]
    /\ since = [j \in Job |-> 0]
    /\ kept = [j \in Job |-> {}]
    /\ settled = [j \in Job |-> {}]
    /\ cut = {}

\* Time passes.  While the process is up the run loop evaluates every step
\* (whether its ticker does is the subject of the RunLoop module).
Advance ==
    /\ up => ticked = now
    /\ now < MaxTime
    /\ \A j \in Job : Cardinality(flight[j]) < MaxInFlight
    /\ now' = now + 1
    /\ UNCHANGED <<ticked, up, memory, runs, history>>

LoopIdle ==
    /\ ticked = now
    /\ \A j \in Job : \A e \in flight[j] : e.by \in Caller

Idle ==
    /\ LoopIdle
    /\ \A j \in Job : flight[j] = {}
    /\ \A c \in Caller : replaying[c] = {}
    /\ \A c \in Caller, j \in Job : backfill[c][j].st = "none"

\* The process ends: everything but the store is lost.
Crash ==
    /\ up
    /\ Idle \/ "crash" \in Env \/ ("kill" \in Env /\ LoopIdle)
    /\ up' = FALSE
    /\ paused' = {}
    /\ read' = {}
    /\ flight' = [j \in Job |-> {}]
    /\ replaying' = [c \in Caller |-> {}]
    /\ backfill' = [c \in Caller |-> [j \in Job |-> NoBackfill]]
    /\ UNCHANGED <<now, ticked, runs, history>>

\* The program starts again and re-declares its jobs.  The first tick is one
\* step away.
Boot ==
    /\ ~up
    /\ up' = TRUE
    /\ ticked' = now
    /\ settled' = kept
    /\ UNCHANGED <<now, memory, runs, accounted, since, kept, cut>>

-----------------------------------------------------------------------------
(* The run loop and the execution of a job.                                *)

\* Replay has read the stored runs before the loop's first tick, which is a step
\* away from Boot, unless the loop is early or a read fails: it ticks all the same.
ReplayedFirst == read = Job \/ Env \cap {"early", "read"} # {}

DueNow == {j \in Job : now \in Due[j]}

\* runJobs for this step: each due job that is not paused is executed in a
\* goroutine of its own.
Tick ==
    /\ up
    /\ ticked < now
    /\ ReplayedFirst
    /\ ticked' = now
    /\ flight' = [j \in Job |-> IF j \in DueNow \ paused
                                THEN flight[j] \cup {Begun(now, "tick")}
                                ELSE flight[j]]
    /\ accounted' = [j \in Job |-> IF j \in DueNow THEN accounted[j] \cup {now}
                                                   ELSE accounted[j]]
    /\ UNCHANGED <<now, up, paused, read, replaying, backfill, runs, since, kept,
                   settled, cut>>

\* The operator runs a job out of schedule (bound: one manual execution of a
\* job at a time).
TriggerNow(j) ==
    /\ up
    /\ "trigger" \in Env
    /\ ReplayedFirst
    /\ Cardinality(flight[j]) < MaxInFlight
    /\ \A e \in flight[j] : e.by # "trigger"
    /\ flight' = [flight EXCEPT ![j] = @ \cup {Begun(now, "trigger")}]
    /\ UNCHANGED <<now, ticked, up, paused, read, replaying, backfill, runs, history>>

\* runNow returns, or is recovered from a panic, and execute stamps the end.
Finish(j) ==
    \E e \in flight[j], result \in {"ok", "failed"} :
        /\ result = "failed" => "fail" \in Env
        /\ e.st = "running"
        /\ flight' = [flight EXCEPT ![j] =
                         (@ \ {e}) \cup {[e EXCEPT !.st = result, !.fin = now]}]
        /\ UNCHANGED <<now, ticked, up, paused, read, replaying, backfill, runs, history>>

\* What persistRun appends to the history for a finished execution.
RecordOf(e) == [fin |-> e.fin, ok |-> e.st = "ok"]

\* execute appends the run to the stored history and returns.
Persist(j) ==
    \E e \in flight[j] :
        /\ e.st # "running"
        /\ flight' = [flight EXCEPT ![j] = @ \ {e}]
        /\ runs' = [runs EXCEPT ![j] = @ \cup {RecordOf(e)}]
        /\ since' = [since EXCEPT ![j] = IF @ = 0 /\ e.st = "ok" THEN e.fin ELSE @]
        /\ kept' = [kept EXCEPT ![j] = IF e.st = "ok" THEN @ \cup {e.for} ELSE @]
        /\ UNCHANGED <<now, ticked, up, paused, read, replaying, backfill,
                       accounted, settled, cut>>

\* The append fails: the error is reported, the run is not stored.
PersistFails(j) ==
    \E e \in flight[j] :
        /\ "store" \in Env
        /\ e.st # "running"
        /\ flight' = [flight EXCEPT ![j] = @ \ {e}]
        /\ UNCHANGED <<now, ticked, up, paused, read, replaying, backfill, runs, history>>

-----------------------------------------------------------------------------
(* Replay and the backfill goroutines.                                     *)

\* Replay loads the stored schedules (bound: a caller begins its next Replay
\* after the backfills of its previous one have ended).
ReplayBegin(c) ==
    /\ up
    /\ replaying[c] = {}
    /\ \A j \in Job : backfill[c][j].st = "none"
    /\ replaying' = [replaying EXCEPT ![c] = Job]
    /\ UNCHANGED <<now, ticked, up, paused, read, flight, backfill, runs, history>>

\* Replay loads a job's runs and starts its backfill from the cursor.
ReplayJob(c, j) ==
    /\ j \in replaying[c]
    /\ replaying' = [replaying EXCEPT ![c] = @ \ {j}]
    /\ read' = read \cup {j}
    /\ backfill' = [backfill EXCEPT ![c][j] =
                       [st |-> "ready", last |-> LastSuccessful(runs[j]), todo |-> {}]]
    /\ UNCHANGED <<now, ticked, up, paused, flight, runs, history>>

\* The runs cannot be loaded: the error is reported, the job is passed over.
ReplayJobFails(c, j) ==
    /\ "read" \in Env
    /\ j \in replaying[c]
    /\ replaying' = [replaying EXCEPT ![c] = @ \ {j}]
    /\ UNCHANGED <<now, ticked, up, paused, read, flight, backfill, runs, history>>

\* The goroutine computes, at its own time, what is to be replayed.
BackfillStart(c, j) ==
    LET b == backfill[c][j] IN
    /\ b.st = "ready"
    /\ \E whole \in BOOLEAN :
          /\ backfill' = [backfill EXCEPT ![c][j] =
                 [st |-> "going", last |-> b.last,
                  todo |-> Latest(MissedOccurrences(j, b.last, now, whole), MaxBackfillRuns)]]
          /\ cut' = IF MidMinute(j, b.last, now, whole) THEN cut \cup {j} ELSE cut
    /\ accounted' = [accounted EXCEPT ![j] = @ \cup BeyondBounds(j, b.last, now)]
    /\ UNCHANGED <<now, ticked, up, paused, read, flight, replaying, runs,
                   since, kept, settled>>

\* The loop of backfill goes on when the execution it called has returned; the
\* pause flag is not looked at.  (Mutant: it waits for a paused job.)
LoopMayGoOn_UnlessPaused(c, j) == j \notin paused /\ \A e \in flight[j] : e.by # c
LoopMayGoOn(c, j) == \A e \in flight[j] : e.by # c

\* The next occurrence is executed.
BackfillNext(c, j) ==
    LET b == backfill[c][j]
        t == NextOccurrence(b.todo) IN
    /\ b.st = "going"
    /\ b.todo # {}
    /\ LoopMayGoOn(c, j)
    /\ backfill' = [backfill EXCEPT ![c][j].todo = @ \ {t}]
    /\ flight' = [flight EXCEPT ![j] = @ \cup {Begun(t, c)}]
    /\ accounted' = [accounted EXCEPT ![j] = @ \cup {t}]
    /\ UNCHANGED <<now, ticked, up, paused, read, replaying, runs, since,
                   kept, settled, cut>>

BackfillEnd(c, j) ==
    /\ backfill[c][j].st = "going"
    /\ backfill[c][j].todo = {}
    /\ LoopMayGoOn(c, j)
    /\ backfill' = [backfill EXCEPT ![c][j] = NoBackfill]
    /\ UNCHANGED <<now, ticked, up, paused, read, flight, replaying, runs, history>>

-----------------------------------------------------------------------------
(* The operator's controls.                                                *)

Pause(j) ==
    /\ up
    /\ "pause" \in Env
    /\ paused' = paused \cup {j}
    /\ UNCHANGED <<now, ticked, up, read, flight, replaying, backfill, runs, history>>

Resume(j) ==
    /\ up
    /\ "pause" \in Env
    /\ paused' = paused \ {j}
    /\ UNCHANGED <<now, ticked, up, read, flight, replaying, backfill, runs, history>>

\* ClearHistory deletes the stored runs, and with them the cursor.
ClearHistory(j) ==
    /\ up
    /\ "clear" \in Env
    /\ runs' = [runs EXCEPT ![j] = {}]
    /\ kept' = [kept EXCEPT ![j] = {}]
    /\ settled' = [settled EXCEPT ![j] = {}]
    /\ UNCHANGED <<now, ticked, up, memory, accounted, since, cut>>

-----------------------------------------------------------------------------
JobStep(j) == Finish(j) \/ Persist(j)
ReplayStep(c, j) == ReplayJob(c, j) \/ BackfillStart(c, j) \/ BackfillNext(c, j)
                        \/ BackfillEnd(c, j)

Next ==
    \/ Advance
    \/ Crash
    \/ Boot
    \/ Tick
    \/ \E j \in Job : TriggerNow(j)
    \/ \E j \in Job : JobStep(j)
    \/ \E j \in Job : PersistFails(j)
    \/ \E c \in Caller : ReplayBegin(c)
    \/ \E c \in Caller, j \in Job : ReplayStep(c, j)
    \/ \E c \in Caller, j \in Job : ReplayJobFails(c, j)
    \/ \E j \in Job : Pause(j)
    \/ \E j \in Job : Resume(j)
    \/ \E j \in Job : ClearHistory(j)

Spec == Init /\ [][Next]_vars

\* Goroutines are scheduled and jobs return: each step of an execution and of
\* a Replay that has begun is eventually taken.  Nobody is obliged to call
\* Replay, and the clock, crashes and operators owe nothing.
Fairness ==
    /\ \A j \in Job : WF_vars(JobStep(j))
    /\ \A c \in Caller, j \in Job : WF_vars(ReplayStep(c, j))

FairSpec == Spec /\ Fairness

-----------------------------------------------------------------------------
(* Properties.                                                             *)

\* j's missed runs have been dealt with: a Replay of this process has read its
\* history and no backfill of it is pending.
Recovered(j) ==
    /\ up
    /\ j \in read
    /\ \A c \in Caller : backfill[c][j].st = "none"

\* Replay "backfills the runs each job missed while the process was down"
\* (README.md:249): once a job is recovered, every step it was due at since its
\* first stored success has been executed, or fell under a pause or one of the two
\* bounds README documents.  It relates what several processes in a row did,
\* through the stored cursor.  Of a cron job whose scan once began in mid-minute
\* nothing is claimed: it lost what was inside the window, too (Lifetime).
NoMissedRunLost ==
    \A j \in Job \ cut :
        Recovered(j) /\ since[j] # 0 =>
            {t \in Due[j] : since[j] < t /\ t <= ticked}
                \subseteq accounted[j]

\* A run that was stored as succeeded before a restart is not made again by the
\* new process, neither by its run loop nor by a backfill, whenever the old one
\* died and however many Replays run at once (execute, lastSuccessful,
\* missedOccurrences).
NoSettledRunRepeated ==
    \A j \in Job : \A e \in flight[j] :
        e.by # "trigger" => e.for \notin settled[j]

\* A backfill goes "oldest-first", one execution at a time, and never replays
\* more than MaxBackfillRuns occurrences (backfill, persistence.go:404-408).
BackfillInOrder ==
    \A c \in Caller, j \in Job :
        /\ Cardinality(backfill[c][j].todo) <= MaxBackfillRuns
        /\ \A e \in flight[j] : e.by = c =>
              /\ \A t \in backfill[c][j].todo : e.for < t
              /\ \A f \in flight[j] : f.by = c => f = e

\* Every backfill that begins comes to its end, unless the process goes down,
\* whatever fails, is paused or is cleared meanwhile: with NoMissedRunLost, the
\* missed runs are eventually made (backfill, execute).
BackfillEnds ==
    \A c \in Caller, j \in Job :
        backfill[c][j].st = "ready" ~> backfill[c][j].st = "none"

\* "Pause stops a job from firing until Resume is called"
\* (observability.go:333): while a job is paused, and not triggered by hand, no
\* execution of it begins.
PauseStopsFiring ==
    [][\A j \in Job : j \in paused =>
          \A e \in flight'[j] \ flight[j] :
              e.st = "running" => e.by = "trigger"]_vars

-----------------------------------------------------------------------------
(* Inductive strengthenings of BackfillInOrder and NoSettledRunRepeated.   *)

\* One backfill: it has nothing left to do and no execution of its own before
\* it has started, its execution is the only one and older than what is left.
InOrder(c, j) ==
    LET b == backfill[c][j] IN
    /\ j \in replaying[c] => b.st = "none"
    /\ b.st # "going" => b.todo = {} /\ \A e \in flight[j] : e.by # c
    /\ Cardinality(b.todo) <= MaxBackfillRuns
    /\ \A e \in flight[j] : e.by = c =>
          /\ \A t \in b.todo : e.for < t
          /\ \A f \in flight[j] : f.by = c => f = e

OrderInv == \A c \in Caller, j \in Job : InOrder(c, j)

\* One job: its settled steps are in the past of the run loop and before the
\* cursor of every backfill, because their stored runs ended no earlier.
Settled(j) ==
    /\ \A e \in flight[j] : /\ e.for <= now
                            /\ e.st # "running" => e.for <= e.fin
                            /\ e.by # "trigger" => e.for \notin settled[j]
    /\ \A t \in kept[j] : t <= now /\ \E r \in runs[j] : r.ok /\ t <= r.fin
    /\ \A t \in settled[j] : t <= ticked /\ \E r \in runs[j] : r.ok /\ t <= r.fin
    /\ \A c \in Caller :
          /\ \A t \in backfill[c][j].todo : t <= now /\ t \notin settled[j]
          /\ backfill[c][j].st = "ready" =>
                \A t \in settled[j] : t <= backfill[c][j].last

DownEmpty ==
    ~ up => /\ \A j \in Job : flight[j] = {}
            /\ \A c \in Caller : replaying[c] = {}
            /\ \A c \in Caller, j \in Job : backfill[c][j] = NoBackfill

SettledInv ==
    /\ ticked <= now
    /\ DownEmpty
    /\ \A j \in Job : Settled(j)
=============================================================================
