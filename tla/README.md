# gocoravel in TLA+

A model of [gocoravel](../src/README.md), a Go job scheduler: a process holds a
table of jobs, a run loop evaluates them every second, runs and schedules of
opted-in jobs are kept in Redis, `Replay` makes up after a restart for the runs
that were missed, and a dashboard controls and shows it all. Paths below are
relative to `src/`; `scheduler/` stands for `internals/pkg/scheduler/`. The
repository has no tests: what the properties state comes from its README, its
comments and its code.

- [The system](#the-system) - components, state, operations, what is hard
- [Modules](#modules) - which module models what, and how
- [Runs](#runs) - what TLC checks, with which bounds, and what it shows
- [Findings](#findings)
- [Proofs](#proofs)
- [What is not modelled](#what-is-not-modelled)
- [Plan](#plan)

## The system

| Component | Code | State | Operations |
| --- | --- | --- | --- |
| Missed-run recovery | `scheduler/persistence.go` | run history per job (Redis), backfill goroutines | `execute`, `persistRun`, `Replay`, `backfill` |
| Job registry and Sync | `scheduler/persistence.go`, `scheduler.go`, `schedule_event.go` | task table, ids and flags of jobs, stored schedules and their index | `Schedule*`, `Name`, `EnsurePersistence`, `Sync`, `loadSchedules`, `lookup`, `scheduleFromState`, `Unschedule` |
| Run loop and host | `scheduler/scheduler_host.go`, `scheduler.go` | tickers, goroutines, pause flags | `Start`, `RunSchedulerPerSecond`, `RunAt`, `runJobs`, `CancelTasks` |
| Cadence | `scheduler/schedule_event.go`, `persistence.go` | none (pure) | `Every*`, `Hourly*`, ..., `IsDue`, `missedOccurrences` |
| Feed and dashboard | `scheduler/observability.go`, `internals/pkg/dashboard/` | histories, counters, subscribers' channels; the page's timer and requests | `record`, `publish`, `subscribe`, `unsubscribe`, `Pause`, `Resume`, `TriggerNow`, `ClearHistory`, the stream handler, the page's `render` |
| Concurrent dictionary | `internals/pkg/collections/dictionary/concurrent_dictionary/` | buckets, stripe locks, stripe counts | `TryAdd`, `TryRemove`, `ToMap`, `Get`, `resize` |
| Store and providers | `internals/pkg/store/` | Redis connection, its `openErr` | `Get`, `Create`, `Append`, `List`, `Delete`, `Open` |
| Cronna | `internals/pkg/cronna/` | none that anything uses | a second, unfinished scheduler |
| Facade and program | `internals/pkg/coravel/`, `main.go` | wiring | `AddScheduler`, `UseScheduler`, `Replay`, `Stop` |
| Delegates, hosted services | `internals/pkg/system/`, `services/` | none | wrappers round the user's functions |

How they interact. The program declares its jobs into the dictionary, while the
host's loop, which `AddScheduler` has started already, reads it with `ToMap`
once a second. For each due job a goroutine runs `execute`: it runs the user's
function, appends the outcome to the store and records it in the feed, which
publishes an event to every connected page. `Replay` (called by the program,
and by the dashboard's `POST /api/replay`, possibly at the same time) syncs the
table with the store, rebuilds jobs the program has not declared, and starts a
goroutine per job that executes what was missed. Dashboard handlers change the
pause flags, the table and the histories beside all this. Only the dictionary
and the feed have locks; everything else is unsynchronised.

What is hard, and what makes each part correct:

- **Recovery.** Runs, ticks, manual runs and backfills of one job overlap, the
  process may die between any two of their steps, and all that survives is the
  run history, from which a single cursor is derived. Correct: no missed run is
  lost, no recorded success is repeated, backfills are ordered, bounded and end.
- **Registry.** `Sync` re-keys the table in two steps, writes to the store in
  three, and may run concurrently with itself and with `Unschedule`. Correct:
  an id has one object, declared jobs stay in the table, what is stored suffices
  for the next process.
- **Run loop.** The second a tick stands for is read from the clock when a
  goroutine is scheduled; operators act while goroutines of several ticks are at
  work. Correct: each second evaluated once, due jobs executed, controls obeyed.
- **Dictionary.** Lock striping with off-by-ones, a reader that takes many
  locks, a resize under a lock. Correct: an atomic map whose operations return.
- **Feed and pages.** Events are dropped, connections break, refreshes are
  asynchronous. Correct: a page catches up, nobody waits for it.
- **Cadence.** Two implementations of "due" (live and backfill) that must agree
  across boundaries, time zones and long gaps.

`PROJECT.json` lists every hazard of this kind with its line.

## Modules

| Module | Models | MC module, runs | Proofs |
| --- | --- | --- | --- |
| `Recovery` | execution, history, crash and restart, Replay's backfills, controls | `MCRecovery`: `recovery_*` | `RecoveryProofs` |
| `Registry` | declaring, `Sync`, stored schedules, rebuilding, unscheduling | `MCRegistry`: `registry*` | `RegistryProofs` |
| `RunLoop` | host, ticker, `runJobs`, pause, resume, unschedule | `MCRunLoop`: `runloop` | `RunLoopProofs` |
| `Cadence` | the schedule builders, `IsDue`, `missedOccurrences` (operators, no state) | through `Lifetime` | `CadenceProofs` |
| `Store` | the data source, its provider and the Redis keys, as operators over a server that comes and goes | through `Lifetime` | through `LifetimeProofs` |
| `Lifetime` | one job's life over several processes: `Cadence` and `Store` composed | `MCLifetime`: `lifetime`, `lifetime_window` | `LifetimeProofs` |
| `ConcurrentDictionary` | the striped hash map | `MCConcurrentDictionary`: `dictionary*` | `DictionaryProofs` |
| `AtomicMap` | what the map promises: operations atomic between call and return | through `ConcurrentDictionary` | |
| `Stream` | publish/subscribe, the stream handler, the page's refreshes | `MCStream`: `stream` | `StreamProofs` |

`Numbers` holds facts the proof modules share (least and greatest members of
sets, quotients and remainders). `PROJECT.json`'s map gives the lines each
definition stands for.

### Recovery

Time is counted in steps of a job's resolution (a second, or a minute for cron
jobs); `Due[j]` is the set of steps job `j` is due at. A process is `up` with
the executions in `flight`, the Replays at work (`replaying`, `backfill`) and
the pause flags, all lost by `Crash`; `runs` is the Redis list of each job.
`Tick` is `runJobs`, `Finish` the return of the user's function with the
time stamp of `execute`, `Persist` the append. `ReplayBegin`/`ReplayJob` are the
second half of `Replay` (the first is Registry's subject), `BackfillStart` the
call of `missedOccurrences` at the goroutine's own time, `BackfillNext` one
iteration of its loop. Which second of a minute it is the step does not say, so
`BackfillStart` chooses: if it is not the first, the scan of a job in `Cron` that
begins at the window's edge finds nothing (`MidMinute`; the edge is not truncated,
`persistence.go:439`). `accounted`, `since`, `kept`, `settled` and `cut` (the jobs
that happened to) are history variables for the properties. `Env` says what the
environment may do beyond an orderly restart: `crash` at any moment, `kill` while
only a backfill is at work, tick `early` (before Replay has read the histories),
`clear` a history, `pause`, `trigger`, jobs that `fail`, a `store` that refuses to
save a run, a `read` by which a Replay is cut off while the loop goes on. In Envs
without `early` and `read` the loop waits for Replay to have read the histories
(`ReplayedFirst`).

That each step is ticked exactly once while the process is up (`Advance`) is
what `RunLoop`'s `NoSecondTwice` and `NoSecondSkipped` establish.

### Registry

A job is an object (`Event`) with an id, a persistence flag and a key in the
table; a process runs one version of the program (`Programs`), which declares
its jobs one after the other (`Declare` then `Configure`: the code's chained
calls after the job is in the table already). A caller's Replay is in turn
`ReplayBegin` (Sync's snapshot), per job `SyncJob`, `SyncRemove`, `SyncAdd`,
`SyncCreate`, `SyncIndex`, `SyncAppend`, then `LoadScheduleIDs`, per id read
`LoadSchedule` (any of these reads may fail, or find nothing), and per stored
schedule `ReplayJob`, `Rebuild`, `LoadRuns`. Table operations are atomic here,
which `ConcurrentDictionary` justifies for keys it calls guarded. Failures of
the store are interleaved where the code handles them. The run-once branches
are left out: nothing sets `_runOnce` but `scheduleFromState`, from a stored
schedule that has it false.

### RunLoop

Time is counted in `Grain` units per second. A loop's ticker fires every second
from the moment the loop began, whatever the wall clock's phase; the goroutine
receives up to `MaxDelay` later and only then reads the second (`Receive`).
`runJobs` is split where other goroutines can come between: snapshot, the look
at each job's flag and cadence, the start of each execution. What an execution
does is Recovery's subject; executions of one job may overlap, as in the code,
where `_preventOverlapping` is never read.

### Cadence, Store and Lifetime

The code has two tests of "due". The run loop's (`Fires`: `runJobs`' gate, then
`IsDue`) looks at the digits of the host's clock; the backfill's
(`MissedOccurrences`) steps through the time since the cursor and looks at the
digits of the job's zone. `Cadence` models both, and the builders, on a calendar
whose minutes, hours and days have any length; an expression is the sets of
values its fields match, which is what gronx, an external library, makes of it.

`Store` is the provider: `Open`'s PING fails once and for all (`openErr`,
`redis_data_provider.go:98`), a connection that was open redials on its own, and
an operation takes effect or returns an error. `Lifetime` puts a persistent job
on top of both: the program boots at any time (`Boot`: the facade's calls up to
the declaration, the loop's start among them) and replays at any time (`Replay`,
which an operator may repeat). From the boot on, the run loop evaluates each
second (`Advance`, then `Fire` or `Pass`) *beside* Replay and the backfill
(`Backfill`), which executes what the scan has found, oldest first: either may
come first in the second that the scan includes. The process stops; the server
goes away and comes back; an operator clears the history. What `Recovery`
interleaves, the start and the end of an execution and the reads of a Replay, is
one step here; what `Recovery` and `Registry` leave to constants or to chance (the
due steps, the cursor as an instant, the second a scan begins at, which writes
fail) is computed as the code does.

### ConcurrentDictionary and AtomicMap

A bucket is a chain of entries; goroutines interleave at each lock operation,
each write and each bucket read by `ToMap`. The bucket array holds the head
entry in place, so a reader without the lock may see it half written:
`Readings` enumerates what it can find. `Guarded` keys are those whose bucket
number is below `Locks - 1`: the code looks for duplicates in the bucket
numbered like the *lock* (`internal.go:45`) and its "all locks" loops leave the
last lock out (`internal.go:96`). `ImplementsAtomicMap` is the refinement of
`AtomicMap` on those keys: an operation takes effect when it writes (or finds
the key), `ToMap` when it has its locks.

### Stream

What a page can show is a `version` that every published change increments; an
event is anonymous, since the page does not look into it
(`dashboard/index.html:191`). A publisher is a goroutine that has executed a
job, or a handler of a control request; a client is a page with the handler of
its connection (`conn`), its channel (`queue`), an event on the `wire`, its
refresh `timer` and the refreshes under way (`render`). The mutex of the feed is
held over several steps only by the publisher that is at `send`.

## Runs

Each passing run has a mutant per property in `PROJECT.json`: a change of one
definition, as a plausible bug would make it, that breaks the property under the
same configuration.

| Run | States | What it shows |
| --- | --- | --- |
| `recovery_restarts` | 3,862,000 | Under orderly restarts with two concurrent callers of Replay and manual runs, once a job is recovered every step it was due at since its first success has been executed or fell under a documented bound (`NoMissedRunLost`), and no success stored before a restart is repeated (`NoSettledRunRepeated`). Takes two minutes. |
| `recovery_hazards` | 246,000 | With crashes anywhere, early ticks, cleared histories, pauses, failing jobs, a failing store, Replays that are cut off and scans that begin in mid-minute: `NoSettledRunRepeated`, `BackfillInOrder` and `BackfillEnds` still hold. |
| `recovery_killed` | violated | `NoMissedRunLost` when the process dies during a backfill. |
| `recovery_paused_fires` | violated | `PauseStopsFiring`. |
| `registry` | 2,450,000 | `OneObjectPerId`, `DeclaredKept`, `SchedulesStored`, `BackfilledOnce`, `RegisteredRebuilt` over a restart with another program version, two callers, a store failure and an unschedule. |
| `registry_unscheduled` | violated | `UnscheduledStaysOut`. |
| `runloop` | 85,000 | `NoSecondTwice`, `NoSecondSkipped`, `OffStaysOff`, `DueIsExecuted`. |
| `lifetime` | 3,549,000 | Over three processes, on every sequence of two outages, recoveries, clearings or repeated Replays, for six schedules and two hosts: after each Replay all that the loop would have fired at has been executed or lies beyond a documented bound (`CaughtUp`), nothing is executed that the schedule does not have (`NothingOutOfSchedule`), and no instant gets a second run on record but the one in which the last Replay took its scan (`StoredOnce`). Takes a minute and a half. |
| `lifetime_window` | violated | `WindowKept`: `CaughtUp` also for cron jobs after a downtime longer than the window. |
| `dictionary` | 228,000 | `SnapshotStable`, `LocksInOrder`, `ImplementsAtomicMap`, `OpsReturn`. |
| `dictionary_resize` | violated | `ResizeCanProceed`. |
| `stream` | 55,000 | `NoSendOnClosed`, `StaleIsPending`, `PageCatchesUp`, `PublishersReturn`, `GoneIsReleased`. |

Deadlock is not checked: in every module all actors may be idle for good (the
clock's bound is reached, nobody calls anything), which is no error.

### Bounds

- *Recovery.* One job (jobs share no state but the clock; the proofs cover any
  number). In `recovery_restarts` a backfill replays 1 run, the scan window is 1
  step and the clock stops at 4: a downtime with two steps missed inside the window
  exceeds the first bound and leaves time for another restart, one of a step more
  exceeds the second. The two callers of Replay are symmetric (no liveness is
  checked). The job's scan is never cut off in mid-minute there, since
  `NoMissedRunLost` claims nothing of one that is. `recovery_hazards` replays up to 2
  runs, so that order matters, has the same window, and stops at 3: the window can
  be exceeded, by a cron job's scan that is then cut off or is not, while the run
  count cannot, so nothing about that bound is shown there. At most two executions
  of a job are in flight, which is enough for a tick, a backfill or a manual run to
  overlap. A caller starts a Replay only after its previous one's backfills ended.
- *Registry.* Three versions of the program, the first process running any of
  them and the second any again: an unnamed job and a named one, the unnamed one
  and a non-persistent one of the same name, the unnamed one alone; so a job can
  lose its persistence, get it, appear or vanish. Two Replays, one restart, at
  most one store failure and one unschedule per process. The callers are
  symmetric (no liveness is checked).
- *RunLoop.* Three units to a second, the phase 1 unit late at most, delays of 1
  unit, three seconds and a fraction, two operator actions, at most two `runJobs`
  at work. One job is due every second, one every other.
- *Lifetime.* Minutes of 3 seconds, hours of 2 minutes, days of 2 hours, and 10
  seconds of time, so that minutes, hours and, in the jobs' zone, a day's end are
  crossed. The zone is an hour ahead; a host shares it or is at UTC. The scan
  window is 2 steps and the backfill bound 2 runs: a downtime can exceed each, by
  seconds or by minutes. Three processes, two events. The schedules: every third
  second; every second one (which does not divide a minute); every minute; at a
  minute of a day; monthly; and `HourlyAt(1)` with its six fields.
- *Dictionary.* Two goroutines, 3 stripes, 5 buckets: two keys collide in a
  guarded bucket, one key is in the unlocked stripe, one in a bucket past the
  number of stripes that shares the guarded keys' lock. Two additions fill a
  stripe. One value suffices: an entry is told from a missing or torn one.
- *Stream.* One page (pages share only the publishers), one job's goroutine and
  one operator, channels of capacity 1 so that events are dropped at once, three
  changes, two broken connections.

### Preconditions

Some properties hold only under a precondition, which the run's bounds state,
and which the code does not enforce:

- `NoMissedRunLost` needs orderly restarts (findings), no cleared history
  (`ClearHistory` deletes the cursor) and a Replay that reads the histories
  before the first tick completes a run. The program in `main.go` has about a
  second for that, because the loop starts with `AddScheduler`. With `clear` or
  `early` in `Env` TLC finds it violated. Nor is it promised that *only* missed
  runs are backfilled: `missedOccurrences` includes the present second, which the
  run loop executes as well. Nor is anything promised of a cron job whose scan has
  begun in mid-minute (`cut`; findings), nor after a Replay that failed to read a
  history (`read` in `Env`): the loop goes on and its next success moves the cursor
  past what was missed.
- `DeclaredKept`, `BackfilledOnce` and `RegisteredRebuilt` are stated of
  processes, or stores, on which Replays did not overlap. A Replay whose lookup
  falls into another one's gap between `SyncRemove` and `SyncAdd` rebuilds the
  job, and the declared object is then refused; two Syncs may both find an id
  missing from the index and append it twice.
- `NoSecondTwice` and `NoSecondSkipped` need the ticker's phase in the second
  plus the scheduling delay to stay below a second; with `MaxDelay = 2` TLC finds
  a second read twice. They also need a `Start` within two seconds of the host's
  creation: with `StartDelay = 7` `GetTicksBetweenPreviousAndNext` returns a
  "missed" tick and `Start` runs a loop for it beside its own.
- `CaughtUp` is stated of hosts on which the loop's digits are the scan's
  (`Covered`): the host is in the jobs' zone, or differs by whole hours and the
  expression looks at minutes only. `IsDue` formats the tick on the host's clock
  and reads it as the zone's (`schedule_event.go:293`), `missedOccurrences`
  converts. Elsewhere TLC finds runs missed and runs made at other times.
- `NothingOutOfSchedule` needs `Agreeing`, which adds two conditions. The
  interval divides a minute: at second 0 the loop asks whether it divides 60
  (`schedule_event.go:309`), the scan whether it divides 0, so other intervals are
  backfilled at every full minute. And the expression names second 0 only: the
  six fields of `HourlyAt(m)`, `m` not 0, name a second that the loop never looks
  at, which a scan from the window's edge does.
- `CaughtUp` leaves out instants before the window and those with `MaxBackfillRuns`
  later missed ones: the two bounds README documents, computed from the schedule
  and not from what the scan found. It claims nothing once a cron job's scan has
  begun in mid-minute (`misaligned`); that is `WindowKept` (findings). It counts from
  `since`: a cleared history ends the debt, and so does a run that a process stored
  before its own Replay had read the record, because that run moved the cursor.
- `StoredOnce` excepts the second in which this process's last Replay took its
  scan: the scan includes it and the loop, which has been running since
  `AddScheduler`, evaluates it too, so both may record a run of it.
- The dictionary's properties are about guarded keys. For others TLC shows
  duplicate entries, torn reads, keys nobody added and a nil dereference in
  `ToMap`. Provisional ids hash anywhere, so real keys are unguarded too when
  there are fewer stripes than buckets. `Get` takes no lock and can miss a
  present key; the abstract map has no `Get`.
- `OpsReturn` allows for a goroutine lost in `resize` (findings).
- `StaleIsPending` and `PageCatchesUp` need refreshes that do not overlap
  (`MaxRenders = 1`: answered within the timer's 400 ms). With two, an older
  answer may arrive last and stay on the screen; TLC finds both violated. They
  also assume that requests are answered (a failed one is shown as no data,
  `index.html:75`) and only concern changes that the code publishes: a job that
  Replay rebuilds appears without an event.

### Fairness

- *Registry*, *Lifetime*: none; their properties are about safety.
- *Recovery*: each step of an execution and of a Replay that has begun is weakly
  fair: Go schedules its goroutines, user functions return. No fairness for
  clock, crash, operator or the start of a Replay.
- *RunLoop*: the clock, the loop's goroutine and the runners, weakly.
- *Dictionary*: weak for steps that wait for nobody; strong for taking a lock,
  because a Go mutex in starvation mode hands itself to a waiter. Calls are not
  fair.
- *Stream*: strong for the steps that take the feed's mutex (same reason), weak
  for the scripts of a page unless it is `frozen`; a broken connection is noticed
  and `EventSource` reconnects. Changes, breaks and navigation are not fair.

## Findings

- **A killed backfill loses runs** (`recovery_killed`, bug). The cursor is the
  latest `FinishedAt` of a success, so the first success after a restart, be it
  of a tick or of the backfill's own first run, moves it past all that is still
  to be backfilled.
- **Replay fires paused jobs** (`recovery_paused_fires`): `execute` does not look
  at the flag, only `runJobs` does.
- **The map cannot be resized** (`dictionary_resize`, bug): `resize` is called
  with a stripe's lock held and takes it again; counts only grow, so `Sync`'s
  re-keying alone leads there.
- **Unschedule can be undone** (`registry_unscheduled`, bug): Sync re-adds, under
  its stable id, a job unscheduled since its snapshot.
- **A long downtime loses a cron job's window** (`lifetime_window`): README.md:251
  promises the most recent window of 100,000 steps. Past it the scan starts at
  now less the window, not truncated to a minute (`persistence.go:439`), goes on
  minute by minute from there, never looks at a second 0 and finds nothing at all,
  unless Replay is called in the first second of a minute
  (`MisalignedFindsNothing`).

Other places where code and documentation disagree, which appear as preconditions
and theorems and have no run of their own:

- *Second 0.* Sub-minute jobs fire "when `clock-second % n == 0`" (README.md:132). At
  second 0 the loop asks whether `n` divides 60 instead (`schedule_event.go:309`), so
  with `n = 7` it skips second 0, which a backfill replays
  (`UnevenIntervalDiverges`).
- *`HourlyAt(m)`* is documented as `m 00 * * *` (README.md:148) but formats six
  fields (`schedule_event.go:88`), the first of which is the second; cron jobs are
  evaluated at second 0 only, so for `m` not 0 it never fires
  (`HourlyAtNeverFires`).
- *Hosts away from a job's zone.* The loop reads the host's digits as the zone's
  (`schedule_event.go:293`), the scan converts: the backfill replays other instants
  than the loop would have fired at. `BuildersAgree` says for which builders the
  difference does not matter.
- *Unnamed jobs.* "Unnamed jobs still run" (README.md:417), but two unnamed
  persistent jobs of one type derive one id (`persistence.go:130`): Sync removes the
  second from its provisional key and is refused when it adds it under the shared
  one. With such a pair TLC finds `DeclaredKept` violated.

## Proofs

Checked by TLAPS for all values of the constants that satisfy the named
assumptions (`RecoveryAssumption`, `CadenceAssumption`, `DictionaryAssumption`,
...: finite sets, bounds that are naturals, a positive channel capacity, at least
two stripes and no more than buckets, offsets of whole minutes). Each theorem
has the form "a precondition, if any, implies `Spec => []Property`".

`RecoveryProofs`, for every `Env`:

- `TypeCorrect`: `Spec => []TypeOK`. Besides types it needs that `Min`, `Max`
  and `Latest` of the sets of steps at hand exist and stay inside them (lemmas
  `NatLeast`, `MinLeast`, `MaxGreatest`, ...).
- `BackfillOrder`: `Spec => []BackfillInOrder`. The property is not inductive: it
  says nothing of a backfill that has not started. `OrderInv` adds that such a
  backfill has nothing to do and no execution, and that a Replay still to reach
  a job has no backfill of it.
- `SettledRunsStand`: `Spec => []NoSettledRunRepeated`. The invariant `SettledInv`
  carries the argument through the store: a run stored as succeeded ended no
  earlier than the step it was for, so the cursor of any Replay that has read it
  is not before that step; what a backfill still has to do lies strictly after
  its cursor; what the loop will tick lies after the boot, and nothing settled
  does. It also needs that a process that is down has no executions.
- `MissedRunsMade`: `Orderly` (no `crash`, `kill`, `early`, `clear` or `read` in
  `Env`; jobs may fail, be paused and triggered, and the store may refuse any run)
  implies `Spec => []NoMissedRunLost`, for the jobs whose scans were not cut off. The
  property speaks of a job that is recovered; the invariant `CaughtInv` of any. Before
  a Replay has read a job's history nothing of it is at work and all it owes *up to
  the cursor* is accounted for (`Untouched`); afterwards, all it owes *up to the last
  tick* is, or a backfill awaits it (`Owing`). An orderly end leads from the second to
  the first because the cursor is not in the future, and the read back because a scan
  finds or excuses all after the cursor (`FoundOrExcused`). `Timely` covers a job's
  first success, which begins the debt: the loop has ticked ever since it ended.

`StreamProofs`, for any number of pages and publishers and any capacity:

- `TypeCorrect`: in particular no channel exceeds its capacity.
- `NeverSendsOnClosed`: `SendInv` says that the subscribers a publication still
  has before it are open, since closing needs the mutex it holds.
- `StalePagesRefresh`: `MaxRenders = 1` implies `Spec => []StaleIsPending`. The
  invariant `FreshInv` speaks of what the page *will* show when the refresh under
  way is done; it needs that there is at most one (`OneRefresh`) and that a
  connected page is subscribed (`Subscribed`). A dropped event is harmless
  because a full channel has another one.

`CadenceProofs`, about the operators, on every calendar:

- `ScanFindsNoOther`: under `Agreeing` every occurrence of a scan is an instant
  the loop would have fired at; `ScanFindsAll`: under `Covered` a scan finds every
  such instant after the cursor, within its window, from an edge on a minute. The
  argument is arithmetic: a scan's instants are congruent to its start, the start
  to the digits' second 0, and remainders of sums are taken from `Numbers`.
- `ScanIsTheLoop`: after a time down within the window the two together make an
  equation, of the scan's occurrences and the instants after the cursor, now included,
  at which the loop fires. `MisalignedFindsNothing` is the counterpart: a five-field
  job's scan from an edge in mid-minute is empty. `BuildersAgree` says which builders
  satisfy its hypothesis on which hosts; that the excluded ones have to be excluded is
  `UnevenIntervalDiverges` and `HourlyAtNeverFires`.

`LifetimeProofs`, for any schedules, hosts, calendar and bounds:

- `TypeCorrect` and the invariant `Chronicle`: what is stored has been made, ended
  no earlier than the instant it was for and no later than now, and the cursor is
  the latest end.
- `RecordedOnce`: `Spec => StoredOnce`, an action property. `Fresh` says why: what a
  backfill has still to do lies after the cursor its scan saw, so it is not on record,
  but for the scan's own second; what the loop evaluates lies after the last second it
  has evaluated, and what is on record of that or a later one can only be the scan's
  second again.
- `OnSchedule`: `Spec => []NothingOutOfSchedule`, from `InSchedule` (what a backfill
  has to do is due too) and `ScanFindsNoOther`.
- `ReplayCatchesUp`: `Spec => []CaughtUp`. It says nothing of a process that is down
  or has not replayed; its invariant does: since the first run on record, everything
  up to the cursor (or to the loop's last second, once replayed) has been made, is
  to do, or lies beyond a bound (`Accounted`). `ScanFindsAll` carries it over a Replay.

`RunLoopProofs`:

- `TypeCorrect`; `OperatorPrevails`: `Spec => []OffStaysOff`, for any delays.
- `OncePerSecond` and `NoGap`: `InPhase` (a Start within two seconds of the host's
  creation, phase plus delay below a second) implies `Spec => []NoSecondTwice` and
  `Spec => []NoSecondSkipped`. The invariant says that the tick a loop waits for is
  one second after the last one it has read (`Paced`, `Steady`), and that the
  goroutines of runJobs at work are of different seconds (`Distinct`).

`RegistryProofs`. Only the first two theorems assume `OneId` (the jobs of a
program have different ids once named; two unnamed jobs of one type do not, see
[Findings](#findings)):

- `IdsAreUnique`: `Spec => []OneObjectPerId`. The invariant `OrderlyInv` follows the
  objects through a Replay: which are named, which are in the table and under which
  key, what a Sync's snapshot may still hold (`Settled`, `Rekeyed`, `Absent`), so that
  nothing is rebuilt while a declared object has the id.
- `DeclaredStay`: `Spec => []DeclaredKept`. `KeptInv` adds that, while Replays do not
  overlap, nobody else uses the id in the gap between `SyncRemove` and `SyncAdd`.
- `TypesHold`: `Spec => []TypeOK`. The types alone are not inductive: a Replay that
  reads a schedule must have an id left to read, and one that is at a job must have
  it first in its list (`Reads`).
- `SchedulesStay`: `Spec => []SchedulesStored`, over overlapping Replays too.
  `StoredInv` says of every persistent job in the table that it is stored or that
  some Sync has still to do with it (`Pending`), which the property itself does not
  say of Replays under way.
- `IndexedOnce`: while Replays have never overlapped no id is twice in the stored
  index, over restarts and failures of the store. A Sync that has looked for its
  id appends it with nobody between (`Sole`, `Single`).
- `BackfillsOnce` and `RebuildsAll`: `Spec => []BackfilledOnce` and
  `Spec => []RegisteredRebuilt`, from `RestoreInv`. What a Replay has read and those of
  its unread ids that have a schedule are together all that is stored (`Reading`);
  each of it is then before the Replay or done (`Replaying`, `Done`), so that no id is
  taken twice and none left out. It rests on `Single`, and on where objects
  are keyed whatever their ids (`Put`).

`DictionaryProofs`, for any goroutines, keys, hash function, buckets and stripes:

- `TypeCorrect`: `Spec => []TypeOK`: an entry is in the bucket its key hashes to, and
  no stripe counts more than one addition over its threshold. `Locked` says which
  locks a goroutine holds at each stage, `Lost` that a stripe over the threshold is
  held for good by a goroutine that is in resize.
- `SnapshotsHold`: `Spec => SnapshotStable`, a conjunction of an invariant (what
  `ToMap` has collected of the stripes it holds is what is in them) and an action
  property (no step changes a bucket of theirs while it reads, read or not).
  `Watched` says what it has of each key of such a stripe; nobody else writes there
  (`NoRacer`, `ReadUndisturbed`), and a torn head of another bucket brings in no key
  of this one (`ReadingsType`).
- `NoCircularWait`: `Spec => []LocksInOrder`, the safety half of `OpsReturn`.
  `Holding` says which locks a goroutine may have at each stage; who waits has only
  earlier ones, so a chain of goroutines that wait for each other ascends and ends.
- `ResizeStopsAtItsLock` and `StripesStayLocked` say for every table what the finding
  `dictionary_resize` shows of one. Nobody resizes below the threshold; a resize
  never has more locks than those before its own stripe's (`ResizeWaits`), so it
  completes for the last stripe alone, and then dies; and the lock of a stripe over
  its threshold is never free again.
- `Implements`: `Spec => ImplementsAtomicMap`, the refinement. `Called` says which
  operation a goroutine is at in each stage, and that a `TryAdd` about to write a
  guarded key has found it absent; `Single` follows, that no guarded key is twice in
  its chain, so the newest entry is the only one and what `ToMap`'s walk ends with is
  what the chain starts with (`OnePlace`, `Pushed`, `Removed`). A step of one
  goroutine changes the abstract state of this one only (`OthersAlike`): one that
  reads holds the guarded stripes (`HeldStill`). Each step is then a call, an effect
  or a return of the abstract map, or none (`InvokeMeans` to `QuietStep`), and what
  `ToMap` returns is the map at the moment it had its locks (`SnapshotIsContents`).

Every invariant of the passing runs and the refinement are theorems. Only
model-checked: the liveness properties, `BackfillEnds`, `OpsReturn`, `DueIsExecuted`,
`PageCatchesUp`, `PublishersReturn` and `GoneIsReleased` (fairness is beyond the
prover).

## What is not modelled

- *Feed's data*: capped histories, counters and metrics, sequential code under
  one mutex; *TriggerNow* publishes through `record` like any run.
- *Run loop*: `CancelTasks` changes no state: it acts only when its context is
  cancelled already, so `Stop` does not stop the loop.
- *Cadence*: daylight saving time (the default zone has none), months and years
  (no builder names one), gronx's parser.
- *Dictionary*: `TryUpdate`, `Count`, `_getKeys`, `_getPairs` (used by Cronna or
  by nobody), a map with a single stripe (it takes no locks), the table a
  completed resize would make (none completes).
- *Store*: `CreateIfNotExists`, `Update`, `UpdateMany`, `WithContext` and switching
  providers after construction (nothing calls them); go-redis's own retry of a
  write that was applied but not answered.
- *Lifetime*: two processes in one second.
- *Cronna*: nothing imports it, so it has no state the program can be in.
- *Facade, program*: the servers of `AddDashboard` and `StartDashboard`; the order
  of the other calls is `Lifetime`'s `Boot` and `Replay`, and each module's `Init`.
- *Delegates, hosted services*: stateless or unused.
- *Authentication and pages' markup*: not about state.

## Plan

Done first, as the system's core: Recovery with its proofs; then the map under
the table, the registry on top of it, the loop that drives both, and the pages;
then the cadence and the store, composed in Lifetime, and the proofs of all of
them. What is left: the feed's bounded histories as operators with lemmas.
