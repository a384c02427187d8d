------------------------------ MODULE RunLoop -------------------------------
(***************************************************************************)
(* The run loop: the host's ticker, the goroutines each of its ticks       *)
(* starts, and the operator's Pause, Resume and Unschedule beside them     *)
(* (internals/pkg/scheduler/scheduler_host.go, scheduler.go).              *)
(*                                                                         *)
(* Time is counted in units, Grain of them to a second.  A ticker fires    *)
(* every second, counted from the moment its loop began; the goroutine     *)
(* that waits for it reads the clock when it is scheduled, at most         *)
(* MaxDelay units later, and a job is evaluated for the second it read.    *)
(***************************************************************************)
EXTENDS Naturals, FiniteSets, Functions

CONSTANTS
    Job,         \* the jobs in the table
    Due,         \* Due[j]: the seconds at which IsDue holds for j
    Grain,       \* units of time in a second
    Created,     \* when the host was created (0: at the beginning of a second)
    StartDelay,  \* by how much Start may come later
    MaxDelay,    \* the longest wait of a goroutine to be scheduled
    MaxTime,     \* bound of the model, in units
    MaxRunners,  \* bound of the model: with as many runJobs at work, time waits
    MaxControls  \* bound of the model: the number of operator's actions

ASSUME RunLoopAssumption ==
    /\ Grain \in Nat \ {0} /\ Created \in 0 .. MaxTime /\ StartDelay \in Nat
    /\ MaxDelay \in Nat /\ MaxTime \in Nat
    /\ MaxRunners \in Nat \ {0} /\ MaxControls \in Nat
    /\ Due \in [Job -> SUBSET (0 .. MaxTime)]

VARIABLES
    now,       \* the clock
    loops,     \* loops[l]: the l-th loop: when its ticker fires next, and since
               \* when a tick waits to be received (None if none does)
    table,     \* the jobs in the task table
    paused,    \* the paused jobs
    runners,   \* the runJobs goroutines
    began,     \* began[j]: the seconds execute has begun for j
    controls,  \* operator's actions so far
    sampled,   \* history: the seconds the loops have read
    again,     \* history: a second was read, or an execution begun for it, twice
    touched    \* history: the jobs an operator has paused or unscheduled

vars == <<now, loops, table, paused, runners, began, controls, sampled, again, touched>>

Time == 0 .. MaxTime
Second == 0 .. MaxTime \div Grain
Never == MaxTime + 1

\* A runner evaluates second "for": "left" are the jobs of its snapshot it has
\* still to look at, "due" those it has found due.  "off" are, as a history, the
\* jobs that have been paused or out of the table ever since it read the clock.
Runner == [for : Second, st : {"new", "checking", "launching"},
           left : SUBSET Job, due : SUBSET Job, off : SUBSET Job]

TypeOK ==
    /\ now \in Time
    /\ DOMAIN loops \subseteq Nat
    /\ \A l \in DOMAIN loops :
          loops[l] \in [fires : Nat, waits : Time \cup {Never}]
    /\ table \subseteq Job
    /\ paused \subseteq Job
    /\ runners \subseteq Runner
    /\ began \in [Job -> SUBSET Second]
    /\ controls \in 0 .. MaxControls
    /\ sampled \subseteq Second
    /\ again \in BOOLEAN
    /\ touched \subseteq Job

-----------------------------------------------------------------------------
(* The host.                                                               *)

\* The ticks that Start thinks were missed since the host was created, two
\* seconds apart; it starts a loop for each, and one more.  (Mutant: the first
\* "missed" tick is the moment of creation.)
MissedTicks_FromCreation(t) ==
    {u \in Time : u < t /\ \E n \in Time : u = Created + 2 * n * Grain}
MissedTicks(t) ==
    {u \in Time : u < t /\ \E n \in Time \ {0} : u = Created + 2 * n * Grain}

NewLoop == [fires |-> now + Grain, waits |-> Never]

Init ==
    /\ now = Created
    /\ loops = <<>>
    /\ table = Job
    /\ paused = {}
    /\ runners = {}
    /\ began = [j \in Job |-> {}]
    /\ controls = 0
    /\ sampled = {}
    /\ again = FALSE
    /\ touched = {}

Start ==
    /\ loops = <<>>
    /\ loops' = [l \in 0 .. Cardinality(MissedTicks(now)) |-> NewLoop]
    /\ UNCHANGED <<now, table, paused, runners, began, controls, sampled, again, touched>>

\* Time passes; goroutines are scheduled within their delay, timers fire in time.
Advance ==
    /\ now < MaxTime
    /\ loops = <<>> => now < Created + StartDelay
    /\ \A l \in DOMAIN loops : /\ now < loops[l].fires
                               /\ loops[l].waits # Never => now < loops[l].waits + MaxDelay
    /\ Cardinality(runners) <= MaxRunners
    /\ now' = now + 1
    /\ UNCHANGED <<loops, table, paused, runners, began, controls, sampled, again, touched>>

\* A ticker fires into a channel of one place; a tick that finds it taken is lost.
Fire(l) ==
    /\ now = loops[l].fires
    /\ loops' = [loops EXCEPT ![l] = [fires |-> now + Grain,
                                      waits |-> IF @.waits = Never THEN now ELSE @.waits]]
    /\ UNCHANGED <<now, table, paused, runners, began, controls, sampled, again, touched>>

\* The second a tick is evaluated for: the clock's, when the tick is received.
\* (Mutants: rounded to the nearest; the units are taken for seconds.)
SecondRead_Units(t) == t
SecondRead_Rounded(t) == (t + Grain \div 2) \div Grain
SecondRead(t) == t \div Grain

\* The loop receives the tick, reads the clock and starts RunAt and runJobs.
Receive(l) ==
    LET s == SecondRead(now) IN
    /\ loops[l].waits # Never
    /\ loops' = [loops EXCEPT ![l].waits = Never]
    /\ runners' = runners \cup {[for |-> s, st |-> "new", left |-> {}, due |-> {},
                                 off |-> paused \cup (Job \ table)]}
    /\ sampled' = sampled \cup {s}
    /\ again' = (again \/ s \in sampled)
    /\ UNCHANGED <<now, table, paused, began, controls, touched>>

-----------------------------------------------------------------------------
(* runJobs.                                                                *)

Replace(r, s) == runners' = (runners \ {r}) \cup {s}

\* It takes a snapshot of the table ...
Snapshot(r) ==
    /\ r.st = "new"
    /\ Replace(r, [r EXCEPT !.st = "checking", !.left = table])
    /\ UNCHANGED <<now, loops, table, paused, began, controls, sampled, again, touched>>

\* A job of the snapshot is picked if it is not paused and IsDue.  (Mutants: the
\* flag is not looked at; a job that has run is taken for a run-once job.)
Picked_Once(r, j) == j \notin paused /\ r.for \in Due[j] /\ began[j] = {}
Picked_Paused(r, j) == r.for \in Due[j]
Picked(r, j) == j \notin paused /\ r.for \in Due[j]

\* ... looks at its jobs one after the other, in any order ...
Check(r, j) ==
    /\ r.st = "checking"
    /\ j \in r.left
    /\ Replace(r, [r EXCEPT !.left = @ \ {j},
                            !.due = IF Picked(r, j) THEN @ \cup {j} ELSE @])
    /\ UNCHANGED <<now, loops, table, paused, began, controls, sampled, again, touched>>

CheckEnd(r) ==
    /\ r.st = "checking"
    /\ r.left = {}
    /\ Replace(r, [r EXCEPT !.st = "launching"])
    /\ UNCHANGED <<now, loops, table, paused, began, controls, sampled, again, touched>>

\* ... and starts execute for those it has picked, each in a goroutine of its own.
Begin(r, j) ==
    /\ r.st = "launching"
    /\ j \in r.due
    /\ Replace(r, [r EXCEPT !.due = @ \ {j}])
    /\ began' = [began EXCEPT ![j] = @ \cup {r.for}]
    /\ again' = (again \/ r.for \in began[j])
    /\ UNCHANGED <<now, loops, table, paused, controls, sampled, touched>>

RunnerEnd(r) ==
    /\ r.st = "launching"
    /\ r.due = {}
    /\ runners' = runners \ {r}
    /\ UNCHANGED <<now, loops, table, paused, began, controls, sampled, again, touched>>

-----------------------------------------------------------------------------
(* The operator.                                                           *)

Control ==
    /\ controls < MaxControls
    /\ controls' = controls + 1
    /\ UNCHANGED <<now, loops, began, sampled, again>>

Pause(j) ==
    /\ Control
    /\ j \in table
    /\ paused' = paused \cup {j}
    /\ touched' = touched \cup {j}
    /\ UNCHANGED <<table, runners>>

Resume(j) ==
    /\ Control
    /\ j \in table
    /\ paused' = paused \ {j}
    /\ runners' = {[r EXCEPT !.off = @ \ {j}] : r \in runners}
    /\ UNCHANGED <<table, touched>>

Unschedule(j) ==
    /\ Control
    /\ table' = table \ {j}
    /\ touched' = touched \cup {j}
    /\ UNCHANGED <<paused, runners>>

-----------------------------------------------------------------------------
LoopStep == Start \/ \E l \in DOMAIN loops : Fire(l) \/ Receive(l)
RunnerStep(r) == Snapshot(r) \/ CheckEnd(r) \/ RunnerEnd(r)
                    \/ \E j \in Job : Check(r, j) \/ Begin(r, j)

Next ==
    \/ Advance
    \/ LoopStep
    \/ \E r \in runners : RunnerStep(r)
    \/ \E j \in Job : Pause(j) \/ Resume(j) \/ Unschedule(j)

Spec == Init /\ [][Next]_vars

\* The clock runs, the loop's goroutine is scheduled, and so is every runJobs.
\* The operator owes nothing.
Fairness ==
    /\ WF_vars(Advance)
    /\ WF_vars(LoopStep)
    /\ \A s \in Second : WF_vars(\E r \in runners : r.for = s /\ RunnerStep(r))

FairSpec == Spec /\ Fairness

-----------------------------------------------------------------------------
(* Properties.                                                             *)

\* "Each due job runs exactly once per tick" (scheduler.go:139), and a tick
\* stands for a second: no second is evaluated twice, and no job begun twice
\* for one (RunSchedulerPerSecond, RunAt, runJobs).  It takes one loop, and a
\* ticker whose phase leaves room for the delays.
NoSecondTwice == ~ again

\* A sub-minute job "fires when clock-second % n == 0" (README.md:132), so no
\* second is passed over: those that have been read leave no gap.
NoSecondSkipped ==
    \A s, u \in sampled : \A t \in s .. u : t \in sampled

\* A job that has been paused or out of the table ever since a tick was read is
\* not picked for it: an operator's action is in force from the next tick on,
\* whichever goroutines of earlier ticks are still at work (runJobs).
OffStaysOff ==
    \A r \in runners : r.due \cap r.off = {}

\* A job that no operator has touched is executed for every second at which it
\* is due and which the loop has read (runJobs, execute).
DueIsExecuted ==
    \A j \in Job, s \in Second :
        (s \in sampled /\ s \in Due[j]) ~> (s \in began[j] \/ j \in touched)
=============================================================================
