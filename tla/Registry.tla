------------------------------ MODULE Registry ------------------------------
(***************************************************************************)
(* Who is in the scheduler's task table, and under which id: declaring and *)
(* naming jobs, Sync, the stored schedules and their index, the first half *)
(* of Replay (lookup, rebuild, start of the backfill) and Unschedule       *)
(* (internals/pkg/scheduler/scheduler.go, persistence.go, observability.go)*)
(*                                                                         *)
(* The program and the dashboard's handlers interleave at every operation  *)
(* of the table and of the store; the process may die between any two.     *)
(* Operations of the table are atomic here: ConcurrentDictionary says for  *)
(* which keys they are.                                                    *)
(***************************************************************************)
EXTENDS Naturals, Sequences, FiniteSets, SequencesExt

CONSTANTS
    Decl,         \* the job objects the program's code creates; an object
                  \* stands for its own provisional id as well
    Spare,        \* job objects Replay can create
    Id,           \* job ids that are stable across restarts
    None,
    NameOf,       \* NameOf[e]: the id Name gives e, or None for an unnamed job
    StableOf,     \* StableOf[e]: the id deriveStableID gives e
    Persistent,   \* the objects for which EnsurePersistence is called
    Registered,   \* ids of invocables whose constructor is registered
    Programs,     \* the sets of objects that a version of the program declares
    Caller,       \* who may be inside Replay
    MaxReplays,   \* bound of the model: Replays in the life of a process
    MaxBoots,     \* bound of the model: restarts
    Env           \* what the environment may do, a subset of Hazards

\* fail:       an access to the store may fail (bound: once in a process's life)
\* unschedule: an operator may unschedule a job (bound: once)
\* early:      the dashboard may ask for a Replay before all jobs are declared
Hazards == {"fail", "unschedule", "early"}

ASSUME RegistryAssumption ==
    /\ NameOf \in [Decl -> Id \cup {None}]
    /\ StableOf \in [Decl -> Id]
    /\ Persistent \subseteq Decl
    /\ Registered \subseteq Id
    /\ Programs \subseteq SUBSET Decl
    /\ MaxReplays \in Nat /\ MaxBoots \in Nat
    /\ Env \subseteq Hazards
    /\ None \notin Decl \cup Spare \cup Id
    /\ Decl \cap Spare = {} /\ Decl \cap Id = {} /\ Spare \cap Id = {}

VARIABLES
    program,     \* what the running version of the program declares
    table,       \* table[k]: the job object under key k, or None
    uid,         \* uid[e]: the object's id; itself while it is provisional
    configured,  \* the objects whose fluent calls are done
    pc,          \* pc[c]: where c's Replay is
    todo,        \* todo[c]: the keys and objects c's Sync still goes through
    cur,         \* cur[c]: the key, object and id c is working on
    unread,      \* unread[c]: the indexed ids whose schedules c has still to read
    list,        \* list[c]: the stored ids c's Replay still goes through
    filled,      \* filled[c][i]: the backfills of i that c's Replay has started
    target,      \* the id an Unschedule is for and the key it has found, or None
    schedules,   \* ids with a stored schedule
    index,       \* the stored index of ids
    replays,     \* Replays begun since the boot
    boots,       \* restarts
    marks,       \* history: what has disturbed this process
    overlapped,  \* history: two Replays were under way at once, ever
    gone         \* history: the ids that Unschedule said it removed

replay == <<pc, todo, cur, unread, list, filled>>
store == <<schedules, index>>
bounds == <<replays, boots>>
history == <<marks, overlapped, gone>>
vars == <<program, table, uid, configured, replay, target, store, bounds, history>>

Event == Decl \cup Spare
Key == Decl \cup Id
Nobody == [key |-> None, ev |-> None, id |-> None]
Stage == {"idle", "sync", "remove", "add", "create", "index", "append",
          "load", "replay", "rebuild", "runs", "ended"}

TypeOK ==
    /\ program \in Programs
    /\ table \in [Key -> Event \cup {None}]
    /\ uid \in [Event -> Decl \cup Id \cup {None}]
    /\ configured \subseteq program
    /\ pc \in [Caller -> Stage]
    /\ todo \in [Caller -> SUBSET (Key \X Event)]
    /\ cur \in [Caller -> [key : Key \cup {None}, ev : Event \cup {None},
                           id : Id \cup {None}]]
    /\ unread \in [Caller -> Seq(Id)]
    /\ list \in [Caller -> Seq(Id)]
    /\ filled \in [Caller -> [Id -> Nat]]
    /\ target \in (Key \X (Decl \cup Id)) \cup {None}
    /\ schedules \subseteq Id
    /\ index \in Seq(Id)
    /\ replays \in 0 .. MaxReplays
    /\ boots \in 0 .. MaxBoots
    /\ marks \subseteq Hazards
    /\ overlapped \in BOOLEAN
    /\ gone \subseteq Decl \cup Id

-----------------------------------------------------------------------------
InTable == Range(table) \ {None}
Holders(i) == {e \in InTable : uid[e] = i}

ShouldPersist(e) == e \in Spare \/ e \in configured \cap Persistent

\* The table's TryAdd and TryRemove.
Added(t, k, e) == IF t[k] = None THEN [t EXCEPT ![k] = e] ELSE t
Removed(t, k) == [t EXCEPT ![k] = None]

\* Sync gives a persistent job that has only a provisional id its stable one.
\* (Mutant: the job keeps its provisional id.)
SyncedId_Provisional(e) == uid[e]
SyncedId(e) == IF uid[e] \in Decl THEN StableOf[e] ELSE uid[e]

\* Replay finds a job by its id, under whatever key.  (Mutant: by its key.)
Found_ByKey(i) == {table[i]} \ {None}
Found(i) == Holders(i)

\* indexSchedule appends an id that the index it has read does not have.
\* (Mutants: it always appends; the condition is the wrong way round.)
Missing_Always(i) == TRUE
Missing_Inverted(i) == i \in Range(index)
Missing(i) == i \notin Range(index)

Goto(c, stage) == pc' = [pc EXCEPT ![c] = stage]
Happens(m) == m \in Env /\ m \notin marks /\ marks' = marks \cup {m}
StoreFails == Happens("fail")

-----------------------------------------------------------------------------
Init ==
    /\ program \in Programs
    /\ table = [k \in Key |-> None]
    /\ uid = [e \in Event |-> None]
    /\ configured = {}
    /\ pc = [c \in Caller |-> "idle"]
    /\ todo = [c \in Caller |-> {}]
    /\ cur = [c \in Caller |-> Nobody]
    /\ unread = [c \in Caller |-> <<>>]
    /\ list = [c \in Caller |-> <<>>]
    /\ filled = [c \in Caller |-> [i \in Id |-> 0]]
    /\ target = None
    /\ schedules = {}
    /\ index = <<>>
    /\ replays = 0
    /\ boots = 0
    /\ marks = {}
    /\ overlapped = FALSE
    /\ gone = {}

\* Schedule, ScheduleSimple, ...: the new job enters the table under its
\* provisional id, before it has a name or a cadence.  The program declares one
\* job after the other.
Declare(e) ==
    /\ e \in program
    /\ \A d \in program : uid[d] # None => d \in configured
    /\ uid[e] = None
    /\ uid' = [uid EXCEPT ![e] = e]
    /\ table' = Added(table, e, e)
    /\ UNCHANGED <<program, configured, replay, target, store, bounds, history>>

\* The fluent calls: a name, if any, and then EnsurePersistence.
Configure(e) ==
    /\ uid[e] # None
    /\ e \in program \ configured
    /\ configured' = configured \cup {e}
    /\ uid' = [uid EXCEPT ![e] = IF NameOf[e] = None THEN @ ELSE NameOf[e]]
    /\ UNCHANGED <<program, table, replay, target, store, bounds, history>>

\* The process dies and a version of the program starts.
Restart ==
    /\ boots < MaxBoots
    /\ boots' = boots + 1
    /\ program' \in Programs
    /\ table' = [k \in Key |-> None]
    /\ uid' = [e \in Event |-> None]
    /\ configured' = {}
    /\ pc' = [c \in Caller |-> "idle"]
    /\ todo' = [c \in Caller |-> {}]
    /\ cur' = [c \in Caller |-> Nobody]
    /\ unread' = [c \in Caller |-> <<>>]
    /\ list' = [c \in Caller |-> <<>>]
    /\ filled' = [c \in Caller |-> [i \in Id |-> 0]]
    /\ target' = None
    /\ replays' = 0
    /\ marks' = {}
    /\ gone' = {}
    /\ UNCHANGED <<store, overlapped>>

-----------------------------------------------------------------------------
(* Sync, the first thing Replay does.                                      *)

ReplayBegin(c) ==
    /\ pc[c] = "idle"
    /\ replays < MaxReplays
    /\ replays' = replays + 1
    /\ todo' = [todo EXCEPT ![c] = {<<k, table[k]>> : k \in {k \in Key : table[k] # None}}]
    /\ filled' = [filled EXCEPT ![c] = [i \in Id |-> 0]]
    /\ Goto(c, "sync")
    /\ IF configured = program THEN UNCHANGED marks ELSE Happens("early")
    /\ overlapped' = (overlapped \/ \E d \in Caller \ {c} : pc[d] # "idle")
    /\ UNCHANGED <<program, table, uid, configured, cur, unread, list, target, store, boots,
                   gone>>

\* The next job of the snapshot: one that is not persistent is passed over.
SyncJob(c) ==
    /\ pc[c] = "sync"
    /\ \E x \in todo[c] :
          LET k == x[1]
              e == x[2] IN
          /\ todo' = [todo EXCEPT ![c] = @ \ {x}]
          /\ IF ~ ShouldPersist(e)
             THEN UNCHANGED <<uid, cur, pc>>
             ELSE /\ uid' = [uid EXCEPT ![e] = SyncedId(e)]
                  /\ cur' = [cur EXCEPT ![c] = [key |-> k, ev |-> e, id |-> None]]
                  /\ Goto(c, IF k = SyncedId(e) THEN "create" ELSE "remove")
    /\ UNCHANGED <<program, table, configured, unread, list, filled, target, store, bounds,
                   history>>

\* Re-keying is two operations of the table.
SyncRemove(c) ==
    /\ pc[c] = "remove"
    /\ table' = Removed(table, cur[c].key)
    /\ Goto(c, "add")
    /\ UNCHANGED <<program, uid, configured, todo, cur, unread, list, filled, target, store,
                   bounds, history>>

\* (Mutant: the second is left out.)
SyncAdd_Forgotten(c) ==
    /\ pc[c] = "add"
    /\ Goto(c, "create")
    /\ UNCHANGED <<program, table, uid, configured, todo, cur, unread, list, filled, target,
                   store, bounds, history>>
SyncAdd(c) ==
    /\ pc[c] = "add"
    /\ table' = Added(table, uid[cur[c].ev], cur[c].ev)
    /\ Goto(c, "create")
    /\ UNCHANGED <<program, uid, configured, todo, cur, unread, list, filled, target, store,
                   bounds, history>>

\* persistSchedule writes the schedule; a failure is reported and passed over.
SyncCreate(c) ==
    /\ pc[c] = "create"
    /\ cur' = [cur EXCEPT ![c].id = uid[cur[c].ev]]
    /\ \/ schedules' = schedules \cup {uid[cur[c].ev]} /\ UNCHANGED marks
       \/ StoreFails /\ UNCHANGED schedules
    /\ Goto(c, "index")
    /\ UNCHANGED <<program, table, uid, configured, todo, unread, list, filled, target, index,
                   bounds, overlapped, gone>>

\* indexSchedule reads the index, ...
SyncIndex(c) ==
    /\ pc[c] = "index"
    /\ \/ Goto(c, IF Missing(cur[c].id) THEN "append" ELSE "sync") /\ UNCHANGED marks
       \/ StoreFails /\ Goto(c, "sync")
    /\ UNCHANGED <<program, table, uid, configured, todo, cur, unread, list, filled, target,
                   store, bounds, overlapped, gone>>

\* ... and appends to it.
SyncAppend(c) ==
    /\ pc[c] = "append"
    /\ \/ index' = Append(index, cur[c].id) /\ UNCHANGED marks
       \/ StoreFails /\ UNCHANGED index
    /\ Goto(c, "sync")
    /\ UNCHANGED <<program, table, uid, configured, todo, cur, unread, list, filled, target,
                   schedules, bounds, overlapped, gone>>

-----------------------------------------------------------------------------
(* Replay of the stored schedules.                                         *)

\* An id whose schedule is found is taken, the others are passed over.
\* (Mutant: the test is the wrong way round.)
Taken_Inverted(l, i) == IF i \in schedules THEN l ELSE Append(l, i)
Taken(l, i) == IF i \in schedules THEN Append(l, i) ELSE l

LoadNext(c) == Goto(c, IF unread'[c] = <<>> THEN "replay" ELSE "load")
LoadFails(c) ==
    /\ StoreFails
    /\ unread' = [unread EXCEPT ![c] = <<>>]
    /\ list' = [list EXCEPT ![c] = <<>>]
    /\ Goto(c, "ended")

\* loadSchedules reads the index, ...
LoadScheduleIDs(c) ==
    /\ pc[c] = "sync"
    /\ todo[c] = {}
    /\ cur' = [cur EXCEPT ![c] = Nobody]
    /\ \/ /\ unread' = [unread EXCEPT ![c] = index]
          /\ list' = [list EXCEPT ![c] = <<>>]
          /\ LoadNext(c)
          /\ UNCHANGED marks
       \/ LoadFails(c)
    /\ UNCHANGED <<program, table, uid, configured, todo, filled, target, store, bounds,
                   overlapped, gone>>

\* ... and then the schedules, one by one.  If it fails, Replay fails.
LoadSchedule(c) ==
    /\ pc[c] = "load"
    /\ \/ /\ unread' = [unread EXCEPT ![c] = Tail(@)]
          /\ list' = [list EXCEPT ![c] = Taken(@, Head(unread[c]))]
          /\ LoadNext(c)
          /\ UNCHANGED marks
       \/ LoadFails(c)
    /\ UNCHANGED <<program, table, uid, configured, todo, cur, filled, target, store, bounds,
                   overlapped, gone>>

\* lookup scans the table for the next id; a job that is not there is rebuilt
\* if its constructor is registered, and passed over if not.
ReplayJob(c) ==
    /\ pc[c] = "replay"
    /\ list[c] # <<>>
    /\ LET i == Head(list[c]) IN
       IF Found(i) # {}
       THEN /\ \E e \in Found(i) : cur' = [cur EXCEPT ![c] = [key |-> None, ev |-> e, id |-> i]]
            /\ Goto(c, "runs")
            /\ UNCHANGED list
       ELSE IF i \in Registered
       THEN /\ cur' = [cur EXCEPT ![c].id = i]
            /\ Goto(c, "rebuild")
            /\ UNCHANGED list
       ELSE /\ list' = [list EXCEPT ![c] = Tail(@)]
            /\ UNCHANGED <<cur, pc>>
    /\ UNCHANGED <<program, table, uid, configured, todo, unread, filled, target, store,
                   bounds, history>>

\* scheduleFromState makes a new object; it goes on with it even if the table
\* has, by now, another one under the id.
Rebuild(c) ==
    /\ pc[c] = "rebuild"
    /\ \E e \in Spare :
          /\ e \notin InTable
          /\ \A d \in Caller : cur[d].ev # e /\ \A x \in todo[d] : x[2] # e
          /\ uid' = [uid EXCEPT ![e] = cur[c].id]
          /\ table' = Added(table, cur[c].id, e)
          /\ cur' = [cur EXCEPT ![c].ev = e]
    /\ Goto(c, "runs")
    /\ UNCHANGED <<program, configured, todo, unread, list, filled, target, store, bounds,
                   history>>

\* The runs are loaded and the backfill starts; if they cannot be, the job is
\* passed over.
LoadRuns(c) ==
    /\ pc[c] = "runs"
    /\ \/ filled' = [filled EXCEPT ![c][cur[c].id] = @ + 1] /\ UNCHANGED marks
       \/ StoreFails /\ UNCHANGED filled
    /\ list' = [list EXCEPT ![c] = Tail(@)]
    /\ cur' = [cur EXCEPT ![c] = Nobody]
    /\ Goto(c, "replay")
    /\ UNCHANGED <<program, table, uid, configured, todo, unread, target, store, bounds,
                   overlapped, gone>>

ReplayEnd(c) ==
    /\ pc[c] = "replay"
    /\ list[c] = <<>>
    /\ Goto(c, "ended")
    /\ UNCHANGED <<program, table, uid, configured, todo, cur, unread, list, filled, target,
                   store, bounds, history>>

ReplayReturn(c) ==
    /\ pc[c] = "ended"
    /\ Goto(c, "idle")
    /\ UNCHANGED <<program, table, uid, configured, todo, cur, unread, list, filled, target,
                   store, bounds, history>>

-----------------------------------------------------------------------------
(* Unschedule: a scan of the table, then a removal by the key it found.    *)

UnscheduleFind(k) ==
    /\ target = None
    /\ table[k] # None
    /\ target' = <<k, uid[table[k]]>>
    /\ Happens("unschedule")
    /\ UNCHANGED <<program, table, uid, configured, replay, store, bounds, overlapped, gone>>

UnscheduleRemove ==
    /\ target # None
    /\ table' = Removed(table, target[1])
    /\ gone' = IF table[target[1]] = None THEN gone ELSE gone \cup {target[2]}
    /\ target' = None
    /\ UNCHANGED <<program, uid, configured, replay, store, bounds, marks, overlapped>>

-----------------------------------------------------------------------------
SyncStep(c) == SyncJob(c) \/ SyncRemove(c) \/ SyncAdd(c) \/ SyncCreate(c)
                  \/ SyncIndex(c) \/ SyncAppend(c)
ReplayStep(c) == LoadScheduleIDs(c) \/ LoadSchedule(c) \/ ReplayJob(c) \/ Rebuild(c)
                    \/ LoadRuns(c) \/ ReplayEnd(c) \/ ReplayReturn(c)

Next ==
    \/ \E e \in Decl : Declare(e) \/ Configure(e)
    \/ Restart
    \/ \E c \in Caller : ReplayBegin(c) \/ SyncStep(c) \/ ReplayStep(c)
    \/ \E k \in Key : UnscheduleFind(k)
    \/ UnscheduleRemove

Spec == Init /\ [][Next]_vars
-----------------------------------------------------------------------------
(* Properties.                                                             *)

\* A Replay has just ended; all those of this process began when its jobs were
\* declared, and no access to the store has failed.
Completed(c) == pc[c] = "ended" /\ marks \cap {"early", "fail"} = {}

Quiet == \A c \in Caller : pc[c] \in {"idle", "ended"}

\* "Each due job runs exactly once per tick" (scheduler.go:139), and runJobs runs
\* what the table holds: it never holds two objects with one id, whoever
\* replays, fails or restarts meanwhile, if Replay is called after the jobs are
\* declared (Sync, lookup, scheduleFromState).
OneObjectPerId ==
    "early" \notin marks =>
        \A e, f \in InTable : uid[e] = uid[f] => e = f

\* A declared job stays in the table unless it is unscheduled; only while Sync
\* re-keys it is it out of it (Sync, TryAdd).  Not so when Replays overlap, nor of
\* the second of two unnamed jobs of one type, which derive one id.
DeclaredKept ==
    marks \cap {"early", "unschedule"} = {} /\ ~ overlapped =>
        \A e \in configured :
            \/ e \in InTable
            \/ \E c \in Caller : pc[c] = "add" /\ cur[c].ev = e

\* When the Replays under way have ended, even overlapping ones, every persistent
\* job of the program is found in the store under the id it has by then (Sync,
\* persistSchedule, indexSchedule).
SchedulesStored ==
    \A c \in Caller : Completed(c) /\ Quiet =>
        \A e \in program \cap Persistent \cap InTable :
            uid[e] \in schedules \cap Range(index)

\* A Replay backfills every stored job that is there, and none of them twice
\* (indexSchedule keeps the index free of duplicates over all restarts, Replay
\* goes through it).  Not so when Replays overlap.
BackfilledOnce ==
    \A c \in Caller : Completed(c) /\ "unschedule" \notin marks /\ ~ overlapped =>
        \A i \in Range(index) \cap schedules :
            filled[c][i] = IF Holders(i) # {} THEN 1 ELSE 0

\* Replay "rebuilds any registered invocables that weren't re-declared and
\* reschedules them" (README.md:247): it leaves none that is stored out of the
\* table (lookup, scheduleFromState).
RegisteredRebuilt ==
    \A c \in Caller : Completed(c) /\ "unschedule" \notin marks /\ ~ overlapped =>
        \A i \in Range(index) \cap schedules \cap Registered : Holders(i) # {}

\* "Unschedule removes a job from the scheduler by its id" (observability.go:355):
\* when it has said so, the job is out of the table until the program starts anew.
UnscheduledStaysOut == \A i \in gone : Holders(i) = {}
=============================================================================
