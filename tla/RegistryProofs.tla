---------------------------- MODULE RegistryProofs ----------------------------
(***************************************************************************)
(* Proofs about the registry, for any programs, callers, ids, stores and   *)
(* numbers of Replays and restarts.  What is needed of a version of the    *)
(* program is stated here: its jobs have different ids.                    *)
(***************************************************************************)
EXTENDS Registry, TLAPS

\* The id a job object has in the end: its name's, the one derived for it if it is
\* persistent, or its provisional one.
FinalId(e) ==
    IF NameOf[e] # None THEN NameOf[e] ELSE IF e \in Persistent THEN StableOf[e] ELSE e

OneId == \A P \in Programs : \A d, e \in P : FinalId(d) = FinalId(e) => d = e

-----------------------------------------------------------------------------
(* Ids.                                                                    *)

\* The parts of the state the arguments below look at.
Fields ==
    /\ program \in Programs
    /\ table \in [Key -> Event \cup {None}]
    /\ uid \in [Event -> Decl \cup Id \cup {None}]
    /\ configured \subseteq program
    /\ pc \in [Caller -> Stage]
    /\ DOMAIN todo = Caller /\ \A c \in Caller : todo[c] \subseteq Key \X Event
    /\ cur \in [Caller -> [key : Key \cup {None}, ev : Event \cup {None},
                           id : Key \cup {None}]]
    /\ replays \in Nat

Syncing == {"remove", "add", "create", "index", "append"}

\* Whoever is in the table, or about to be, has an id, and one that Sync has taken
\* up a stable one.
Ids ==
    /\ \A e \in configured : uid[e] # None
    /\ \A k \in Key : table[k] # None => uid[table[k]] # None
    /\ \A c \in Caller : \A x \in todo[c] : uid[x[2]] # None
    /\ \A c \in Caller : pc[c] \in {"remove", "add", "create"} =>
          cur[c].key \in Key /\ cur[c].ev \in Event /\ uid[cur[c].ev] \in Id
    /\ \A c \in Caller : pc[c] = "rebuild" => cur[c].id \in Id
    /\ \A e \in Spare : uid[e] \in Id \cup {None}

\* Replays and restarts are counted.
LEMMA Constants ==
    /\ NameOf \in [Decl -> Id \cup {None}] /\ StableOf \in [Decl -> Id]
    /\ Persistent \subseteq Decl /\ Registered \subseteq Id /\ Programs \subseteq SUBSET Decl
    /\ None \notin Decl /\ None \notin Spare /\ None \notin Id
    /\ \A e : /\ ~(e \in Decl /\ e \in Spare)
              /\ ~(e \in Decl /\ e \in Id)
              /\ ~(e \in Spare /\ e \in Id)
BY RegistryAssumption

\* Every step keeps the fields, and with them the ids.
LEMMA IdsStep == Fields /\ Ids /\ [Next]_vars => Fields' /\ Ids'
<1> SUFFICES ASSUME Fields, Ids, [Next]_vars PROVE Fields' /\ Ids'
    OBVIOUS
<1> USE Constants DEF Fields, Ids, Goto, Happens, StoreFails, Stage, Event, Key,
        replay, store, bounds, history
<1>1. ASSUME NEW e \in Decl, Declare(e) PROVE Fields' /\ Ids'
  BY <1>1 DEF Declare, Added
<1>2. ASSUME NEW e \in Decl, Configure(e) PROVE Fields' /\ Ids'
  BY <1>2 DEF Configure
<1>3. ASSUME Restart PROVE Fields' /\ Ids'
  BY <1>3 DEF Restart, Nobody
<1>4. ASSUME NEW c \in Caller, ReplayBegin(c) PROVE Fields' /\ Ids'
  BY <1>4 DEF ReplayBegin
<1>5. ASSUME NEW c \in Caller, SyncJob(c) PROVE Fields' /\ Ids'
  <2>1. PICK x \in todo[c] :
          /\ todo' = [todo EXCEPT ![c] = todo[c] \ {x}]
          /\ \/ UNCHANGED <<uid, cur, pc>>
             \/ /\ ShouldPersist(x[2])
                /\ uid' = [uid EXCEPT ![x[2]] = SyncedId(x[2])]
                /\ cur' = [cur EXCEPT ![c] = [key |-> x[1], ev |-> x[2], id |-> None]]
                /\ \/ pc' = [pc EXCEPT ![c] = "create"]
                   \/ pc' = [pc EXCEPT ![c] = "remove"]
    BY <1>5 DEF SyncJob
  <2>2. x[1] \in Key /\ x[2] \in Event /\ uid[x[2]] \in Decl \cup Id
    OBVIOUS
  <2>3. UNCHANGED <<program, table, configured, list, replays>>
    BY <1>5 DEF SyncJob
  <2>4. SyncedId(x[2]) \in Decl \cup Id /\ (ShouldPersist(x[2]) => SyncedId(x[2]) \in Id)
    BY <2>2 DEF SyncedId, ShouldPersist
  <2>5. CASE UNCHANGED <<uid, cur, pc>>
    BY <2>1, <2>3, <2>5
  <2>6. CASE ~ UNCHANGED <<uid, cur, pc>>
    <3> DEFINE n == [key |-> x[1], ev |-> x[2], id |-> None]
    <3>1. n \in [key : Key \cup {None}, ev : Event \cup {None}, id : Key \cup {None}]
          /\ n.key = x[1] /\ n.ev = x[2] /\ n.id = None
      BY <2>2
    <3>2. /\ uid' = [uid EXCEPT ![x[2]] = SyncedId(x[2])] /\ cur' = [cur EXCEPT ![c] = n]
          /\ pc' = [pc EXCEPT ![c] = "create"] \/ pc' = [pc EXCEPT ![c] = "remove"]
          /\ SyncedId(x[2]) \in Id
      BY <2>1, <2>4, <2>6
    <3> HIDE DEF n
    <3>3. Fields'
      <4>1. uid' \in [Event -> Decl \cup Id \cup {None}] /\ pc' \in [Caller -> Stage]
        BY <2>2, <3>2
      <4>2. cur' \in [Caller -> [key : Key \cup {None}, ev : Event \cup {None},
                                id : Key \cup {None}]]
        BY <3>1, <3>2
      <4>3. DOMAIN todo' = Caller /\ \A d \in Caller : todo'[d] \subseteq Key \X Event
        BY <2>1
      <4> QED
        BY <2>3, <4>1, <4>2, <4>3
    <3>4. \A e \in Event : uid'[e] = IF e = x[2] THEN SyncedId(e) ELSE uid[e]
      BY <2>2, <3>2
    <3>5. \A d \in Caller : cur'[d] = IF d = c THEN n ELSE cur[d]
      BY <3>2
    <3> QED
      BY <2>1, <2>2, <2>3, <3>1, <3>2, <3>3, <3>4, <3>5
  <2> QED
    BY <2>5, <2>6
<1>6. ASSUME NEW c \in Caller, SyncRemove(c) PROVE Fields' /\ Ids'
  BY <1>6 DEF SyncRemove, Removed
<1>7. ASSUME NEW c \in Caller, SyncAdd(c) PROVE Fields' /\ Ids'
  BY <1>7 DEF SyncAdd, Added
<1>8. ASSUME NEW c \in Caller, SyncCreate(c) PROVE Fields' /\ Ids'
  BY <1>8 DEF SyncCreate
<1>9. ASSUME NEW c \in Caller, SyncIndex(c) PROVE Fields' /\ Ids'
  BY <1>9 DEF SyncIndex
<1>10. ASSUME NEW c \in Caller, SyncAppend(c) PROVE Fields' /\ Ids'
  BY <1>10 DEF SyncAppend
<1>11. ASSUME NEW c \in Caller, LoadScheduleIDs(c) \/ LoadSchedule(c) PROVE Fields' /\ Ids'
  <2>1. /\ UNCHANGED <<program, table, uid, configured, todo, replays>>
        /\ cur' = [cur EXCEPT ![c] = Nobody] \/ cur' = cur
        /\ \E stage \in {"load", "replay", "ended"} : pc' = [pc EXCEPT ![c] = stage]
    BY <1>11 DEF LoadScheduleIDs, LoadSchedule, LoadNext, LoadFails
  <2>2. Nobody \in [key : Key \cup {None}, ev : Event \cup {None}, id : Key \cup {None}]
    BY DEF Nobody
  <2>3. Fields'
    BY <2>1, <2>2
  <2> QED
    BY <2>1, <2>3
<1>12. ASSUME NEW c \in Caller, ReplayJob(c) PROVE Fields' /\ Ids'
  <2>1. UNCHANGED <<program, table, uid, configured, todo, replays>>
    BY <1>12 DEF ReplayJob
  <2> DEFINE i == Head(list[c])
  <2>2. CASE Found(i) # {}
    <3>1. PICK e \in Found(i) : /\ cur' = [cur EXCEPT ![c] = [key |-> None, ev |-> e, id |-> i]]
                                /\ pc' = [pc EXCEPT ![c] = "runs"]
      BY <1>12, <2>2 DEF ReplayJob
    <3>2. e \in Event /\ i \in Key \cup {None}
      BY DEF Found, Holders, InTable, Range
    <3> QED
      BY <2>1, <3>1, <3>2
  <2>3. CASE Found(i) = {} /\ i \in Registered
    <3>1. /\ cur' = [cur EXCEPT ![c].id = i] /\ pc' = [pc EXCEPT ![c] = "rebuild"]
          /\ i \in Id
      BY <1>12, <2>3 DEF ReplayJob
    <3> HIDE DEF i
    <3>2. \A r \in [key : Key \cup {None}, ev : Event \cup {None}, id : Key \cup {None}] :
             /\ [r EXCEPT !.id = i] \in [key : Key \cup {None}, ev : Event \cup {None},
                                         id : Key \cup {None}]
             /\ [r EXCEPT !.id = i].id = i
      BY <3>1
    <3>3. /\ cur' \in [Caller -> [key : Key \cup {None}, ev : Event \cup {None},
                                  id : Key \cup {None}]]
          /\ cur'[c].id = i /\ \A d \in Caller \ {c} : cur'[d] = cur[d]
      BY <3>1, <3>2
    <3>4. /\ pc' \in [Caller -> Stage] /\ pc'[c] = "rebuild"
          /\ \A d \in Caller \ {c} : pc'[d] = pc[d]
      BY <3>1
    <3>5. Fields'
      BY <2>1, <3>3, <3>4
    <3> QED
      BY <2>1, <3>1, <3>3, <3>4, <3>5
  <2>4. CASE Found(i) = {} /\ i \notin Registered
    BY <1>12, <2>1, <2>4 DEF ReplayJob
  <2> QED
    BY <2>2, <2>3, <2>4
<1>13. ASSUME NEW c \in Caller, Rebuild(c) PROVE Fields' /\ Ids'
  BY <1>13 DEF Rebuild, Added
<1>14. ASSUME NEW c \in Caller, LoadRuns(c) PROVE Fields' /\ Ids'
  BY <1>14 DEF LoadRuns, Nobody
<1>15. ASSUME NEW c \in Caller, ReplayEnd(c) \/ ReplayReturn(c) PROVE Fields' /\ Ids'
  BY <1>15 DEF ReplayEnd, ReplayReturn
<1>16. ASSUME NEW k \in Key, UnscheduleFind(k) PROVE Fields' /\ Ids'
  BY <1>16 DEF UnscheduleFind
<1>17. ASSUME UnscheduleRemove PROVE Fields' /\ Ids'
  BY <1>17 DEF UnscheduleRemove, Removed
<1>18. CASE UNCHANGED vars
  BY <1>18 DEF vars
<1> QED
  BY <1>1, <1>2, <1>3, <1>4, <1>5, <1>6, <1>7, <1>8, <1>9, <1>10, <1>11, <1>12, <1>13,
     <1>14, <1>15, <1>16, <1>17, <1>18 DEF Next, SyncStep, ReplayStep

\* The parts of the state that a Replay leaves as they are.
LEMMA CallerStep ==
    ASSUME Fields, NEW c \in Caller, SyncStep(c) \/ ReplayStep(c)
    PROVE  /\ UNCHANGED <<program, configured, target, bounds, overlapped, gone>>
           /\ pc[c] # "idle"
           /\ marks \subseteq marks' /\ marks' \subseteq marks \cup {"fail"}
           /\ schedules \subseteq schedules'
           /\ \A d \in Caller \ {c} :
                 pc'[d] = pc[d] /\ todo'[d] = todo[d] /\ cur'[d] = cur[d]
<1> USE DEF Goto, bounds, store, history
<1>1. /\ UNCHANGED <<program, configured, target, bounds, overlapped, gone>>
      /\ pc[c] # "idle"
      /\ marks \subseteq marks' /\ marks' \subseteq marks \cup {"fail"}
      /\ schedules \subseteq schedules'
  BY DEF SyncStep, ReplayStep, SyncJob, SyncRemove, SyncAdd, SyncCreate,
     SyncIndex, SyncAppend, LoadScheduleIDs, LoadSchedule, LoadNext, LoadFails, ReplayJob,
     Rebuild, LoadRuns, ReplayEnd, ReplayReturn, StoreFails, Happens
<1>2. \E stage, t, r :
         /\ pc' = pc \/ pc' = [pc EXCEPT ![c] = stage]
         /\ todo' = todo \/ todo' = [todo EXCEPT ![c] = t]
         /\ cur' = cur \/ cur' = [cur EXCEPT ![c] = r]
  BY DEF SyncStep, ReplayStep, SyncJob, SyncRemove, SyncAdd, SyncCreate,
     SyncIndex, SyncAppend, LoadScheduleIDs, LoadSchedule, LoadNext, LoadFails, ReplayJob,
     Rebuild, LoadRuns, ReplayEnd, ReplayReturn
<1> QED
  BY <1>1, <1>2 DEF Fields

\* What has disturbed a process stays on record.
LEMMA MarksStay == Fields /\ [Next]_vars => Restart \/ marks \subseteq marks'
<1> SUFFICES ASSUME Fields, [Next]_vars PROVE Restart \/ marks \subseteq marks'
    OBVIOUS
<1>1. ASSUME NEW c \in Caller, SyncStep(c) \/ ReplayStep(c) PROVE marks \subseteq marks'
  BY <1>1, CallerStep
<1>2. ASSUME NEW c \in Caller, ReplayBegin(c) PROVE marks \subseteq marks'
  BY <1>2 DEF ReplayBegin, Happens
<1>3. ASSUME \/ (\E e \in Decl : Declare(e) \/ Configure(e))
             \/ (\E k \in Key : UnscheduleFind(k)) \/ UnscheduleRemove \/ UNCHANGED vars
      PROVE  marks \subseteq marks'
  BY <1>3 DEF Declare, Configure, UnscheduleFind, UnscheduleRemove, Happens, vars, history
<1> QED
  BY <1>1, <1>2, <1>3 DEF Next

\* A process begins without jobs.
LEMMA InitIds == Init => Fields /\ Ids
BY Constants DEF Init, Fields, Ids, Nobody, Stage, Event, Key

-----------------------------------------------------------------------------
(* Types.                                                                  *)

\* The types say what Fields says of the state, and more.
LEMMA TypeFields == TypeOK => Fields
BY Constants DEF TypeOK, Fields, Key

\* The head and the tail of what is read.
LEMMA HeadTail ==
    ASSUME NEW S, NEW s \in Seq(S), s # <<>>
    PROVE  /\ Head(s) \in S /\ Tail(s) \in Seq(S)
           /\ Range(s) = Range(Tail(s)) \cup {Head(s)}
           /\ IsInjective(s) => IsInjective(Tail(s)) /\ Head(s) \notin Range(Tail(s))
<1>1. /\ Len(s) \in Nat \ {0} /\ DOMAIN s = 1 .. Len(s) /\ Head(s) = s[1]
      /\ \A k \in 1 .. Len(s) : s[k] \in S
      /\ Tail(s) \in Seq(S) /\ DOMAIN Tail(s) = 1 .. Len(s) - 1
      /\ \A k \in 1 .. Len(s) - 1 : Tail(s)[k] = s[k + 1]
  OBVIOUS
<1>2. \A k \in 1 .. Len(s) - 1 : k + 1 \in 1 .. Len(s) /\ k + 1 # 1
  BY <1>1
<1>3. \A k \in 1 .. Len(s) : k = 1 \/ (k - 1 \in 1 .. Len(s) - 1 /\ (k - 1) + 1 = k)
  BY <1>1
<1>4. 1 \in 1 .. Len(s)
  BY <1>1
<1>5. Head(s) \in S
  BY <1>1, <1>4
<1>6. \A k \in 1 .. Len(s) - 1 : s[k + 1] \in Range(s)
  BY <1>1, <1>2 DEF Range
<1>7. \A k \in 1 .. Len(s) : s[k] = Head(s) \/ s[k] \in Range(Tail(s))
  <2>1. ASSUME NEW k \in 1 .. Len(s), k # 1 PROVE s[k] \in Range(Tail(s))
    <3>1. k - 1 \in DOMAIN Tail(s) /\ Tail(s)[k - 1] = s[k]
      BY <1>1, <1>3, <2>1
    <3> QED
      BY <3>1 DEF Range
  <2> QED
    BY <1>1, <2>1
<1>8. Range(s) = Range(Tail(s)) \cup {Head(s)}
  BY <1>1, <1>4, <1>6, <1>7 DEF Range
<1>9. ASSUME IsInjective(s) PROVE IsInjective(Tail(s)) /\ Head(s) \notin Range(Tail(s))
  <2>1. ASSUME NEW j \in 1 .. Len(s) - 1, NEW k \in 1 .. Len(s) - 1, s[j + 1] = s[k + 1]
        PROVE  j = k
    BY <1>1, <1>2, <1>9, <2>1 DEF IsInjective
  <2>2. ASSUME NEW k \in 1 .. Len(s) - 1 PROVE s[k + 1] # s[1]
    BY <1>1, <1>2, <1>4, <1>9 DEF IsInjective
  <2> QED
    BY <1>1, <2>1, <2>2 DEF IsInjective, Range
<1> QED
  BY <1>1, <1>5, <1>8, <1>9

\* An id that has been appended is in the index, and the others still are.
LEMMA Appended ==
    ASSUME NEW S, NEW s \in Seq(S), NEW i \in S
    PROVE  Append(s, i) \in Seq(S) /\ Range(Append(s, i)) = Range(s) \cup {i}
<1>1. /\ Append(s, i) \in Seq(S) /\ Len(s) \in Nat /\ DOMAIN s = 1 .. Len(s)
      /\ DOMAIN Append(s, i) = 1 .. Len(s) + 1
      /\ \A k \in 1 .. Len(s) : Append(s, i)[k] = s[k]
      /\ Append(s, i)[Len(s) + 1] = i
  OBVIOUS
<1>2. \A k \in 1 .. Len(s) + 1 : k \in 1 .. Len(s) \/ k = Len(s) + 1
  BY <1>1
<1>3. Len(s) + 1 \in 1 .. Len(s) + 1 /\ 1 .. Len(s) \subseteq 1 .. Len(s) + 1
  BY <1>1
<1> QED
  BY <1>1, <1>2, <1>3 DEF Range

\* A sequence stays free of duplicates when something new is appended.
LEMMA AppendedOnce ==
    ASSUME NEW S, NEW s \in Seq(S), NEW i \in S, IsInjective(s), i \notin Range(s)
    PROVE  IsInjective(Append(s, i))
<1>1. /\ Len(s) \in Nat /\ DOMAIN s = 1 .. Len(s)
      /\ DOMAIN Append(s, i) = 1 .. Len(s) + 1
      /\ \A k \in 1 .. Len(s) : Append(s, i)[k] = s[k]
      /\ Append(s, i)[Len(s) + 1] = i
  OBVIOUS
<1>2. \A k \in 1 .. Len(s) + 1 : k \in 1 .. Len(s) \/ k = Len(s) + 1
  BY <1>1
<1>3. \A k \in 1 .. Len(s) : s[k] # i
  BY <1>1 DEF Range
<1> QED
  BY <1>1, <1>2, <1>3 DEF IsInjective

\* An update of a function at an argument keeps its type.
LEMMA Replaced ==
    ASSUME NEW S, NEW T, NEW f \in [S -> T], NEW c \in S, NEW t \in T
    PROVE  [f EXCEPT ![c] = t] \in [S -> T]
OBVIOUS

\* Whoever reads a schedule has still one to read, and whoever is at a job has it
\* first in its list.
Reads ==
    \A c \in Caller :
        /\ pc[c] = "load" => unread[c] # <<>>
        /\ pc[c] \in {"index", "append"} => cur[c].id \in Id
        /\ pc[c] \in {"rebuild", "runs"} => list[c] # <<>> /\ cur[c].id = Head(list[c])

\* Every step keeps the types.
LEMMA TypeStep == TypeOK /\ Ids /\ Reads /\ [Next]_vars => TypeOK'
<1> SUFFICES ASSUME TypeOK, Ids, Reads, [Next]_vars PROVE TypeOK'
    OBVIOUS
<1>1. Fields /\ Fields'
  BY TypeFields, IdsStep
<1> USE Constants, RegistryAssumption DEF Goto, Event, Key, replay, store, bounds, history
<1>2. todo' \in [Caller -> SUBSET (Key \X Event)]
  <2>1. CASE todo' = todo \/ Restart
    BY <2>1 DEF Restart, TypeOK
  <2>2. ASSUME NEW c \in Caller, ReplayBegin(c) \/ SyncJob(c)
        PROVE  todo' \in [Caller -> SUBSET (Key \X Event)]
    <3>1. PICK t : todo' = [todo EXCEPT ![c] = t]
      BY <2>2 DEF ReplayBegin, SyncJob
    <3>2. todo'[c] = t /\ t \subseteq Key \X Event
      BY <1>1, <3>1 DEF Fields, TypeOK
    <3> QED
      BY <3>1, <3>2 DEF TypeOK
  <2> QED
    BY <2>1, <2>2 DEF Next, vars, Declare, Configure, SyncStep, ReplayStep,
       SyncRemove, SyncAdd, SyncCreate, SyncIndex, SyncAppend, LoadScheduleIDs, LoadSchedule,
       ReplayJob, Rebuild, LoadRuns, ReplayEnd, ReplayReturn, UnscheduleFind, UnscheduleRemove
<1>3. cur' \in [Caller -> [key : Key \cup {None}, ev : Event \cup {None}, id : Id \cup {None}]]
  <2> DEFINE R == [key : Key \cup {None}, ev : Event \cup {None}, id : Id \cup {None}]
  <2>1. CASE cur' = cur \/ Restart
    BY <2>1 DEF Restart, TypeOK, Nobody
  <2>2. ASSUME NEW c \in Caller, NEW r \in R, cur' = [cur EXCEPT ![c] = r]
        PROVE  cur' \in [Caller -> R]
    BY <2>2 DEF TypeOK
  <2>3. ASSUME NEW c \in Caller, SyncStep(c) \/ ReplayStep(c), cur' # cur
        PROVE  \E r \in R : cur' = [cur EXCEPT ![c] = r]
    <3>1. \A r \in R, i \in Id, e \in Event :
             [r EXCEPT !.id = i] \in R /\ [r EXCEPT !.ev = e] \in R
      OBVIOUS
    <3>2. CASE SyncJob(c)
      <4>1. PICK x \in todo[c] :
               cur' = [cur EXCEPT ![c] = [key |-> x[1], ev |-> x[2], id |-> None]]
        BY <2>3, <3>2 DEF SyncJob
      <4>2. x[1] \in Key /\ x[2] \in Event
        BY <1>1 DEF Fields
      <4> QED
        BY <4>1, <4>2
    <3>3. CASE SyncCreate(c)
      <4>1. cur' = [cur EXCEPT ![c] = [cur[c] EXCEPT !.id = uid[cur[c].ev]]]
        BY <3>3 DEF SyncCreate
      <4>2. uid[cur[c].ev] \in Id /\ cur[c] \in R
        BY <3>3 DEF SyncCreate, Ids, TypeOK
      <4>3. [cur[c] EXCEPT !.id = uid[cur[c].ev]] \in R
        BY <3>1, <4>2
      <4> HIDE DEF R
      <4> QED
        BY <4>1, <4>3
    <3>4. CASE LoadScheduleIDs(c) \/ LoadRuns(c)
      BY <3>4 DEF LoadScheduleIDs, LoadRuns, Nobody
    <3>5. CASE ReplayJob(c)
      <4> DEFINE i == Head(list[c])
      <4>0. i \in Id
        BY <3>5, HeadTail DEF ReplayJob, TypeOK
      <4>1. CASE Found(i) # {}
        <5>1. PICK e \in Found(i) : cur' = [cur EXCEPT ![c] = [key |-> None, ev |-> e, id |-> i]]
          BY <3>5, <4>1 DEF ReplayJob
        <5>2. e \in Event
          BY DEF Found, Holders, InTable, Range, TypeOK
        <5> QED
          BY <4>0, <5>1, <5>2
      <4>2. CASE Found(i) = {}
        <5>1. cur' = [cur EXCEPT ![c] = [cur[c] EXCEPT !.id = i]] /\ cur[c] \in R
          BY <2>3, <3>5, <4>2 DEF ReplayJob, TypeOK
        <5> QED
          BY <3>1, <4>0, <5>1
      <4> QED
        BY <4>1, <4>2
    <3>6. CASE Rebuild(c)
      <4>1. PICK e \in Spare : cur' = [cur EXCEPT ![c] = [cur[c] EXCEPT !.ev = e]]
        BY <3>6 DEF Rebuild
      <4>2. cur[c] \in R /\ e \in Event
        BY DEF TypeOK
      <4>3. [cur[c] EXCEPT !.ev = e] \in R
        BY <3>1, <4>2
      <4> HIDE DEF R
      <4> QED
        BY <4>1, <4>3
    <3> QED
      BY <2>3, <3>2, <3>3, <3>4, <3>5, <3>6 DEF SyncStep, ReplayStep, SyncRemove, SyncAdd,
         SyncIndex, SyncAppend, LoadSchedule, ReplayEnd, ReplayReturn
  <2> QED
    BY <2>1, <2>2, <2>3 DEF Next, vars, Declare, Configure, ReplayBegin,
       UnscheduleFind, UnscheduleRemove
<1>4. unread' \in [Caller -> Seq(Id)] /\ list' \in [Caller -> Seq(Id)]
  <2>0. unread \in [Caller -> Seq(Id)] /\ list \in [Caller -> Seq(Id)]
    BY DEF TypeOK
  <2>1. CASE Restart
    <3>1. <<>> \in Seq(Id)
      OBVIOUS
    <3>2. unread' = [c \in Caller |-> <<>>] /\ list' = [c \in Caller |-> <<>>]
      BY <2>1 DEF Restart
    <3> QED
      BY <3>1, <3>2
  <2>2. ASSUME NEW c \in Caller, NEW u \in Seq(Id), NEW l \in Seq(Id),
               unread' = unread \/ unread' = [unread EXCEPT ![c] = u],
               list' = list \/ list' = [list EXCEPT ![c] = l]
        PROVE  unread' \in [Caller -> Seq(Id)] /\ list' \in [Caller -> Seq(Id)]
    <3>1. [unread EXCEPT ![c] = u] \in [Caller -> Seq(Id)]
          /\ [list EXCEPT ![c] = l] \in [Caller -> Seq(Id)]
      BY <2>0, Replaced
    <3> QED
      BY <2>0, <2>2, <3>1
  <2>3. ASSUME NEW c \in Caller, ReplayStep(c), ~ UNCHANGED <<unread, list>>
        PROVE  \E u, l \in Seq(Id) : /\ unread' = unread \/ unread' = [unread EXCEPT ![c] = u]
                                     /\ list' = list \/ list' = [list EXCEPT ![c] = l]
    <3>1. <<>> \in Seq(Id) /\ index \in Seq(Id) /\ unread[c] \in Seq(Id) /\ list[c] \in Seq(Id)
      BY DEF TypeOK
    <3>2. CASE LoadScheduleIDs(c)
      BY <3>1, <3>2 DEF LoadScheduleIDs, LoadFails
    <3>3. CASE LoadSchedule(c)
      <4>1. CASE LoadFails(c)
        BY <3>1, <4>1 DEF LoadFails
      <4>2. CASE ~ LoadFails(c)
        <5>1. /\ unread' = [unread EXCEPT ![c] = Tail(unread[c])]
              /\ list' = [list EXCEPT ![c] = Taken(list[c], Head(unread[c]))]
          BY <3>3, <4>2 DEF LoadSchedule
        <5>2. unread[c] # <<>>
          BY <3>3 DEF LoadSchedule, Reads
        <5>3. Tail(unread[c]) \in Seq(Id) /\ Head(unread[c]) \in Id
          BY <3>1, <5>2, HeadTail
        <5>4. Taken(list[c], Head(unread[c])) \in Seq(Id)
          BY <3>1, <5>3, Appended DEF Taken
        <5> QED
          BY <5>1, <5>3, <5>4
      <4> QED
        BY <4>1, <4>2
    <3>4. CASE ReplayJob(c) \/ LoadRuns(c)
      <4>1. list[c] # <<>>
        BY <3>4 DEF ReplayJob, LoadRuns, Reads
      <4>2. Tail(list[c]) \in Seq(Id)
        BY <3>1, <4>1, HeadTail
      <4> QED
        BY <3>1, <3>4, <4>2 DEF ReplayJob, LoadRuns
    <3> QED
      BY <2>3, <3>2, <3>3, <3>4 DEF ReplayStep, Rebuild, ReplayEnd, ReplayReturn
  <2> QED
    BY <2>0, <2>1, <2>2, <2>3 DEF Next, vars, Declare, Configure, ReplayBegin, SyncStep,
       SyncJob, SyncRemove, SyncAdd, SyncCreate, SyncIndex, SyncAppend,
       UnscheduleFind, UnscheduleRemove
<1>5. filled' \in [Caller -> [Id -> Nat]]
  <2>0. filled \in [Caller -> [Id -> Nat]]
    BY DEF TypeOK
  <2>1. CASE Restart
    <3>1. filled' = [c \in Caller |-> [i \in Id |-> 0]]
      BY <2>1 DEF Restart
    <3> QED
      BY <3>1
  <2>2. ASSUME NEW c \in Caller, ReplayBegin(c) PROVE filled' \in [Caller -> [Id -> Nat]]
    <3>1. filled' = [filled EXCEPT ![c] = [i \in Id |-> 0]]
      BY <2>2 DEF ReplayBegin
    <3> QED
      BY <2>0, <3>1
  <2>3. ASSUME NEW c \in Caller, LoadRuns(c) PROVE filled' \in [Caller -> [Id -> Nat]]
    <3> DEFINE i == cur[c].id
    <3>1. \/ filled' = filled
          \/ filled' = [filled EXCEPT ![c] = [filled[c] EXCEPT ![i] = filled[c][i] + 1]]
      BY <2>3 DEF LoadRuns
    <3>2. i \in Id
      <4>1. list[c] \in Seq(Id) /\ list[c] # <<>> /\ i = Head(list[c])
        BY <2>3 DEF LoadRuns, Reads, TypeOK
      <4> QED
        BY <4>1, HeadTail
    <3>3. [filled[c] EXCEPT ![i] = filled[c][i] + 1] \in [Id -> Nat]
      BY <2>0, <3>2
    <3> HIDE DEF i
    <3> QED
      BY <2>0, <3>1, <3>3
  <2> QED
    BY <2>0, <2>1, <2>2, <2>3 DEF Next, vars, Declare, Configure, SyncStep, ReplayStep,
       SyncJob, SyncRemove, SyncAdd, SyncCreate, SyncIndex, SyncAppend, LoadScheduleIDs,
       LoadSchedule, ReplayJob, Rebuild, ReplayEnd, ReplayReturn, UnscheduleFind,
       UnscheduleRemove
<1>6. target' \in (Key \X (Decl \cup Id)) \cup {None} /\ gone' \subseteq Decl \cup Id
  <2>1. CASE UNCHANGED <<target, gone>> \/ Restart
    BY <2>1 DEF Restart, TypeOK
  <2>2. ASSUME NEW k \in Key, UnscheduleFind(k)
        PROVE  target' \in Key \X (Decl \cup Id) /\ gone' = gone
    <3>1. table[k] \in Event /\ uid[table[k]] \in Decl \cup Id
      BY <2>2 DEF UnscheduleFind, TypeOK, Ids
    <3> QED
      BY <2>2, <3>1 DEF UnscheduleFind
  <2>3. ASSUME UnscheduleRemove PROVE target' = None /\ gone' \subseteq Decl \cup Id
    <3>1. target \in Key \X (Decl \cup Id)
      BY <2>3 DEF UnscheduleRemove, TypeOK
    <3> QED
      BY <2>3, <3>1 DEF UnscheduleRemove, TypeOK
  <2> QED
    BY <2>1, <2>2, <2>3 DEF Next, vars, Declare, Configure, ReplayBegin, SyncStep, ReplayStep,
       SyncJob, SyncRemove, SyncAdd, SyncCreate, SyncIndex, SyncAppend, LoadScheduleIDs,
       LoadSchedule, ReplayJob, Rebuild, LoadRuns, ReplayEnd, ReplayReturn, TypeOK
<1>7. schedules' \subseteq Id /\ index' \in Seq(Id)
  <2>1. CASE UNCHANGED <<schedules, index>>
    BY <2>1 DEF TypeOK
  <2>2. ASSUME NEW c \in Caller, SyncCreate(c) PROVE schedules' \subseteq Id /\ index' = index
    <3>1. uid[cur[c].ev] \in Id
      BY <2>2 DEF SyncCreate, Ids
    <3> QED
      BY <2>2, <3>1 DEF SyncCreate, TypeOK
  <2>3. ASSUME NEW c \in Caller, SyncAppend(c) PROVE schedules' = schedules /\ index' \in Seq(Id)
    <3>1. cur[c].id \in Id
      BY <2>3 DEF SyncAppend, Reads
    <3>2. Append(index, cur[c].id) \in Seq(Id)
      BY <3>1, Appended DEF TypeOK
    <3> QED
      BY <2>3, <3>2 DEF SyncAppend, TypeOK
  <2> QED
    BY <2>1, <2>2, <2>3 DEF Next, vars, Declare, Configure, Restart, ReplayBegin, SyncStep,
       ReplayStep, SyncJob, SyncRemove, SyncAdd, SyncIndex, LoadScheduleIDs, LoadSchedule,
       ReplayJob, Rebuild, LoadRuns, ReplayEnd, ReplayReturn, UnscheduleFind,
       UnscheduleRemove, TypeOK
<1>8. /\ replays' \in 0 .. MaxReplays /\ boots' \in 0 .. MaxBoots
      /\ marks' \subseteq Hazards /\ overlapped' \in BOOLEAN
  <2>1. /\ replays \in 0 .. MaxReplays /\ boots \in 0 .. MaxBoots
        /\ marks \subseteq Hazards /\ overlapped \in BOOLEAN
    BY DEF TypeOK
  <2>2. CASE Restart
    BY <2>1, <2>2 DEF Restart
  <2>3. ASSUME NEW c \in Caller, ReplayBegin(c)
        PROVE  /\ replays' = replays + 1 /\ replays < MaxReplays /\ boots' = boots
               /\ marks' \subseteq Hazards /\ overlapped' \in BOOLEAN
    BY <2>1, <2>3 DEF ReplayBegin, Happens
  <2>4. ASSUME NEW c \in Caller, SyncStep(c) \/ ReplayStep(c)
        PROVE  UNCHANGED <<replays, boots, overlapped>> /\ marks' \subseteq Hazards
    BY <2>1, <2>4 DEF SyncStep, ReplayStep, SyncJob, SyncRemove, SyncAdd, SyncCreate,
       SyncIndex, SyncAppend, LoadScheduleIDs, LoadSchedule, LoadFails, ReplayJob, Rebuild,
       LoadRuns, ReplayEnd, ReplayReturn, StoreFails, Happens
  <2>5. CASE \E k \in Key : UnscheduleFind(k)
    BY <2>1, <2>5 DEF UnscheduleFind, Happens
  <2>6. CASE UnscheduleRemove \/ UNCHANGED vars \/ \E e \in Decl : Declare(e) \/ Configure(e)
    BY <2>1, <2>6 DEF UnscheduleRemove, vars, Declare, Configure
  <2> QED
    BY <2>1, <2>2, <2>3, <2>4, <2>5, <2>6 DEF Next
<1> QED
  BY <1>1, <1>2, <1>3, <1>4, <1>5, <1>6, <1>7, <1>8 DEF Fields, TypeOK

\* Every step keeps what the readers have before them.
LEMMA ReadsStep == TypeOK /\ Ids /\ Reads /\ [Next]_vars => Reads'
<1> SUFFICES ASSUME TypeOK, Ids, Reads, [Next]_vars PROVE Reads'
    OBVIOUS
<1>1. CASE Restart
  BY <1>1 DEF Restart, Reads
<1>2. ASSUME NEW c \in Caller, SyncStep(c) \/ ReplayStep(c) PROVE Reads'
  <2>2. /\ pc \in [Caller -> Stage] /\ DOMAIN cur = Caller /\ DOMAIN unread = Caller
        /\ DOMAIN list = Caller
    BY DEF TypeOK
  <2>1. \A d \in Caller \ {c} : /\ pc'[d] = pc[d] /\ cur'[d] = cur[d]
                                /\ unread'[d] = unread[d] /\ list'[d] = list[d]
    <3>1. \E u, l : /\ unread' = unread \/ unread' = [unread EXCEPT ![c] = u]
                    /\ list' = list \/ list' = [list EXCEPT ![c] = l]
      BY <1>2 DEF SyncStep, ReplayStep, SyncJob, SyncRemove, SyncAdd, SyncCreate, SyncIndex,
         SyncAppend, LoadScheduleIDs, LoadSchedule, LoadFails, ReplayJob, Rebuild, LoadRuns,
         ReplayEnd, ReplayReturn
    <3> QED
      BY <1>2, <2>2, <3>1, CallerStep, TypeFields
  <2>3. /\ pc'[c] = "load" => unread'[c] # <<>>
        /\ pc'[c] \in {"index", "append"} => cur'[c].id \in Id
        /\ pc'[c] \in {"rebuild", "runs"} => list'[c] # <<>> /\ cur'[c].id = Head(list'[c])
    <3> USE <2>2 DEF Goto
    <3>1. CASE SyncJob(c) \/ SyncRemove(c) \/ SyncAdd(c)
      BY <3>1 DEF SyncJob, SyncRemove, SyncAdd
    <3>2. CASE SyncCreate(c)
      BY <3>2 DEF SyncCreate, Ids, TypeOK
    <3>3. CASE SyncIndex(c) \/ SyncAppend(c)
      BY <3>3 DEF SyncIndex, SyncAppend, Reads
    <3>4. CASE LoadScheduleIDs(c) \/ LoadSchedule(c)
      BY <3>4 DEF LoadScheduleIDs, LoadSchedule, LoadNext, LoadFails
    <3>5. CASE ReplayJob(c)
      BY <3>5 DEF ReplayJob, TypeOK
    <3>6. CASE Rebuild(c)
      BY <3>6 DEF Rebuild, Reads, TypeOK
    <3>7. CASE LoadRuns(c) \/ ReplayEnd(c) \/ ReplayReturn(c)
      BY <3>7 DEF LoadRuns, ReplayEnd, ReplayReturn
    <3> QED
      BY <1>2, <3>1, <3>2, <3>3, <3>4, <3>5, <3>6, <3>7 DEF SyncStep, ReplayStep
  <2> QED
    BY <2>1, <2>3 DEF Reads
<1>3. ASSUME NEW c \in Caller, ReplayBegin(c) PROVE Reads'
  BY <1>3 DEF ReplayBegin, Goto, Reads, TypeOK
<1>4. ASSUME \/ (\E e \in Decl : Declare(e) \/ Configure(e))
             \/ (\E k \in Key : UnscheduleFind(k)) \/ UnscheduleRemove \/ UNCHANGED vars
      PROVE  Reads'
  BY <1>4 DEF Declare, Configure, UnscheduleFind, UnscheduleRemove, vars, replay, Reads
<1> QED
  BY <1>1, <1>2, <1>3, <1>4 DEF Next

\* A process begins with nothing in its hands.
LEMMA InitTypes == Init => TypeOK /\ Ids /\ Reads
<1>1. Init => Ids
  BY InitIds
<1>2. <<>> \in Seq(Id)
  OBVIOUS
<1>3. Init => TypeOK
  <2> SUFFICES ASSUME Init PROVE TypeOK
    OBVIOUS
  <2>1. Fields
    BY InitIds
  <2>2. Nobody \in [key : Key \cup {None}, ev : Event \cup {None}, id : Id \cup {None}]
    BY DEF Nobody
  <2>3. cur \in [Caller -> [key : Key \cup {None}, ev : Event \cup {None}, id : Id \cup {None}]]
    BY <2>2 DEF Init
  <2>4. /\ todo \in [Caller -> SUBSET (Key \X Event)]
        /\ unread \in [Caller -> Seq(Id)] /\ list \in [Caller -> Seq(Id)]
        /\ index \in Seq(Id)
    BY <1>2 DEF Init
  <2>5. filled \in [Caller -> [Id -> Nat]]
    BY DEF Init
  <2>6. replays \in 0 .. MaxReplays /\ boots \in 0 .. MaxBoots
    BY RegistryAssumption DEF Init
  <2>7. /\ target = None /\ schedules \subseteq Id /\ marks \subseteq Hazards
        /\ overlapped \in BOOLEAN /\ gone \subseteq Decl \cup Id
    BY DEF Init
  <2> QED
    BY <2>1, <2>3, <2>4, <2>5, <2>6, <2>7 DEF Fields, TypeOK
<1> QED
  BY <1>1, <1>3 DEF Init, Reads

\* Every field keeps its type: no sequence of ids is read beyond its end, and no id
\* but a stable one is stored, indexed, looked up or backfilled.
THEOREM TypesHold == Spec => []TypeOK
<1>1. Init => TypeOK /\ Ids /\ Reads
  BY InitTypes
<1>2. TypeOK /\ Ids /\ Reads /\ [Next]_vars => TypeOK' /\ Ids' /\ Reads'
  BY TypeFields, IdsStep, TypeStep, ReadsStep
<1> QED
  BY <1>1, <1>2, PTL DEF Spec

-----------------------------------------------------------------------------
(* Replays that begin when the jobs are declared.                          *)

\* Before the first Replay nobody replays and nothing is rebuilt; from then on
\* the program is complete.
Begun ==
    /\ replays = 0 => /\ \A c \in Caller : pc[c] = "idle"
                      /\ \A e \in Spare : uid[e] = None
    /\ replays # 0 => configured = program

\* A job has its provisional id until it is configured, and its final one or, if
\* Sync has still to find it, the provisional one afterwards.
Named ==
    \A e \in Decl : uid[e] # None =>
        /\ e \in program
        /\ uid[e] \in {e, FinalId(e)}
        /\ e \notin configured => uid[e] = e
        /\ e \in configured /\ NameOf[e] # None => uid[e] = FinalId(e)

\* An object is under its provisional key or under its id.
Placed ==
    \A k \in Key : table[k] # None =>
        k = uid[table[k]] \/ (table[k] \in Decl /\ k = table[k])

\* So are those that Sync has in its snapshot.
Known ==
    \A c \in Caller : \A x \in todo[c] :
        x[1] = uid[x[2]] \/ (x[2] \in Decl /\ x[1] = x[2])

Unsettled == {e \in configured \cap Persistent : uid[e] \in Decl}
Past == {"load", "replay", "rebuild", "runs"}

\* A job that has still to get its stable id is in the snapshot of whoever syncs;
\* after a Sync, and beside a rebuilt job, there is none in the table.
Settled ==
    /\ \A c \in Caller : pc[c] \in Syncing \cup {"sync"} =>
          \A e \in Unsettled \cap InTable : \E x \in todo[c] : x[2] = e
    /\ \A c \in Caller : pc[c] \in Past => Unsettled \cap InTable = {}
    /\ Spare \cap InTable # {} => Unsettled \cap InTable = {}

\* What Sync re-keys is declared by the program, and was under its provisional key.
Rekeyed ==
    \A c \in Caller : /\ pc[c] \in {"remove", "add"} => cur[c].ev \in program
                      /\ pc[c] = "remove" => cur[c].key = cur[c].ev

\* While a job is rebuilt nobody else has its id, but under it.
Absent ==
    \A c \in Caller : pc[c] = "rebuild" =>
        \A k \in Key : table[k] # None /\ uid[table[k]] = cur[c].id => k = cur[c].id

Orderly == /\ Begun /\ Named /\ Placed /\ Known /\ Settled /\ Rekeyed /\ Absent

Unique == \A e, f \in InTable : uid[e] = uid[f] => e = f
OrderlyInv == "early" \notin marks => Orderly /\ Unique

\* The table holds what is under one of its keys.
LEMMA Held ==
    ASSUME Fields
    PROVE  \A e : e \in InTable <=> e # None /\ \E k \in Key : table[k] = e
BY DEF Fields, InTable, Range

\* Different jobs of a program have different ids, before and after they are named.
LEMMA FinalIds ==
    ASSUME OneId, Fields
    PROVE  /\ \A e \in Decl : FinalId(e) \in Id \cup {e}
           /\ \A e \in Decl \cap Persistent : FinalId(e) \in Id
           /\ \A d, e \in program : FinalId(d) = FinalId(e) => d = e
BY Constants DEF FinalId, OneId, Fields

\* Steps of a Replay that concern its own place, or the store, only.
LEMMA PlaceStep ==
    ASSUME Fields, Orderly, Unique, NEW c \in Caller,
           UNCHANGED <<program, table, uid, configured, replays>>, replays # 0,
           \A d \in Caller \ {c} : pc'[d] = pc[d] /\ cur'[d] = cur[d] /\ todo'[d] = todo[d],
           todo'[c] = todo[c],
           \/ pc[c] \in Syncing /\ pc'[c] \in {"create", "index", "append", "sync"}
           \/ pc[c] = "sync" /\ todo[c] = {} /\ pc'[c] \in {"load", "replay", "ended"}
           \/ pc[c] \in Past /\ pc'[c] \in {"load", "replay", "runs", "ended"}
           \/ pc[c] = "ended" /\ pc'[c] = "idle"
           \/ pc[c] = "replay" /\ pc'[c] = "rebuild" /\ Holders(cur'[c].id) = {}
    PROVE  Orderly' /\ Unique'
<1>1. InTable' = InTable /\ Unsettled' = Unsettled
  BY DEF InTable, Range, Unsettled
<1>2. Unique' /\ Begun' /\ Named' /\ Placed'
  BY <1>1 DEF Orderly, Unique, Begun, Named, Placed
<1>3. Known'
  BY DEF Orderly, Known
<1>4. Settled'
  BY <1>1 DEF Orderly, Settled, Syncing, Past
<1>5. Rekeyed'
  BY DEF Orderly, Rekeyed, Syncing, Past
<1>6. Absent'
  BY Held DEF Orderly, Absent, Holders, Syncing, Past, Fields
<1> QED
  BY <1>2, <1>3, <1>4, <1>5, <1>6 DEF Orderly

\* Steps that take nothing but jobs out of the table.
LEMMA ShrinkStep ==
    ASSUME Fields, Fields', Orderly, Unique,
           UNCHANGED <<program, uid, configured, replays, todo, cur>>,
           \A k \in Key : table'[k] \in {table[k], None},
           \A d \in Caller : pc'[d] = pc[d] \/ (pc[d] = "remove" /\ pc'[d] = "add")
    PROVE  Orderly' /\ Unique'
<1>1. \A e : e \in InTable' => e \in InTable
  BY DEF Fields, InTable, Range
<1>2. Unsettled' = Unsettled
  BY DEF Unsettled
<1>3. Unique' /\ Begun' /\ Named' /\ Known'
  BY <1>1 DEF Orderly, Unique, Begun, Named, Known
<1>4. Placed' /\ Absent'
  BY DEF Orderly, Placed, Absent
<1>5. Settled' /\ Rekeyed'
  BY <1>1, <1>2 DEF Orderly, Settled, Rekeyed, Syncing, Past
<1> QED
  BY <1>3, <1>4, <1>5 DEF Orderly

\* Every step keeps the order, if no Replay begins before the jobs are declared.
LEMMA OrderlyStep ==
    OneId /\ Fields /\ Ids /\ Fields' /\ OrderlyInv /\ [Next]_vars => OrderlyInv'
<1> SUFFICES ASSUME OneId, Fields, Ids, Fields', OrderlyInv, [Next]_vars, "early" \notin marks'
             PROVE  Orderly' /\ Unique'
    BY DEF OrderlyInv
<1> USE Constants, FinalIds DEF Goto, Event, Key, replay, store, bounds, history
<1>a. /\ \A e : e \in InTable <=> e # None /\ \E k \in Key : table[k] = e
      /\ \A e : e \in InTable' <=> e # None /\ \E k \in Key : table'[k] = e
  BY DEF Fields, InTable, Range
<1>b. ASSUME replays = 0, Orderly
      PROVE  /\ \A c \in Caller : pc[c] = "idle"
             /\ \A e \in Spare : uid[e] = None /\ e \notin InTable
  BY <1>a, <1>b DEF Orderly, Begun, Ids, Fields
<1>1. ASSUME Restart PROVE Orderly' /\ Unique'
  <2>1. InTable' = {}
    BY <1>1 DEF Restart, InTable, Range
  <2>2. replays' = 0 /\ (\A c \in Caller : pc'[c] = "idle" /\ todo'[c] = {})
        /\ (\A e \in Event : uid'[e] = None) /\ configured' = {}
        /\ (\A k \in Key : table'[k] = None)
    BY <1>1 DEF Restart
  <2> QED
    BY <2>1, <2>2 DEF Orderly, Unique, Begun, Named, Placed, Known, Settled, Rekeyed, Absent,
                      Syncing, Past
<1>2. ASSUME ~Restart PROVE "early" \notin marks /\ Orderly /\ Unique
  BY <1>2, MarksStay DEF OrderlyInv
<1>3. ASSUME NEW e \in Decl, Declare(e), Orderly, Unique PROVE Orderly' /\ Unique'
  <2>1. /\ e \in program /\ uid[e] = None /\ e \notin configured /\ replays = 0
        /\ e \notin InTable
    BY <1>3, <1>a DEF Declare, Orderly, Begun, Ids, Fields
  <2>2. /\ UNCHANGED <<program, configured, pc, todo, cur, replays>>
        /\ uid' = [uid EXCEPT ![e] = e]
        /\ \A k \in Key : table'[k] = table[k] \/ (k = e /\ table'[k] = e)
    BY <1>3 DEF Declare, Added, Fields
  <2>3. \A d \in Event : uid'[d] = IF d = e THEN e ELSE uid[d]
    BY <2>2 DEF Fields
  <2>4. \A d \in InTable' : d \in InTable \/ d = e
    BY <1>a, <2>2
  <2>5. \A d \in InTable' : d \in Decl /\ d \in program
    BY <1>3, <1>a, <1>b, <2>1, <2>4 DEF Orderly, Named, Ids, Fields
  <2>6. Begun' /\ Named'
    BY <1>3, <2>1, <2>2, <2>3 DEF Orderly, Begun, Named
  <2>7. Placed'
    BY <1>3, <1>a, <2>1, <2>2, <2>3 DEF Orderly, Placed, Fields
  <2>8. Known'
    BY <1>3, <2>1, <2>2, <2>3 DEF Orderly, Known, Fields
  <2>9. Settled' /\ Rekeyed' /\ Absent'
    BY <1>3, <1>b, <2>1, <2>2, <2>5 DEF Settled, Rekeyed, Absent, Syncing, Past
  <2>10. Unique'
    BY <1>3, <2>1, <2>3, <2>4, <2>5 DEF Unique, Orderly, Named
  <2> QED
    BY <2>6, <2>7, <2>8, <2>9, <2>10 DEF Orderly
<1>4. ASSUME NEW e \in Decl, Configure(e), Orderly, Unique PROVE Orderly' /\ Unique'
  <2>1. /\ e \in program /\ uid[e] = e /\ e \notin configured /\ replays = 0
    BY <1>4 DEF Configure, Orderly, Begun, Named
  <2>2. /\ UNCHANGED <<program, table, pc, todo, cur, replays>>
        /\ configured' = configured \cup {e}
        /\ uid' = [uid EXCEPT ![e] = IF NameOf[e] = None THEN e ELSE NameOf[e]]
    BY <1>4, <2>1 DEF Configure
  <2>3. /\ \A d \in Event \ {e} : uid'[d] = uid[d]
        /\ uid'[e] = e \/ uid'[e] = FinalId(e)
        /\ NameOf[e] # None => uid'[e] = FinalId(e)
    BY <2>2 DEF Fields, FinalId
  <2>4. InTable' = InTable
    BY <2>2 DEF InTable, Range
  <2>5. \A d \in InTable : d \in Decl /\ d \in program
    BY <1>4, <1>a, <1>b, <2>1 DEF Orderly, Named, Ids, Fields
  <2>6. Begun' /\ Named'
    BY <1>4, <2>1, <2>2, <2>3 DEF Orderly, Begun, Named
  <2>7. Placed'
    BY <1>4, <2>1, <2>2, <2>3 DEF Orderly, Placed, Fields
  <2>8. Known'
    BY <1>4, <2>1, <2>2, <2>3 DEF Orderly, Known, Fields
  <2>9. Settled' /\ Rekeyed' /\ Absent'
    BY <1>4, <1>b, <2>1, <2>2, <2>4, <2>5 DEF Settled, Rekeyed, Absent, Syncing, Past
  <2>10. Unique'
    BY <1>4, <2>1, <2>3, <2>4, <2>5 DEF Unique, Orderly, Named
  <2> QED
    BY <2>6, <2>7, <2>8, <2>9, <2>10 DEF Orderly
<1>5. ASSUME NEW c \in Caller, ReplayBegin(c), Orderly, Unique PROVE Orderly' /\ Unique'
  <2>1. /\ UNCHANGED <<program, table, uid, configured, cur>> /\ configured = program
        /\ todo' = [todo EXCEPT ![c] = {<<k, table[k]>> : k \in {k \in Key : table[k] # None}}]
        /\ pc' = [pc EXCEPT ![c] = "sync"] /\ replays' # 0
    BY <1>5 DEF ReplayBegin, Happens, Fields
  <2>2. /\ \A x \in todo'[c] : x[1] \in Key /\ x[2] = table[x[1]] /\ x[2] # None
        /\ \A e \in InTable : \E x \in todo'[c] : x[2] = e
        /\ \A d \in Caller \ {c} : todo'[d] = todo[d] /\ pc'[d] = pc[d]
        /\ pc'[c] = "sync"
    <3> DEFINE T == {<<k, table[k]>> : k \in {k \in Key : table[k] # None}}
    <3>1. \A x \in T : x[1] \in Key /\ x[2] = table[x[1]] /\ x[2] # None
      OBVIOUS
    <3>2. ASSUME NEW e \in InTable PROVE \E x \in T : x[2] = e
      <4>1. PICK k \in Key : table[k] = e /\ e # None
        BY <1>a
      <4>2. <<k, table[k]>> \in T /\ <<k, table[k]>>[2] = e
        BY <4>1
      <4> QED
        BY <4>2
    <3> HIDE DEF T
    <3>3. todo' = [todo EXCEPT ![c] = T]
      BY <2>1 DEF T
    <3> QED
      BY <2>1, <3>1, <3>2, <3>3 DEF Fields
  <2>3. InTable' = InTable /\ Unsettled' = Unsettled
    BY <2>1 DEF InTable, Range, Unsettled
  <2>4. Begun' /\ Named' /\ Placed' /\ Unique'
    BY <1>5, <2>1, <2>3 DEF Orderly, Begun, Named, Placed, Unique
  <2>5. Known'
    <3>1. ASSUME NEW x \in todo'[c] PROVE x[1] = uid[x[2]] \/ (x[2] \in Decl /\ x[1] = x[2])
      BY <1>5, <2>2 DEF Orderly, Placed
    <3> QED
      BY <1>5, <2>1, <2>2, <3>1 DEF Orderly, Known
  <2>6. Settled'
    BY <1>5, <2>2, <2>3 DEF Orderly, Settled, Syncing, Past
  <2>7. Rekeyed' /\ Absent'
    BY <1>5, <2>1, <2>2 DEF Orderly, Rekeyed, Absent
  <2> QED
    BY <2>4, <2>5, <2>6, <2>7 DEF Orderly
<1>6. ASSUME NEW c \in Caller, SyncJob(c), Orderly, Unique PROVE Orderly' /\ Unique'
  <2>1. PICK x \in todo[c] :
          /\ todo' = [todo EXCEPT ![c] = todo[c] \ {x}]
          /\ \/ ~ShouldPersist(x[2]) /\ UNCHANGED <<uid, cur, pc>>
             \/ /\ ShouldPersist(x[2])
                /\ uid' = [uid EXCEPT ![x[2]] = SyncedId(x[2])]
                /\ cur' = [cur EXCEPT ![c] = [key |-> x[1], ev |-> x[2], id |-> None]]
                /\ pc' = [pc EXCEPT ![c] = IF x[1] = SyncedId(x[2]) THEN "create" ELSE "remove"]
    BY <1>6 DEF SyncJob
  <2> DEFINE e == x[2]
  <2>2. /\ UNCHANGED <<program, table, configured, replays>> /\ replays # 0 /\ pc[c] = "sync"
        /\ configured = program /\ InTable' = InTable
        /\ e \in Event /\ uid[e] # None
    BY <1>6 DEF SyncJob, Orderly, Begun, Fields, Ids, InTable, Range
  <2>3. /\ \A d \in Caller : \A y \in todo'[d] : y \in todo[d]
        /\ \A d \in Caller \ {c} : todo'[d] = todo[d]
        /\ \A y \in todo[c] : y = x \/ y \in todo'[c]
    BY <2>1 DEF Fields
  <2>4. CASE ~ShouldPersist(e)
    <3>1. UNCHANGED <<uid, cur, pc>> /\ Unsettled' = Unsettled /\ e \notin Unsettled
      BY <2>1, <2>2, <2>4 DEF Unsettled, ShouldPersist
    <3>2. Begun' /\ Named' /\ Placed' /\ Unique' /\ Rekeyed' /\ Absent'
      BY <1>6, <2>2, <3>1 DEF Orderly, Begun, Named, Placed, Unique, Rekeyed, Absent
    <3>3. Known'
      BY <1>6, <2>3, <3>1 DEF Orderly, Known
    <3>4. Settled'
      BY <1>6, <2>2, <2>3, <3>1 DEF Orderly, Settled
    <3> QED
      BY <3>2, <3>3, <3>4 DEF Orderly
  <2>5. CASE ShouldPersist(e)
    <3> DEFINE n == [key |-> x[1], ev |-> e, id |-> None]
    <3>1. /\ uid' = [uid EXCEPT ![e] = SyncedId(e)] /\ cur' = [cur EXCEPT ![c] = n]
          /\ pc' = [pc EXCEPT ![c] = IF x[1] = SyncedId(e) THEN "create" ELSE "remove"]
          /\ n.ev = e /\ n.key = x[1]
      BY <2>1, <2>5
    <3>2. e \in Spare => SyncedId(e) = uid[e] /\ x[1] = uid[e]
      BY <1>6, <2>2 DEF Orderly, Known, SyncedId, Ids
    <3>3. e \in Decl => /\ e \in program \cap Persistent /\ SyncedId(e) = FinalId(e)
                        /\ FinalId(e) \in Id /\ FinalId(e) # uid[e] => e \in Unsettled
      BY <1>6, <2>2, <2>5 DEF Orderly, Named, SyncedId, FinalId, ShouldPersist, Unsettled
    <3>4. SyncedId(e) \in Id
      BY <2>2, <3>2, <3>3 DEF Ids
    <3> HIDE DEF n, e
    <3>5. /\ \A f \in Event \ {e} : uid'[f] = uid[f]
          /\ uid'[e] = SyncedId(e)
          /\ \A d \in Caller \ {c} : pc'[d] = pc[d] /\ cur'[d] = cur[d]
          /\ pc'[c] \in {"create", "remove"} /\ cur'[c].ev = e /\ cur'[c].key = x[1]
          /\ pc'[c] = "remove" => x[1] # SyncedId(e)
      BY <2>2, <3>1 DEF Fields
    <3>6. \A f \in Spare : uid'[f] = uid[f]
      BY <3>2, <3>5
    <3>7. \A f : f \in Unsettled' => f \in Unsettled /\ f # e
      BY <2>2, <3>4, <3>5 DEF Unsettled
    <3>15. e \in Decl => uid[e] = SyncedId(e) \/ uid[e] = e
      BY <1>6, <2>2, <3>3 DEF Orderly, Named
    <3>8. Begun' /\ Named'
      BY <1>6, <2>2, <3>3, <3>5, <3>6 DEF Orderly, Begun, Named
    <3>9. Placed'
      BY <1>6, <2>2, <3>2, <3>3, <3>5, <3>6 DEF Orderly, Placed, Fields, Named
    <3>10. Known'
      <4>1. ASSUME NEW d \in Caller, NEW y \in todo'[d]
            PROVE  y[1] = uid'[y[2]] \/ (y[2] \in Decl /\ y[1] = y[2])
        <5>1. y \in todo[d] /\ y[2] \in Event
          BY <2>3 DEF Fields
        <5>2. y[1] = uid[y[2]] \/ (y[2] \in Decl /\ y[1] = y[2])
          BY <1>6, <5>1 DEF Orderly, Known
        <5> QED
          BY <3>2, <3>5, <3>15, <5>1, <5>2
      <4> QED
        BY <4>1 DEF Known
    <3>11. Settled'
      <4>1. ASSUME NEW d \in Caller, pc'[d] \in Syncing \cup {"sync"},
                   NEW f \in (Unsettled \cap InTable)'
            PROVE  \E y \in todo'[d] : y[2] = f
        <5>1. f \in Unsettled \cap InTable /\ f # e /\ pc[d] \in Syncing \cup {"sync"}
          BY <2>2, <3>5, <3>7, <4>1
        <5>2. PICK y \in todo[d] : y[2] = f
          BY <1>6, <5>1 DEF Orderly, Settled
        <5>3. y # x
          BY <5>1, <5>2 DEF e
        <5> QED
          BY <2>3, <5>2, <5>3
      <4>2. ASSUME NEW d \in Caller, pc'[d] \in Past PROVE pc[d] \in Past
        BY <3>5, <4>2 DEF Past
      <4> QED
        BY <1>6, <2>2, <3>7, <4>1, <4>2 DEF Orderly, Settled
    <3>12. Rekeyed'
      <4>1. x[1] = uid[e] \/ (e \in Decl /\ x[1] = e)
        BY <1>6 DEF Orderly, Known, e
      <4>2. pc'[c] = "remove" => e \in program /\ cur'[c].key = e
        BY <2>2, <3>2, <3>3, <3>5, <3>15, <4>1
      <4> QED
        BY <1>6, <2>2, <3>5, <4>2 DEF Orderly, Rekeyed
    <3>13. Absent'
      <4>1. ASSUME NEW d \in Caller, pc'[d] = "rebuild"
            PROVE  pc[d] = "rebuild" /\ cur'[d] = cur[d]
        BY <3>5, <4>1
      <4>2. ASSUME NEW d \in Caller, pc[d] = "rebuild", e \in InTable PROVE uid'[e] = uid[e]
        BY <1>6, <2>2, <3>2, <3>3, <3>5, <4>2 DEF Orderly, Settled, Past
      <4> QED
        BY <1>6, <1>a, <2>2, <3>5, <4>1, <4>2 DEF Orderly, Absent, Fields
    <3>14. Unique'
      <4>1. ASSUME NEW f \in InTable, e \in InTable, uid[f] = SyncedId(e) PROVE f = e
        <5>1. CASE f \in Decl /\ e \in Decl
          BY <1>6, <3>3, <4>1, <5>1 DEF Orderly, Named
        <5>2. CASE f \in Spare /\ e \in Decl /\ uid[e] # SyncedId(e)
          BY <1>6, <3>3, <4>1, <5>2 DEF Orderly, Settled
        <5>3. CASE uid[e] = SyncedId(e)
          BY <1>6, <4>1, <5>3 DEF Unique
        <5> QED
          BY <1>a, <2>2, <3>2, <4>1, <5>1, <5>2, <5>3 DEF Fields
      <4> QED
        BY <1>6, <1>a, <2>2, <3>5, <4>1 DEF Unique, Fields
    <3> QED
      BY <3>8, <3>9, <3>10, <3>11, <3>12, <3>13, <3>14 DEF Orderly
  <2> QED
    BY <2>4, <2>5
<1>7. ASSUME NEW c \in Caller, SyncRemove(c), Orderly, Unique PROVE Orderly' /\ Unique'
  <2>1. /\ UNCHANGED <<program, uid, configured, replays, todo, cur>>
        /\ \A k \in Key : table'[k] \in {table[k], None}
        /\ \A d \in Caller : pc'[d] = pc[d] \/ (pc[d] = "remove" /\ pc'[d] = "add")
    BY <1>7 DEF SyncRemove, Removed, Fields
  <2> QED
    BY <1>7, <2>1, ShrinkStep
<1>8. ASSUME NEW c \in Caller, SyncAdd(c), Orderly, Unique PROVE Orderly' /\ Unique'
  <2> DEFINE e == cur[c].ev
             i == uid[e]
  <2>1. /\ UNCHANGED <<program, uid, configured, replays, todo, cur>>
        /\ pc[c] = "add" /\ pc' = [pc EXCEPT ![c] = "create"] /\ table' = Added(table, i, e)
    BY <1>8 DEF SyncAdd
  <2>2. i \in Id /\ e \in program /\ e \in Decl /\ i = FinalId(e)
    BY <1>8, <2>1 DEF Ids, Orderly, Rekeyed, Named, Fields
  <2> HIDE DEF e, i
  <2>3. CASE table[i] # None
    <3>1. table' = table
      BY <2>1, <2>3 DEF Added
    <3>2. replays # 0
      BY <1>8, <2>1 DEF Orderly, Begun
    <3> QED
      BY <1>8, <2>1, <3>1, <3>2, PlaceStep DEF Fields, Syncing
  <2>4. CASE table[i] = None
    <3>1. /\ \A k \in Key : table'[k] = IF k = i THEN e ELSE table[k]
          /\ \A d \in Caller \ {c} : pc'[d] = pc[d]
          /\ pc'[c] = "create"
      BY <2>1, <2>4 DEF Added, Fields
    <3>2. \A f \in InTable' : f \in InTable \/ f = e
      BY <1>a, <3>1
    <3>3. Unsettled' = Unsettled /\ e \notin Unsettled
      BY <2>1, <2>2 DEF Unsettled, i
    <3>4. Begun' /\ Named' /\ Known'
      BY <1>8, <2>1, <3>1 DEF Orderly, Begun, Named, Known
    <3>5. Placed'
      BY <1>8, <2>1, <2>2, <3>1 DEF Orderly, Placed, i
    <3>6. Settled' /\ Rekeyed'
      BY <1>8, <2>1, <2>2, <3>1, <3>2, <3>3 DEF Orderly, Settled, Rekeyed, Syncing, Past
    <3>7. Absent'
      BY <1>8, <2>1, <2>2, <3>1 DEF Orderly, Absent, i
    <3>8. ASSUME NEW f \in InTable, uid[f] = i PROVE f = e
      <4>1. PICK k \in Key : table[k] = f
        BY <1>a
      <4>2. f \in Decl /\ k = f
        BY <1>8, <1>a, <2>4, <3>8, <4>1 DEF Orderly, Placed
      <4> QED
        BY <1>8, <2>2, <3>8, <4>2 DEF Orderly, Named
    <3>9. Unique'
      BY <1>8, <2>1, <3>2, <3>8 DEF Unique, i
    <3> QED
      BY <3>4, <3>5, <3>6, <3>7, <3>9 DEF Orderly
  <2> QED
    BY <2>3, <2>4
<1>9. ASSUME NEW c \in Caller, Rebuild(c), Orderly, Unique PROVE Orderly' /\ Unique'
  <2> DEFINE i == cur[c].id
  <2>1. PICK e \in Spare :
          /\ e \notin InTable
          /\ \A d \in Caller : cur[d].ev # e /\ \A x \in todo[d] : x[2] # e
          /\ uid' = [uid EXCEPT ![e] = i]
          /\ table' = Added(table, i, e)
          /\ cur' = [cur EXCEPT ![c].ev = e]
    BY <1>9 DEF Rebuild
  <2>2. /\ UNCHANGED <<program, configured, replays, todo>>
        /\ pc[c] = "rebuild" /\ pc' = [pc EXCEPT ![c] = "runs"]
        /\ i \in Id /\ replays # 0
    BY <1>9 DEF Rebuild, Ids, Orderly, Begun
  <2>3. \A k \in Key : table'[k] = IF k = i /\ table[i] = None THEN e ELSE table[k]
    BY <2>1, <2>2 DEF Added, Fields
  <2>4. /\ \A f \in Event \ {e} : uid'[f] = uid[f]
        /\ uid'[e] = i
        /\ \A d \in Caller \ {c} : pc'[d] = pc[d] /\ cur'[d] = cur[d]
        /\ pc'[c] = "runs"
    BY <2>1, <2>2 DEF Fields
  <2>5. \A k \in Key : table[k] # e
    BY <1>a, <2>1
  <2>6. Unsettled' = Unsettled /\ Unsettled \cap InTable = {}
    <3>1. Unsettled \cap InTable = {}
      BY <1>9, <2>2 DEF Orderly, Settled, Past
    <3>2. \A f \in Persistent : uid'[f] = uid[f]
      BY <2>4
    <3> QED
      BY <2>2, <3>1, <3>2 DEF Unsettled
  <2> HIDE DEF i
  <2>7. \A f \in InTable' : f \in InTable \/ f = e
    BY <1>a, <2>3
  <2>8. Begun' /\ Named'
    BY <1>9, <2>2, <2>4 DEF Orderly, Begun, Named
  <2>9. Placed'
    BY <1>9, <2>2, <2>3, <2>4, <2>5 DEF Orderly, Placed, Fields
  <2>10. Known'
    BY <1>9, <2>1, <2>2, <2>4 DEF Orderly, Known, Fields
  <2>11. Settled'
    BY <1>9, <2>2, <2>4, <2>6, <2>7 DEF Orderly, Settled, Syncing, Past, Unsettled
  <2>12. Rekeyed'
    BY <1>9, <2>2, <2>4 DEF Orderly, Rekeyed
  <2>13. Absent'
    BY <1>9, <2>2, <2>3, <2>4, <2>5 DEF Orderly, Absent, Fields
  <2>14. ASSUME NEW f \in InTable, table[i] = None, uid[f] = i PROVE FALSE
    BY <1>9, <1>a, <2>2, <2>14 DEF Orderly, Absent, i
  <2>15. Unique'
    <3>1. \A f \in InTable : uid'[f] = uid[f] /\ f # e
      BY <1>a, <2>1, <2>4 DEF Fields
    <3>2. e \in InTable' => table[i] = None
      BY <1>a, <2>3, <2>5
    <3> QED
      BY <1>9, <2>4, <2>7, <2>14, <3>1, <3>2 DEF Unique
  <2> QED
    BY <2>8, <2>9, <2>10, <2>11, <2>12, <2>13, <2>15 DEF Orderly
<1>10. ASSUME NEW c \in Caller, Orderly, Unique,
              \/ SyncCreate(c) \/ SyncIndex(c) \/ SyncAppend(c)
              \/ LoadScheduleIDs(c) \/ LoadSchedule(c)
              \/ LoadRuns(c) \/ ReplayEnd(c) \/ ReplayReturn(c)
       PROVE  Orderly' /\ Unique'
  <2>1. /\ UNCHANGED <<program, table, uid, configured, replays, todo>>
        /\ \A d \in Caller \ {c} : pc'[d] = pc[d] /\ cur'[d] = cur[d] /\ todo'[d] = todo[d]
        /\ todo'[c] = todo[c]
    BY <1>10 DEF Fields, SyncCreate, SyncIndex, SyncAppend, LoadScheduleIDs, LoadSchedule,
       LoadNext, LoadFails, LoadRuns, ReplayEnd, ReplayReturn
  <2>2. \/ pc[c] \in Syncing /\ pc'[c] \in {"create", "index", "append", "sync"}
        \/ pc[c] = "sync" /\ todo[c] = {} /\ pc'[c] \in {"load", "replay", "ended"}
        \/ pc[c] \in Past /\ pc'[c] \in {"load", "replay", "runs", "ended"}
        \/ pc[c] = "ended" /\ pc'[c] = "idle"
    BY <1>10 DEF Fields, SyncCreate, SyncIndex, SyncAppend, LoadScheduleIDs, LoadSchedule,
       LoadNext, LoadFails, LoadRuns, ReplayEnd, ReplayReturn, Syncing, Past
  <2>3. replays # 0
    BY <1>10, <2>2 DEF Orderly, Begun, Syncing, Past
  <2> QED
    BY <1>10, <2>1, <2>2, <2>3, PlaceStep
<1>11. ASSUME NEW c \in Caller, ReplayJob(c), Orderly, Unique PROVE Orderly' /\ Unique'
  <2>1. /\ UNCHANGED <<program, table, uid, configured, replays, todo>>
        /\ \A d \in Caller \ {c} : pc'[d] = pc[d] /\ cur'[d] = cur[d] /\ todo'[d] = todo[d]
        /\ todo'[c] = todo[c] /\ pc[c] = "replay"
        /\ pc'[c] = "rebuild" \/ pc'[c] = "runs" \/ pc'[c] = "replay"
    BY <1>11 DEF Fields, ReplayJob
  <2>2. pc'[c] = "rebuild" => Holders(cur'[c].id) = {}
    <3> DEFINE i == Head(list[c])
    <3>1. ASSUME pc'[c] = "rebuild" PROVE Found(i) = {} /\ cur' = [cur EXCEPT ![c].id = i]
      BY <1>11, <2>1, <3>1 DEF Fields, ReplayJob
    <3>2. \A r \in [key : Key \cup {None}, ev : Event \cup {None}, id : Key \cup {None}] :
             [r EXCEPT !.id = i].id = i
      OBVIOUS
    <3> HIDE DEF i
    <3>3. ASSUME pc'[c] = "rebuild" PROVE cur'[c].id = i
      <4>1. cur'[c] = [cur[c] EXCEPT !.id = i]
        BY <3>1, <3>3 DEF Fields
      <4> QED
        BY <3>2, <4>1 DEF Fields
    <3> QED
      BY <3>1, <3>3 DEF Found
  <2>3. replays # 0
    BY <1>11, <2>1 DEF Orderly, Begun
  <2> QED
    BY <1>11, <2>1, <2>2, <2>3, PlaceStep DEF Past
<1>12. ASSUME (\E k \in Key : UnscheduleFind(k)) \/ UNCHANGED vars, Orderly, Unique
       PROVE  Orderly' /\ Unique'
  <2>1. UNCHANGED <<program, table, uid, configured, replays, todo, cur, pc>>
    BY <1>12 DEF UnscheduleFind, vars
  <2>2. \A k \in Key : table'[k] \in {table[k], None}
    BY <2>1
  <2> QED
    BY <1>12, <2>1, <2>2, ShrinkStep
<1>13. ASSUME UnscheduleRemove, Orderly, Unique PROVE Orderly' /\ Unique'
  <2>1. /\ UNCHANGED <<program, uid, configured, replays, todo, cur, pc>>
        /\ \A k \in Key : table'[k] \in {table[k], None}
    BY <1>13 DEF UnscheduleRemove, Removed, Fields
  <2> QED
    BY <1>13, <2>1, ShrinkStep
<1> QED
  BY <1>1, <1>2, <1>3, <1>4, <1>5, <1>6, <1>7, <1>8, <1>9, <1>10, <1>11, <1>12, <1>13
  DEF Next, SyncStep, ReplayStep

\* A process begins with an empty table.
LEMMA InitOrderly == Init => Fields /\ Ids /\ OrderlyInv
<1>1. Init => Fields /\ Ids
  BY InitIds
<1>2. Init => InTable = {}
  BY DEF Init, InTable, Range
<1> QED
  BY <1>1, <1>2, Constants DEF Init, OrderlyInv, Orderly, Unique, Begun, Named, Placed, Known,
     Settled, Rekeyed, Absent, Syncing, Past, Event, Key

\* Whoever replays, fails or restarts meanwhile, runJobs never finds two jobs with
\* one id in the table, if the jobs of a program have different ids and Replay is
\* called when they are declared (Sync, lookup, scheduleFromState).
THEOREM IdsAreUnique == OneId => (Spec => []OneObjectPerId)
<1> SUFFICES ASSUME OneId PROVE Spec => []OneObjectPerId
    OBVIOUS
<1>1. Init => Fields /\ Ids /\ OrderlyInv
  BY InitOrderly
<1>3. OrderlyInv => OneObjectPerId
  BY DEF OrderlyInv, Unique, OneObjectPerId
<1>2. Fields /\ Ids /\ OrderlyInv /\ [Next]_vars => Fields' /\ Ids' /\ OrderlyInv'
  BY IdsStep, OrderlyStep
<1> QED
  BY <1>1, <1>2, <1>3, PTL DEF Spec

-----------------------------------------------------------------------------
(* No declared job is lost.                                                *)

Alone == \A c, d \in Caller : pc[c] # "idle" /\ pc[d] # "idle" => c = d

\* An operator has unscheduled who is about to remove; Replays that have never
\* overlapped are one at a time.
Sole == /\ target # None => "unschedule" \in marks
        /\ ~ overlapped => Alone

\* Every declared job is in the table, except while it is re-keyed; then the key
\* of its id is free for it.
Present ==
    /\ \A e \in Decl : uid[e] # None =>
          e \in InTable \/ \E c \in Caller : pc[c] = "add" /\ cur[c].ev = e
    /\ \A c \in Caller : pc[c] = "add" => table[uid[cur[c].ev]] \in {None, cur[c].ev}

KeptInv ==
    /\ Sole
    /\ marks \cap {"early", "unschedule"} = {} /\ ~overlapped => Present

\* As long as Replays do not overlap there is one at most.
LEMMA SoleStep == Fields /\ Sole /\ [Next]_vars => Sole' /\ (~ overlapped' => ~ overlapped)
<1> SUFFICES ASSUME Fields, Sole, [Next]_vars
             PROVE  /\ target' # None => "unschedule" \in marks'
                    /\ ~ overlapped' => ~ overlapped /\ Alone'
    BY DEF Sole
<1> USE DEF Sole, Alone, Fields, Goto, replay, store, bounds, history, StoreFails, Happens
<1>1. CASE Restart \/ UNCHANGED vars
  BY <1>1 DEF Restart, vars
<1>2. ASSUME NEW e \in Decl, Declare(e) \/ Configure(e)
      PROVE  UNCHANGED <<target, marks, overlapped, pc>>
  BY <1>2 DEF Declare, Configure
<1>3. ASSUME NEW c \in Caller, ReplayBegin(c)
      PROVE  /\ target' = target /\ marks \subseteq marks'
             /\ ~overlapped' => ~overlapped /\ Alone'
  BY <1>3 DEF ReplayBegin
<1>4. ASSUME NEW c \in Caller, SyncStep(c) \/ ReplayStep(c)
      PROVE  /\ UNCHANGED <<target, overlapped>> /\ marks \subseteq marks' /\ pc[c] # "idle"
             /\ \A d \in Caller \ {c} : pc'[d] = pc[d]
  BY <1>4, CallerStep
<1>5. ASSUME NEW k \in Key, UnscheduleFind(k)
      PROVE  "unschedule" \in marks' /\ marks \subseteq marks' /\ UNCHANGED <<overlapped, pc>>
  BY <1>5 DEF UnscheduleFind
<1>6. ASSUME UnscheduleRemove
      PROVE  target' = None /\ UNCHANGED <<marks, overlapped, pc>>
  BY <1>6 DEF UnscheduleRemove
<1> QED
  BY <1>1, <1>2, <1>3, <1>4, <1>5, <1>6 DEF Next

\* Every step keeps the declared jobs.
LEMMA KeptStep ==
    OneId /\ Fields /\ Ids /\ Fields' /\ OrderlyInv /\ KeptInv /\ [Next]_vars => KeptInv'
<1> SUFFICES ASSUME OneId, Fields, Ids, Fields', OrderlyInv, KeptInv, [Next]_vars,
                    marks' \cap {"early", "unschedule"} = {}, ~overlapped'
             PROVE  Present'
    BY SoleStep DEF KeptInv
<1> USE Constants, FinalIds DEF Goto, Event, Key, replay, store, bounds, history
<1>a. /\ \A e : e \in InTable <=> e # None /\ \E k \in Key : table[k] = e
      /\ \A e : e \in InTable' <=> e # None /\ \E k \in Key : table'[k] = e
  BY DEF Fields, InTable, Range
<1>1. CASE Restart
  BY <1>1 DEF Restart, Present
<1> SUFFICES ASSUME ~Restart PROVE Present'
  BY <1>1
<1>2. Orderly /\ Unique /\ Alone /\ Present /\ target = None
  BY SoleStep, MarksStay DEF OrderlyInv, KeptInv, Sole
<1>3. ASSUME NEW e \in Decl, NEW f \in Event, table[e] = f PROVE f = e
  BY <1>2, <1>3 DEF Orderly, Placed, Named, Ids, Fields
<1>4. ASSUME UNCHANGED <<table, uid>>, \A c \in Caller : pc'[c] = "add" <=> pc[c] = "add",
             \A c \in Caller : pc[c] = "add" => cur'[c].ev = cur[c].ev
      PROVE  Present'
  BY <1>2, <1>4 DEF Present, InTable
<1>5. ASSUME NEW e \in Decl, Declare(e) PROVE Present'
  <2>1. /\ uid[e] = None /\ UNCHANGED <<pc, cur>> /\ uid' = [uid EXCEPT ![e] = e]
        /\ table' = Added(table, e, e)
    BY <1>5 DEF Declare
  <2>2. table[e] \in {None, e}
    BY <1>3 DEF Fields
  <2>3. table' = [table EXCEPT ![e] = e]
    BY <2>1, <2>2 DEF Added, Fields
  <2>4. e \in program \ configured
    BY <1>5, <2>1 DEF Declare, Ids, Fields
  <2>5. \A c \in Caller : pc[c] = "idle"
    BY <1>2, <2>4 DEF Orderly, Begun
  <2>6. \A d \in InTable' : d \in InTable \/ d = e
    BY <1>a, <2>3 DEF Fields
  <2>7. \A d : d \in InTable \/ d = e => d \in InTable'
    BY <1>a, <1>3, <2>2, <2>3 DEF Fields
  <2> QED
    BY <1>2, <2>1, <2>5, <2>7 DEF Present, Fields
<1>6. ASSUME NEW e \in Decl, Configure(e) PROVE Present'
  <2>1. /\ uid[e] # None /\ UNCHANGED <<table, pc, cur>>
        /\ \A d \in Event \ {e} : uid'[d] = uid[d]
        /\ e \in program \ configured
    BY <1>6 DEF Configure, Fields
  <2>2. \A c \in Caller : pc[c] = "idle"
    BY <1>2, <2>1 DEF Orderly, Begun
  <2> QED
    BY <1>2, <2>1, <2>2 DEF Present, InTable
<1>7. ASSUME NEW c \in Caller, SyncJob(c) PROVE Present'
  <2>1. /\ table' = table /\ pc[c] = "sync" /\ pc'[c] # "add"
        /\ \A d \in Caller \ {c} : pc'[d] = pc[d]
    BY <1>7 DEF SyncJob, Fields
  <2>2. \A d \in Caller : pc[d] # "add" /\ pc'[d] # "add"
    BY <1>2, <2>1 DEF Alone
  <2>3. \A e \in Decl : uid'[e] # None => uid[e] # None
    <3>1. PICK x \in todo[c] : uid' = uid \/ uid' = [uid EXCEPT ![x[2]] = SyncedId(x[2])]
      BY <1>7 DEF SyncJob
    <3>2. uid[x[2]] # None
      BY DEF Ids
    <3> QED
      BY <3>1, <3>2 DEF Fields
  <2> QED
    BY <1>2, <2>1, <2>2, <2>3 DEF Present, InTable
<1>8. ASSUME NEW c \in Caller, SyncRemove(c) PROVE Present'
  <2> DEFINE e == cur[c].ev
  <2>1. /\ UNCHANGED <<uid, cur>> /\ pc[c] = "remove" /\ pc'[c] = "add"
        /\ \A d \in Caller \ {c} : pc'[d] = pc[d]
        /\ cur[c].key = e
    BY <1>2, <1>8 DEF SyncRemove, Fields, Orderly, Rekeyed
  <2>2. e \in Decl /\ uid[e] \in Id
    BY <1>2, <2>1 DEF Ids, Orderly, Rekeyed, Fields
  <2> HIDE DEF e
  <2>3. table' = [table EXCEPT ![e] = None]
    BY <1>8, <2>1 DEF SyncRemove, Removed
  <2>4. \A d \in Caller : pc[d] # "add" /\ (pc'[d] = "add" => d = c)
    BY <1>2, <2>1 DEF Alone
  <2>5. \A d \in InTable : d = e \/ d \in InTable'
    BY <1>a, <1>3, <2>2, <2>3 DEF Fields
  <2>6. e \in InTable
    BY <1>2, <2>2, <2>4 DEF Present
  <2>7. table'[uid[e]] \in {None, e}
    <3>1. ASSUME NEW f \in Event, table[uid[e]] = f PROVE f = e
      <4>1. uid[f] = uid[e]
        BY <1>2, <2>2, <3>1 DEF Orderly, Placed
      <4> QED
        BY <1>2, <1>a, <2>2, <2>6, <3>1, <4>1 DEF Unique
    <3> QED
      BY <2>2, <2>3, <3>1 DEF Fields
  <2> QED
    BY <1>2, <2>1, <2>4, <2>5, <2>7 DEF Present, e
<1>9. ASSUME NEW c \in Caller, SyncAdd(c) PROVE Present'
  <2> DEFINE e == cur[c].ev
  <2>1. /\ UNCHANGED <<uid, cur>> /\ pc[c] = "add" /\ pc'[c] = "create"
        /\ \A d \in Caller \ {c} : pc'[d] = pc[d]
        /\ table' = Added(table, uid[e], e)
    BY <1>9 DEF SyncAdd, Fields
  <2>2. e \in Decl /\ uid[e] \in Id /\ table[uid[e]] \in {None, e}
    BY <1>2, <2>1 DEF Ids, Orderly, Rekeyed, Fields, Present
  <2>3. \A d \in Caller : pc'[d] # "add" /\ (pc[d] = "add" => d = c)
    BY <1>2, <2>1 DEF Alone
  <2> HIDE DEF e
  <2>4. table' = [table EXCEPT ![uid[e]] = e]
    BY <2>1, <2>2 DEF Added, Fields
  <2>5. \A d \in InTable : d \in InTable'
    BY <1>a, <2>2, <2>4 DEF Fields
  <2>6. e \in InTable'
    BY <1>a, <2>2, <2>4 DEF Fields
  <2> QED
    BY <1>2, <2>1, <2>3, <2>5, <2>6 DEF Present, e
<1>10. ASSUME NEW c \in Caller, Rebuild(c) PROVE Present'
  <2>1. PICK e \in Spare : /\ uid' = [uid EXCEPT ![e] = cur[c].id]
                           /\ table' = Added(table, cur[c].id, e)
    BY <1>10 DEF Rebuild
  <2>2. pc[c] = "rebuild" /\ pc'[c] = "runs" /\ \A d \in Caller \ {c} : pc'[d] = pc[d]
    BY <1>10 DEF Rebuild, Fields
  <2>3. \A d \in Caller : pc[d] # "add" /\ pc'[d] # "add"
    BY <1>2, <2>2 DEF Alone
  <2>4. \A d \in InTable : d \in InTable'
    <3>1. \A k \in Key : table[k] # None => table'[k] = table[k]
      BY <2>1 DEF Added, Fields
    <3> QED
      BY <1>a, <3>1
  <2> QED
    BY <1>2, <2>1, <2>3, <2>4 DEF Present, Fields
<1>11. ASSUME NEW c \in Caller,
              \/ ReplayBegin(c) \/ SyncCreate(c) \/ SyncIndex(c) \/ SyncAppend(c)
              \/ LoadScheduleIDs(c) \/ LoadSchedule(c) \/ ReplayJob(c) \/ LoadRuns(c)
              \/ ReplayEnd(c) \/ ReplayReturn(c)
       PROVE  Present'
  <2>1. /\ UNCHANGED <<table, uid>> /\ pc[c] # "add" /\ pc'[c] # "add"
        /\ \A d \in Caller \ {c} : pc'[d] = pc[d] /\ cur'[d] = cur[d]
    BY <1>11 DEF Fields, ReplayBegin, SyncCreate, SyncIndex, SyncAppend, LoadScheduleIDs,
       LoadSchedule, LoadNext, LoadFails, ReplayJob, LoadRuns, ReplayEnd, ReplayReturn
  <2> QED
    BY <1>4, <2>1
<1>12. ASSUME (\E k \in Key : UnscheduleFind(k)) \/ UNCHANGED vars PROVE Present'
  <2>1. UNCHANGED <<table, uid, pc, cur>>
    BY <1>12 DEF UnscheduleFind, vars
  <2> QED
    BY <1>4, <2>1
<1>13. ~UnscheduleRemove
  BY <1>2 DEF UnscheduleRemove
<1> QED
  BY <1>5, <1>6, <1>7, <1>8, <1>9, <1>10, <1>11, <1>12, <1>13 DEF Next, SyncStep, ReplayStep

\* A declared job stays in the table, but for the moment in which Sync re-keys it,
\* over any failures of the store, restarts and versions of the program whose jobs
\* have different ids, if Replays do not overlap (Sync, TryAdd).
THEOREM DeclaredStay == OneId => (Spec => []DeclaredKept)
<1> SUFFICES ASSUME OneId PROVE Spec => []DeclaredKept
    OBVIOUS
<1>1. Init => Fields /\ Ids /\ OrderlyInv
  BY InitOrderly
<1>2. Init => KeptInv
  BY Constants DEF Init, KeptInv, Sole, Alone, Present, Event, Key
<1>3. Fields /\ Ids /\ KeptInv => DeclaredKept
  BY Constants DEF KeptInv, Present, DeclaredKept, Ids, Fields
<1>4. Fields /\ Ids /\ OrderlyInv /\ KeptInv /\ [Next]_vars
         => Fields' /\ Ids' /\ OrderlyInv' /\ KeptInv'
  BY IdsStep, OrderlyStep, KeptStep
<1> QED
  BY <1>1, <1>2, <1>3, <1>4, PTL DEF Spec

-----------------------------------------------------------------------------
(* Every persistent job comes to be stored.                                *)

\* The schedule of the job's id is in the store, and the id in the index.
Stored(e) == uid[e] \in schedules /\ uid[e] \in Range(index)

\* A Sync has the job before it, or is storing it.
Pending(c, e) ==
    \/ pc[c] \in Syncing \cup {"sync"} /\ \E x \in todo[c] : x[2] = e
    \/ pc[c] \in {"remove", "add", "create"} /\ cur[c].ev = e
    \/ pc[c] \in {"index", "append"} /\ cur[c].id = uid[e] /\ uid[e] \in Id
          /\ uid[e] \in schedules

\* As long as nothing has failed, a persistent job in the table of a process that
\* has begun to replay is stored, or a Sync has still to do with it.
StoredInv ==
    /\ index \in Seq(Key \cup {None})
    /\ "early" \notin marks =>
          /\ replays = 0 => \A c \in Caller : pc[c] = "idle"
          /\ replays # 0 => configured = program
    /\ marks \cap {"early", "fail"} = {} /\ replays # 0 =>
          \A e \in program \cap Persistent \cap InTable :
             Stored(e) \/ \E c \in Caller : Pending(c, e)

\* What others have to do with a job, and what is stored, stays while its id does.
LEMMA PendingStays ==
    ASSUME NEW e, uid'[e] = uid[e], schedules \subseteq schedules',
           Range(index) \subseteq Range(index)'
    PROVE  /\ Stored(e) => Stored(e)'
           /\ \A c : /\ Pending(c, e)
                     /\ pc'[c] = pc[c] /\ cur'[c] = cur[c] /\ todo'[c] = todo[c]
                     => Pending(c, e)'
BY DEF Stored, Pending

\* Each step stores what it takes from what is pending.
LEMMA StoredStep ==
    Fields /\ Ids /\ Fields' /\ Ids' /\ StoredInv /\ [Next]_vars => StoredInv'
<1> SUFFICES ASSUME Fields, Ids, Fields', Ids', StoredInv, [Next]_vars PROVE StoredInv'
    OBVIOUS
<1> USE Constants DEF Goto, Event, Key, replay, store, bounds, history
<1>1. index' \in Seq(Key \cup {None}) /\ Range(index) \subseteq Range(index)'
  <2>1. CASE index' = index
    BY <2>1 DEF StoredInv, Range
  <2>2. CASE index' # index
    <3>1. PICK c \in Caller : index' = Append(index, cur[c].id)
      BY <2>2 DEF Next, vars, Declare, Configure, Restart, ReplayBegin, SyncStep, ReplayStep,
         SyncJob, SyncRemove, SyncAdd, SyncCreate, SyncIndex, SyncAppend, LoadScheduleIDs,
         LoadSchedule, LoadNext, LoadFails, ReplayJob, Rebuild, LoadRuns, ReplayEnd,
         ReplayReturn, UnscheduleFind, UnscheduleRemove
    <3>2. index \in Seq(Key \cup {None}) /\ cur[c].id \in Key \cup {None}
      BY DEF StoredInv, Fields
    <3>3. /\ Append(index, cur[c].id) \in Seq(Key \cup {None})
          /\ Range(Append(index, cur[c].id)) = Range(index) \cup {cur[c].id}
      BY <3>2, Appended
    <3> QED
      BY <3>1, <3>3
  <2> QED
    BY <2>1, <2>2
<1>2. CASE Restart
  BY <1>1, <1>2 DEF Restart, StoredInv
<1>3. SUFFICES ASSUME ~ Restart PROVE StoredInv'
  BY <1>2
<1>4. "early" \notin marks' => "early" \notin marks
  BY <1>3, MarksStay
<1>5. "fail" \notin marks' => "fail" \notin marks
  BY <1>3, MarksStay
<1>6. ASSUME "early" \notin marks'
      PROVE  /\ replays' = 0 => \A c \in Caller : pc'[c] = "idle"
             /\ replays' # 0 => configured' = program'
  <2>1. /\ replays = 0 => \A c \in Caller : pc[c] = "idle"
        /\ replays # 0 => configured = program
    BY <1>4, <1>6 DEF StoredInv
  <2>2. ASSUME NEW e \in Decl, Declare(e) \/ Configure(e)
        PROVE  replays' = 0 /\ pc' = pc /\ replays = 0
    <3>1. e \in program \ configured /\ UNCHANGED <<replays, pc>>
      BY <2>2 DEF Declare, Configure, Ids
    <3> QED
      BY <2>1, <3>1
  <2>3. ASSUME NEW c \in Caller, ReplayBegin(c)
        PROVE  replays' # 0 /\ configured' = program'
    BY <1>6, <2>3 DEF ReplayBegin, Happens, Fields
  <2>4. ASSUME NEW c \in Caller, SyncStep(c) \/ ReplayStep(c)
        PROVE  UNCHANGED <<replays, configured, program>> /\ replays # 0
    <3>1. UNCHANGED <<replays, configured, program>> /\ pc[c] # "idle"
      BY <2>4, CallerStep DEF bounds
    <3> QED
      BY <2>1, <3>1
  <2>5. ASSUME (\E k \in Key : UnscheduleFind(k)) \/ UnscheduleRemove \/ UNCHANGED vars
        PROVE  UNCHANGED <<replays, configured, program, pc>>
    BY <2>5 DEF UnscheduleFind, UnscheduleRemove, vars
  <2> QED
    BY <1>3, <2>1, <2>2, <2>3, <2>4, <2>5 DEF Next
<1>7. SUFFICES ASSUME marks' \cap {"early", "fail"} = {}, replays' # 0,
                      NEW e \in program' \cap Persistent \cap InTable'
               PROVE  Stored(e)' \/ \E c \in Caller : Pending(c, e)'
  BY <1>1, <1>6 DEF StoredInv
<1>8. /\ "early" \notin marks /\ "fail" \notin marks
      /\ replays = 0 => \A c \in Caller : pc[c] = "idle"
      /\ replays # 0 => configured = program
      /\ replays # 0 /\ e \in program \cap InTable =>
            Stored(e) \/ \E c \in Caller : Pending(c, e)
  BY <1>4, <1>5, <1>7 DEF StoredInv
<1>9. /\ \A d : d \in InTable <=> d # None /\ \E k \in Key : table[k] = d
      /\ \A d : d \in InTable' <=> d # None /\ \E k \in Key : table'[k] = d
  BY DEF Fields, InTable, Range
<1>10. e \in Decl /\ e \in Event /\ e \notin Spare
  BY <1>7
<1>11. ASSUME NEW d \in Decl, Declare(d) \/ Configure(d) PROVE FALSE
  <2>1. d \in program \ configured /\ replays' = replays
    BY <1>11 DEF Declare, Configure, Ids
  <2> QED
    BY <1>7, <1>8, <2>1
<1>12. ASSUME NEW c \in Caller, ReplayBegin(c) PROVE \E d \in Caller : Pending(d, e)'
  <2>1. PICK k \in Key : table[k] = e /\ table[k] # None
    BY <1>7, <1>9, <1>12 DEF ReplayBegin
  <2>2. <<k, e>> \in todo'[c] /\ pc'[c] = "sync"
    BY <1>12, <2>1 DEF ReplayBegin, Fields
  <2>3. <<k, e>>[2] = e
    OBVIOUS
  <2> QED
    BY <2>2, <2>3 DEF Pending
<1>13. ASSUME NEW c \in Caller, SyncStep(c) \/ ReplayStep(c)
       PROVE  /\ UNCHANGED <<program, configured, replays>> /\ configured = program
              /\ \A d \in Caller \ {c} : pc'[d] = pc[d] /\ cur'[d] = cur[d] /\ todo'[d] = todo[d]
              /\ schedules \subseteq schedules'
  BY <1>7, <1>8, <1>13, CallerStep
<1>14. ASSUME NEW c \in Caller, SyncStep(c) \/ ReplayStep(c), uid'[e] = uid[e], e \in InTable,
              Pending(c, e) => Stored(e)' \/ Pending(c, e)'
       PROVE  Stored(e)' \/ \E d \in Caller : Pending(d, e)'
  <2>1. Stored(e) \/ \E d \in Caller : Pending(d, e)
    BY <1>7, <1>8, <1>13, <1>14
  <2>2. CASE Stored(e) \/ Pending(c, e)
    BY <1>1, <1>13, <1>14, <2>2, PendingStays
  <2>3. ASSUME NEW d \in Caller \ {c}, Pending(d, e) PROVE Pending(d, e)'
    BY <1>1, <1>13, <1>14, <2>3, PendingStays
  <2> QED
    BY <2>1, <2>2, <2>3
<1>15. ASSUME NEW c \in Caller, SyncJob(c)
       PROVE  Stored(e)' \/ \E d \in Caller : Pending(d, e)'
  <2>1. PICK x \in todo[c] :
          /\ todo' = [todo EXCEPT ![c] = todo[c] \ {x}]
          /\ IF ~ ShouldPersist(x[2])
             THEN UNCHANGED <<uid, cur, pc>>
             ELSE /\ uid' = [uid EXCEPT ![x[2]] = SyncedId(x[2])]
                  /\ cur' = [cur EXCEPT ![c] = [key |-> x[1], ev |-> x[2], id |-> None]]
                  /\ Goto(c, IF x[1] = SyncedId(x[2]) THEN "create" ELSE "remove")
    BY <1>15 DEF SyncJob
  <2>2. e \in InTable /\ pc[c] = "sync"
    BY <1>7, <1>15 DEF SyncJob, InTable
  <2>3. ShouldPersist(e)
    BY <1>7, <1>13, <1>15 DEF ShouldPersist, SyncStep
  <2>4. CASE x[2] = e
    <3>1. cur' = [cur EXCEPT ![c] = [key |-> x[1], ev |-> x[2], id |-> None]]
      BY <2>1, <2>3, <2>4
    <3>2. cur'[c].ev = e
      BY <2>4, <3>1 DEF Fields
    <3>3. pc'[c] \in {"create", "remove"}
      BY <2>1, <2>3, <2>4 DEF Fields
    <3> QED
      BY <3>2, <3>3 DEF Pending
  <2>5. CASE x[2] # e
    <3>1. uid'[e] = uid[e]
      BY <1>10, <2>1, <2>5 DEF Fields
    <3>2. pc'[c] \in {"sync", "create", "remove"}
      BY <2>1, <2>2 DEF Fields
    <3>3. todo'[c] = todo[c] \ {x}
      BY <2>1 DEF Fields
    <3>4. Pending(c, e) => Pending(c, e)'
      BY <2>2, <2>5, <3>2, <3>3 DEF Pending, Syncing
    <3> QED
      BY <1>14, <1>15, <2>2, <3>1, <3>4 DEF SyncStep
  <2> QED
    BY <2>4, <2>5
<1>16. ASSUME NEW c \in Caller, SyncRemove(c)
       PROVE  Stored(e)' \/ \E d \in Caller : Pending(d, e)'
  <2>1. /\ pc[c] = "remove" /\ pc'[c] = "add" /\ UNCHANGED <<uid, todo, cur>>
        /\ table' = Removed(table, cur[c].key)
    BY <1>16 DEF SyncRemove, Fields
  <2>2. e \in InTable
    BY <1>7, <1>9, <2>1 DEF Removed, Fields
  <2>3. Pending(c, e) => Pending(c, e)'
    BY <2>1 DEF Pending, Syncing
  <2> QED
    BY <1>14, <1>16, <2>1, <2>2, <2>3 DEF SyncStep
<1>17. ASSUME NEW c \in Caller, SyncAdd(c)
       PROVE  Stored(e)' \/ \E d \in Caller : Pending(d, e)'
  <2>1. /\ pc[c] = "add" /\ pc'[c] = "create" /\ UNCHANGED <<uid, todo, cur>>
        /\ table' = Added(table, uid[cur[c].ev], cur[c].ev)
    BY <1>17 DEF SyncAdd, Fields
  <2>2. CASE cur[c].ev = e
    BY <2>1, <2>2 DEF Pending
  <2>3. CASE cur[c].ev # e
    <3>1. e \in InTable
      BY <1>7, <1>9, <2>1, <2>3 DEF Added, Fields
    <3>2. Pending(c, e) => Pending(c, e)'
      BY <2>1 DEF Pending, Syncing
    <3> QED
      BY <1>14, <1>17, <2>1, <3>1, <3>2 DEF SyncStep
  <2> QED
    BY <2>2, <2>3
<1>18. ASSUME NEW c \in Caller, SyncCreate(c)
       PROVE  Stored(e)' \/ \E d \in Caller : Pending(d, e)'
  <2>1. /\ pc[c] = "create" /\ pc'[c] = "index" /\ UNCHANGED <<uid, todo, table>>
        /\ cur' = [cur EXCEPT ![c].id = uid[cur[c].ev]]
    BY <1>18 DEF SyncCreate, Fields
  <2>2. schedules' = schedules \cup {uid[cur[c].ev]}
    BY <1>7, <1>18 DEF SyncCreate, StoreFails, Happens
  <2>3. cur'[c].id = uid[cur[c].ev] /\ uid[cur[c].ev] \in Id
    BY <2>1 DEF Fields, Ids
  <2>4. e \in InTable
    BY <1>7, <2>1 DEF InTable
  <2>5. Pending(c, e) => Pending(c, e)'
    BY <2>1, <2>2, <2>3 DEF Pending, Syncing
  <2> QED
    BY <1>14, <1>18, <2>1, <2>4, <2>5 DEF SyncStep
<1>19. ASSUME NEW c \in Caller, SyncIndex(c)
       PROVE  Stored(e)' \/ \E d \in Caller : Pending(d, e)'
  <2>1. /\ pc[c] = "index" /\ UNCHANGED <<uid, todo, table, cur, schedules, index>>
        /\ Goto(c, IF Missing(cur[c].id) THEN "append" ELSE "sync")
    BY <1>7, <1>19 DEF SyncIndex, StoreFails, Happens
  <2>2. e \in InTable
    BY <1>7, <2>1 DEF InTable
  <2>3. CASE cur[c].id = uid[e] /\ uid[e] \in schedules /\ ~ Missing(cur[c].id)
    BY <2>1, <2>3 DEF Missing, Stored
  <2>4. CASE ~ (cur[c].id = uid[e] /\ uid[e] \in schedules /\ ~ Missing(cur[c].id))
    <3>1. pc'[c] \in {"append", "sync"} /\ (Missing(cur[c].id) => pc'[c] = "append")
      BY <2>1 DEF Fields
    <3>2. Pending(c, e) => Pending(c, e)'
      BY <2>1, <2>4, <3>1 DEF Pending, Syncing
    <3> QED
      BY <1>14, <1>19, <2>1, <2>2, <3>2 DEF SyncStep
  <2> QED
    BY <2>3, <2>4
<1>20. ASSUME NEW c \in Caller, SyncAppend(c)
       PROVE  Stored(e)' \/ \E d \in Caller : Pending(d, e)'
  <2>1. /\ pc[c] = "append" /\ pc'[c] = "sync" /\ UNCHANGED <<uid, todo, table, cur, schedules>>
        /\ index' = Append(index, cur[c].id)
    BY <1>7, <1>20 DEF SyncAppend, StoreFails, Happens, Fields
  <2>2. e \in InTable
    BY <1>7, <2>1 DEF InTable
  <2>3. index \in Seq(Key \cup {None}) /\ cur[c].id \in Key \cup {None}
    BY DEF StoredInv, Fields
  <2>4. Range(index)' = Range(index) \cup {cur[c].id}
    <3>1. Range(Append(index, cur[c].id)) = Range(index) \cup {cur[c].id}
      BY <2>3, Appended
    <3> QED
      BY <2>1, <3>1
  <2>5. CASE cur[c].id = uid[e] /\ uid[e] \in schedules
    BY <2>1, <2>4, <2>5 DEF Stored
  <2>6. CASE ~ (cur[c].id = uid[e] /\ uid[e] \in schedules)
    <3>1. Pending(c, e) => Pending(c, e)'
      BY <2>1, <2>6 DEF Pending, Syncing
    <3> QED
      BY <1>14, <1>20, <2>1, <2>2, <3>1 DEF SyncStep
  <2> QED
    BY <2>5, <2>6
<1>21. ASSUME NEW c \in Caller, ReplayStep(c)
       PROVE  Stored(e)' \/ \E d \in Caller : Pending(d, e)'
  <2>1. ~ Pending(c, e)
    <3>1. pc[c] \notin Syncing /\ (pc[c] = "sync" => todo[c] = {})
      BY <1>21 DEF ReplayStep, LoadScheduleIDs, LoadSchedule, LoadNext, LoadFails, ReplayJob,
         Rebuild, LoadRuns, ReplayEnd, ReplayReturn, Syncing
    <3> QED
      BY <3>1 DEF Pending, Syncing
  <2>2. uid'[e] = uid[e] /\ e \in InTable
    <3>1. CASE Rebuild(c)
      <4>1. PICK d \in Spare : /\ uid' = [uid EXCEPT ![d] = cur[c].id]
                               /\ table' = Added(table, cur[c].id, d)
        BY <3>1 DEF Rebuild
      <4>2. d # e
        BY <1>10
      <4> QED
        BY <1>7, <1>9, <1>10, <4>1, <4>2 DEF Added, Fields
    <3>2. CASE ~ Rebuild(c)
      <4>1. UNCHANGED <<uid, table>>
        BY <1>21, <3>2 DEF ReplayStep, LoadScheduleIDs, LoadSchedule, LoadNext, LoadFails,
           ReplayJob, LoadRuns, ReplayEnd, ReplayReturn
      <4> QED
        BY <1>7, <4>1 DEF InTable
    <3> QED
      BY <3>1, <3>2
  <2> QED
    BY <1>14, <1>21, <2>1, <2>2
<1>22. ASSUME (\E k \in Key : UnscheduleFind(k)) \/ UnscheduleRemove \/ UNCHANGED vars
       PROVE  Stored(e)' \/ \E d \in Caller : Pending(d, e)'
  <2>1. /\ UNCHANGED <<program, uid, pc, cur, todo, schedules, index, replays>>
        /\ \A k \in Key : table'[k] \in {table[k], None}
    BY <1>22 DEF UnscheduleFind, UnscheduleRemove, Removed, vars, Fields
  <2>2. e \in InTable /\ e \in program
    BY <1>7, <1>9, <2>1
  <2>3. Stored(e) \/ \E d \in Caller : Pending(d, e)
    BY <1>7, <1>8, <2>1, <2>2
  <2> QED
    BY <2>1, <2>3, PendingStays
<1> QED
  BY <1>3, <1>11, <1>12, <1>15, <1>16, <1>17, <1>18, <1>19, <1>20, <1>21, <1>22
     DEF Next, SyncStep

\* Nothing is to be stored when a process begins.
LEMMA InitStored == Init => Fields /\ Ids /\ StoredInv
<1>1. <<>> \in Seq(Key \cup {None})
  OBVIOUS
<1> QED
  BY <1>1, InitIds DEF Init, StoredInv

\* When the Replays under way have ended, even overlapping ones, every persistent
\* job of the program that is in the table is found in the store under its id, if
\* Replay is called when the jobs are declared and no access to the store fails
\* (Sync, persistSchedule, indexSchedule).
THEOREM SchedulesStay == Spec => []SchedulesStored
<1>1. Init => Fields /\ Ids /\ StoredInv
  BY InitStored
<1>2. Fields /\ Ids /\ StoredInv /\ [Next]_vars => Fields' /\ Ids' /\ StoredInv'
  BY IdsStep, StoredStep
<1>3. StoredInv => SchedulesStored
  <2> SUFFICES ASSUME StoredInv, NEW c \in Caller, Completed(c), Quiet,
                      NEW e \in program \cap Persistent \cap InTable
               PROVE  uid[e] \in schedules \cap Range(index)
    BY DEF SchedulesStored
  <2>1. marks \cap {"early", "fail"} = {} /\ pc[c] = "ended"
    BY DEF Completed
  <2>2. replays # 0
    BY <2>1 DEF StoredInv
  <2>3. Stored(e) \/ \E d \in Caller : Pending(d, e)
    BY <2>1, <2>2 DEF StoredInv
  <2>4. \A d \in Caller : ~ Pending(d, e)
    BY DEF Quiet, Pending, Syncing
  <2> QED
    BY <2>3, <2>4 DEF Stored
<1> QED
  BY <1>1, <1>2, <1>3, PTL DEF Spec
-----------------------------------------------------------------------------
(* What a Replay backfills and rebuilds.                                   *)

\* As long as Replays have not overlapped the index has no duplicates, and who
\* appends to it appends what it does not have.
Single ==
    ~ overlapped =>
        /\ IsInjective(index)
        /\ \A c \in Caller : pc[c] = "append" => cur[c].id \notin Range(index)

\* Over restarts and failures of the store, only Replays that overlap can put an id
\* into the index twice.
LEMMA SingleStep ==
    TypeOK /\ Ids /\ Reads /\ Sole /\ Single /\ [Next]_vars => Single'
<1> SUFFICES ASSUME TypeOK, Ids, Reads, Sole, Single, [Next]_vars, ~ overlapped'
             PROVE  /\ IsInjective(index')
                    /\ \A c \in Caller : pc'[c] = "append" => cur'[c].id \notin Range(index')
    BY DEF Single
<1>1. ~ overlapped /\ Alone /\ IsInjective(index)
  BY SoleStep, TypeFields DEF Sole, Single
<1>2. \A c \in Caller : pc[c] = "append" => cur[c].id \notin Range(index)
  BY <1>1 DEF Single
<1>3. CASE Restart
  BY <1>1, <1>3 DEF Restart, store
<1>4. ASSUME NEW c \in Caller, ReplayBegin(c)
      PROVE  UNCHANGED <<cur, index>> /\ \A d \in Caller : pc'[d] = "append" => pc[d] = "append"
  BY <1>4 DEF ReplayBegin, Goto, store, TypeOK
<1>5. ASSUME NEW c \in Caller, SyncStep(c) \/ ReplayStep(c)
      PROVE  /\ IsInjective(index')
             /\ \A d \in Caller : pc'[d] = "append" => cur'[d].id \notin Range(index')
  <2>1. \A d \in Caller \ {c} : pc'[d] = "idle"
    BY <1>1, <1>5, CallerStep, TypeFields DEF Alone
  <2>2. DOMAIN pc = Caller
    BY DEF TypeOK
  <2>3. CASE SyncAppend(c)
    <3>1. pc[c] = "append" /\ pc'[c] = "sync"
      BY <2>2, <2>3 DEF SyncAppend, Goto
    <3>2. CASE index' = index
      BY <1>1, <2>1, <3>1, <3>2
    <3>3. CASE index' = Append(index, cur[c].id)
      <4>1. cur[c].id \in Id /\ index \in Seq(Id)
        BY <3>1 DEF Reads, TypeOK
      <4>2. IsInjective(Append(index, cur[c].id))
        BY <1>1, <1>2, <3>1, <4>1, AppendedOnce
      <4> QED
        BY <2>1, <3>1, <3>3, <4>2
    <3> QED
      BY <2>3, <3>2, <3>3 DEF SyncAppend
  <2>4. CASE SyncIndex(c)
    <3>1. UNCHANGED <<cur, index>> /\ (pc'[c] = "append" => Missing(cur[c].id))
      BY <2>2, <2>4 DEF SyncIndex, Goto, store
    <3> QED
      BY <1>1, <2>1, <3>1 DEF Missing
  <2>5. CASE ~ SyncAppend(c) /\ ~ SyncIndex(c)
    <3>1. index' = index /\ pc'[c] # "append"
      BY <1>5, <2>2, <2>5 DEF SyncStep, ReplayStep, Goto, store, SyncJob, SyncRemove, SyncAdd,
         SyncCreate, LoadScheduleIDs, LoadSchedule, LoadNext, LoadFails, ReplayJob, Rebuild,
         LoadRuns, ReplayEnd, ReplayReturn
    <3> QED
      BY <1>1, <2>1, <3>1
  <2> QED
    BY <2>3, <2>4, <2>5
<1>6. ASSUME \/ (\E e \in Decl : Declare(e) \/ Configure(e))
             \/ (\E k \in Key : UnscheduleFind(k)) \/ UnscheduleRemove \/ UNCHANGED vars
      PROVE  UNCHANGED <<pc, cur, index>>
  BY <1>6 DEF Declare, Configure, UnscheduleFind, UnscheduleRemove, vars, replay, store
<1> QED
  BY <1>1, <1>2, <1>3, <1>4, <1>5, <1>6 DEF Next

\* An object has its provisional id until it is configured and is in the table under
\* it or under its stable one, whatever the ids of the program's jobs are.
Put ==
    /\ \A e \in Decl : /\ uid[e] \in {None, e} \cup Id
                       /\ e \notin configured => uid[e] \in {None, e}
    /\ Placed

LEMMA PutStep == TypeOK /\ Ids /\ Put /\ [Next]_vars => Put'
<1> SUFFICES ASSUME TypeOK, Ids, Put, [Next]_vars PROVE Put'
    OBVIOUS
<1>1. Fields /\ Fields'
  BY TypeFields, IdsStep
<1> USE Constants DEF Goto, Event, Key, replay, store, bounds, history
<1>a. \A e \in Decl : uid[e] = e \/ uid[e] \in Id \/ uid[e] = None
  BY DEF Put
<1>2. CASE Restart
  BY <1>2 DEF Restart, Put, Placed
<1>3. ASSUME NEW e \in Decl, Declare(e) PROVE Put'
  <2>1. /\ uid[e] = None /\ uid' = [uid EXCEPT ![e] = e] /\ configured' = configured
        /\ \A k \in Key : table'[k] = table[k] \/ (k = e /\ table'[k] = e)
    BY <1>1, <1>3 DEF Declare, Added, Fields
  <2> QED
    BY <1>1, <2>1 DEF Put, Placed, Fields
<1>4. ASSUME NEW e \in Decl, Configure(e) PROVE Put'
  <2>1. /\ uid[e] = e /\ table' = table /\ configured' = configured \cup {e}
        /\ uid' = [uid EXCEPT ![e] = IF NameOf[e] = None THEN e ELSE NameOf[e]]
    BY <1>4 DEF Configure, Put
  <2>2. uid'[e] \in {e} \cup Id /\ \A d \in Event \ {e} : uid'[d] = uid[d]
    BY <1>1, <2>1 DEF Fields
  <2> QED
    BY <1>1, <2>1, <2>2 DEF Put, Placed, Fields
<1>5. ASSUME NEW c \in Caller, SyncJob(c) PROVE Put'
  <2>1. PICK x \in todo[c] :
          IF ~ ShouldPersist(x[2]) THEN uid' = uid
                                   ELSE uid' = [uid EXCEPT ![x[2]] = SyncedId(x[2])]
    BY <1>5 DEF SyncJob
  <2>2. UNCHANGED <<table, configured>>
    BY <1>5 DEF SyncJob
  <2>3. x[2] \in Event /\ uid[x[2]] # None
    BY <1>1 DEF Fields, Ids
  <2> DEFINE e == x[2]
  <2>4. CASE uid' = uid
    BY <2>2, <2>4 DEF Put, Placed
  <2>5. CASE uid' = [uid EXCEPT ![e] = SyncedId(e)] /\ ShouldPersist(e)
    <3>1. uid[e] \in Decl \cup Id
      BY <1>1, <2>3 DEF Fields
    <3>2. /\ uid'[e] \in Id
          /\ uid[e] \in Decl => uid[e] = e
          /\ uid[e] \in Id => uid'[e] = uid[e]
          /\ \A d \in Event \ {e} : uid'[d] = uid[d]
      BY <1>1, <1>a, <2>3, <2>5, <3>1 DEF SyncedId, Fields, Ids
    <3>3. e \in Decl => e \in configured
      BY <2>5 DEF ShouldPersist
    <3> HIDE DEF e
    <3>4. ASSUME NEW d \in Decl
          PROVE  /\ uid'[d] \in {None, d} \cup Id
                 /\ d \notin configured' => uid'[d] \in {None, d}
      <4>1. CASE d = e
        BY <2>2, <3>2, <3>3, <4>1
      <4>2. CASE d # e
        <5>1. uid'[d] = uid[d]
          BY <3>2, <4>2
        <5> QED
          BY <2>2, <5>1 DEF Put
      <4> QED
        BY <4>1, <4>2
    <3>5. ASSUME NEW k \in Key, table[k] # None
          PROVE  k = uid'[table[k]] \/ (table[k] \in Decl /\ k = table[k])
      <4>1. k = uid[table[k]] \/ (table[k] \in Decl /\ k = table[k])
        BY <3>5 DEF Put, Placed
      <4>2. CASE table[k] = e
        BY <3>1, <3>2, <4>1, <4>2
      <4>3. CASE table[k] # e
        <5>1. table[k] \in Event
          BY <1>1, <3>5 DEF Fields
        <5>2. uid'[table[k]] = uid[table[k]]
          BY <3>2, <4>3, <5>1
        <5> QED
          BY <4>1, <5>2
      <4> QED
        BY <4>2, <4>3
    <3> QED
      BY <2>2, <3>4, <3>5 DEF Put, Placed
  <2> QED
    BY <2>1, <2>4, <2>5
<1>6. ASSUME NEW c \in Caller, SyncRemove(c) PROVE Put'
  <2>1. UNCHANGED <<uid, configured>> /\ \A k \in Key : table'[k] \in {table[k], None}
    BY <1>1, <1>6 DEF SyncRemove, Removed, Fields
  <2> QED
    BY <2>1 DEF Put, Placed
<1>7. ASSUME NEW c \in Caller, SyncAdd(c) PROVE Put'
  <2> DEFINE e == cur[c].ev
  <2>1. /\ UNCHANGED <<uid, configured>> /\ uid[e] \in Id
        /\ \A k \in Key : table'[k] = table[k] \/ (k = uid[e] /\ table'[k] = e)
    BY <1>1, <1>7 DEF SyncAdd, Added, Fields, Ids
  <2> QED
    BY <2>1 DEF Put, Placed
<1>8. ASSUME NEW c \in Caller, Rebuild(c) PROVE Put'
  <2> DEFINE i == cur[c].id
  <2>1. PICK e \in Spare : /\ e \notin InTable
                           /\ uid' = [uid EXCEPT ![e] = i]
                           /\ table' = Added(table, i, e)
    BY <1>8 DEF Rebuild
  <2>2. configured' = configured /\ i \in Id
    BY <1>8 DEF Rebuild, Ids
  <2> HIDE DEF i
  <2>3. /\ uid'[e] = i /\ \A d \in Event \ {e} : uid'[d] = uid[d]
        /\ \A k \in Key : table'[k] = table[k] \/ (k = i /\ table'[k] = e)
        /\ \A k \in Key : table[k] # e
    BY <1>1, <2>1, <2>2, Held DEF Added, Fields
  <2> QED
    BY <1>1, <2>2, <2>3 DEF Put, Placed, Fields
<1>9. ASSUME UNCHANGED <<uid, table, configured>> PROVE Put'
  BY <1>9 DEF Put, Placed
<1>10. ASSUME NEW c \in Caller,
              \/ ReplayBegin(c) \/ SyncCreate(c) \/ SyncIndex(c) \/ SyncAppend(c)
              \/ LoadScheduleIDs(c) \/ LoadSchedule(c) \/ ReplayJob(c) \/ LoadRuns(c)
              \/ ReplayEnd(c) \/ ReplayReturn(c)
       PROVE  UNCHANGED <<uid, table, configured>>
  BY <1>10 DEF ReplayBegin, SyncCreate, SyncIndex, SyncAppend, LoadScheduleIDs, LoadSchedule,
     ReplayJob, LoadRuns, ReplayEnd, ReplayReturn
<1>11. ASSUME (\E k \in Key : UnscheduleFind(k)) \/ UNCHANGED vars
       PROVE  UNCHANGED <<uid, table, configured>>
  BY <1>11 DEF UnscheduleFind, vars
<1>12. ASSUME UnscheduleRemove PROVE Put'
  <2>1. UNCHANGED <<uid, configured>> /\ \A k \in Key : table'[k] \in {table[k], None}
    BY <1>1, <1>12 DEF UnscheduleRemove, Removed, Fields
  <2> QED
    BY <2>1 DEF Put, Placed
<1> QED
  BY <1>2, <1>3, <1>4, <1>5, <1>6, <1>7, <1>8, <1>9, <1>10, <1>11, <1>12
     DEF Next, SyncStep, ReplayStep

Saved == Range(index) \cap schedules

\* What a Replay that ends is to have made of a stored job.
Done(c, i) == /\ filled[c][i] = IF Holders(i) # {} THEN 1 ELSE 0
              /\ i \in Registered => Holders(i) # {}

\* What is read and what is still unread make up what is stored.
Reading(c) ==
    /\ IsInjective(unread[c]) /\ IsInjective(list[c])
    /\ Range(unread[c]) \cap Range(list[c]) = {}
    /\ Range(list[c]) \cup (Range(unread[c]) \cap schedules) = Saved

\* A stored job is still before the Replay, or it is done with it.
Replaying(c) ==
    /\ IsInjective(list[c]) /\ Range(list[c]) \subseteq Saved
    /\ \A i \in Saved : IF i \in Range(list[c]) THEN filled[c][i] = 0 ELSE Done(c, i)

Going(c) ==
    /\ pc[c] \in Syncing \cup {"sync", "load"} => \A i \in Id : filled[c][i] = 0
    /\ pc[c] = "load" => Reading(c)
    /\ pc[c] \in {"replay", "rebuild", "runs"} => Replaying(c)
    /\ pc[c] = "runs" => Holders(cur[c].id) # {}
    /\ pc[c] = "ended" => \A i \in Saved : Done(c, i)

Clean == ~ overlapped /\ marks \cap {"early", "fail", "unschedule"} = {}
Progress == Clean => \A c \in Caller : Going(c)

LEMMA EmptySequence == Range(<<>>) = {} /\ IsInjective(<<>>)
BY DEF Range, IsInjective

\* A Sync that is done with leads on to what is stored, ...
LEMMA LoadStep ==
    ASSUME TypeOK, Reads, Single, Clean', ~ overlapped, NEW c \in Caller, Going(c),
           LoadScheduleIDs(c) \/ LoadSchedule(c)
    PROVE  Going(c)'
<1> USE DEF Goto, store
<1>1. /\ DOMAIN pc = Caller /\ index \in Seq(Id) /\ schedules \subseteq Id
      /\ unread \in [Caller -> Seq(Id)] /\ list \in [Caller -> Seq(Id)]
  BY DEF TypeOK
<1>2. ~ LoadFails(c)
  BY DEF LoadFails, StoreFails, Happens, Clean
<1>3. /\ UNCHANGED <<index, schedules, filled, table, uid>>
      /\ pc'[c] = IF unread'[c] = <<>> THEN "replay" ELSE "load"
      /\ pc[c] \in {"sync", "load"}
  BY <1>1, <1>2 DEF LoadScheduleIDs, LoadSchedule, LoadNext
<1>4. Saved' = Saved /\ \A i \in Id : filled'[c][i] = 0
  BY <1>3 DEF Saved, Going
<1>5. Reading(c)'
  <2>1. CASE LoadScheduleIDs(c)
    <3>1. unread'[c] = index /\ list'[c] = <<>>
      BY <1>1, <1>2, <2>1 DEF LoadScheduleIDs
    <3>2. IsInjective(index)
      BY DEF Single
    <3> QED
      BY <1>3, <1>4, <3>1, <3>2, EmptySequence DEF Reading, Saved
  <2>2. CASE LoadSchedule(c)
    <3> DEFINE i == Head(unread[c])
               t == Tail(unread[c])
               l == list[c]
    <3>1. unread'[c] = t /\ list'[c] = Taken(l, i) /\ pc[c] = "load"
      BY <1>1, <1>2, <2>2 DEF LoadSchedule
    <3>2. unread[c] # <<>> /\ Reading(c)
      BY <3>1 DEF Reads, Going
    <3>3. /\ i \in Id /\ t \in Seq(Id) /\ l \in Seq(Id)
          /\ Range(unread[c]) = Range(t) \cup {i}
          /\ IsInjective(t) /\ i \notin Range(t)
      BY <1>1, <3>2, HeadTail DEF Reading
    <3>4. /\ IsInjective(l) /\ i \notin Range(l) /\ Range(t) \cap Range(l) = {}
          /\ Range(l) \cup ((Range(t) \cup {i}) \cap schedules) = Saved
      BY <3>2, <3>3 DEF Reading
    <3> HIDE DEF i, t, l
    <3>5. CASE i \in schedules
      <4>1. list'[c] = Append(l, i)
        BY <3>1, <3>5 DEF Taken
      <4>2. IsInjective(Append(l, i)) /\ Range(Append(l, i)) = Range(l) \cup {i}
        BY <3>3, <3>4, Appended, AppendedOnce
      <4>3. IsInjective(list'[c]) /\ Range(list'[c]) = Range(l) \cup {i}
        BY <4>1, <4>2
      <4> QED
        BY <1>3, <1>4, <3>1, <3>3, <3>4, <3>5, <4>3 DEF Reading
    <3>6. CASE i \notin schedules
      <4>1. list'[c] = l
        BY <3>1, <3>6 DEF Taken
      <4> QED
        BY <1>3, <1>4, <3>1, <3>3, <3>4, <3>6, <4>1 DEF Reading
    <3> QED
      BY <3>5, <3>6
  <2> QED
    BY <2>1, <2>2
<1>6. CASE unread'[c] # <<>>
  BY <1>3, <1>4, <1>5, <1>6 DEF Going
<1>7. CASE unread'[c] = <<>>
  <2>1. Range(unread'[c]) = {}
    BY <1>7, EmptySequence
  <2>2. IsInjective(list'[c]) /\ Range(list'[c]) = Saved
    BY <1>3, <1>4, <1>5, <2>1 DEF Reading
  <2>3. Saved \subseteq Id
    BY <1>1 DEF Saved
  <2>4. Replaying(c)'
    BY <1>4, <2>2, <2>3 DEF Replaying
  <2> QED
    BY <1>3, <1>7, <2>4 DEF Going, Syncing
<1> QED
  BY <1>6, <1>7

\* ... each job of which is looked up, rebuilt and backfilled once.
LEMMA BackfillStep ==
    ASSUME TypeOK, Ids, Reads, Put, Clean', NEW c \in Caller, Going(c),
           ReplayJob(c) \/ Rebuild(c) \/ LoadRuns(c) \/ ReplayEnd(c) \/ ReplayReturn(c)
    PROVE  Going(c)'
<1> USE DEF Goto, Going
<1>1. /\ DOMAIN pc = Caller /\ list \in [Caller -> Seq(Id)]
      /\ filled \in [Caller -> [Id -> Nat]] /\ Saved \subseteq Id
  BY DEF TypeOK, Saved
<1>2. Saved' = Saved
  BY DEF Saved, store, ReplayJob, Rebuild, LoadRuns, ReplayEnd, ReplayReturn
<1>3. ASSUME UNCHANGED <<table, uid>>
      PROVE  \A i : Holders(i)' = Holders(i)
  BY <1>3 DEF Holders, InTable
<1>a. PICK i, t : i = Head(list[c]) /\ t = Tail(list[c])
  OBVIOUS
<1>4. ASSUME list[c] # <<>>, Replaying(c)
      PROVE  /\ i \in Id /\ Range(list[c]) = Range(t) \cup {i} /\ i \notin Range(t)
             /\ IsInjective(t) /\ IsInjective(list[c])
             /\ i \in Saved /\ Range(t) \subseteq Saved /\ filled[c][i] = 0
             /\ \A j \in Saved \ {i} :
                   IF j \in Range(t) THEN filled[c][j] = 0 ELSE Done(c, j)
  <2>1. /\ i \in Id /\ Range(list[c]) = Range(t) \cup {i}
        /\ IsInjective(list[c]) => IsInjective(t) /\ i \notin Range(t)
    BY <1>1, <1>a, <1>4, HeadTail
  <2> QED
    BY <1>4, <2>1 DEF Replaying
<1>5. CASE ReplayJob(c)
  <2>1. /\ pc[c] = "replay" /\ list[c] # <<>> /\ filled' = filled
        /\ Replaying(c) /\ \A j : Holders(j)' = Holders(j)
    BY <1>3, <1>5 DEF ReplayJob
  <2>2. CASE list' = list
    <3>1. Replaying(c)'
      BY <1>2, <2>1, <2>2 DEF Replaying, Done
    <3>2. pc'[c] \in {"rebuild", "runs"}
      BY <1>1, <1>5, <2>1, <2>2, <1>4 DEF ReplayJob
    <3>3. pc'[c] = "runs" => Holders(cur'[c].id) # {}
      <4> SUFFICES ASSUME Found(i) # {} PROVE Holders(cur'[c].id) # {}
        BY <1>1, <1>5, <1>a, <3>2 DEF ReplayJob
      <4>1. PICK e : cur' = [cur EXCEPT ![c] = [key |-> None, ev |-> e, id |-> i]]
        BY <1>5, <1>a DEF ReplayJob
      <4>2. cur'[c].id = i
        BY <4>1 DEF TypeOK
      <4> QED
        BY <4>2 DEF Found
    <3> QED
      BY <2>1, <3>1, <3>2, <3>3 DEF Syncing
  <2>3. CASE list' # list
    <3>1. /\ Holders(i) = {} /\ i \notin Registered /\ pc'[c] = "replay" /\ list'[c] = t
      BY <1>1, <1>5, <1>a, <2>1, <2>3 DEF ReplayJob, Found
    <3>2. Done(c, i)
      BY <1>4, <2>1, <3>1 DEF Done
    <3>3. Replaying(c)'
      BY <1>2, <1>4, <2>1, <3>1, <3>2 DEF Replaying, Done
    <3> QED
      BY <3>1, <3>3 DEF Syncing
  <2> QED
    BY <2>2, <2>3
<1>6. CASE Rebuild(c)
  <2>1. /\ pc[c] = "rebuild" /\ pc'[c] = "runs" /\ Replaying(c)
        /\ UNCHANGED <<list, filled>>
    BY <1>1, <1>6 DEF Rebuild
  <2>2. list[c] # <<>> /\ cur[c].id = i
    BY <2>1, <1>a DEF Reads
  <2>3. PICK e \in Spare : /\ e \notin InTable
                           /\ uid' = [uid EXCEPT ![e] = i]
                           /\ table' = Added(table, i, e)
                           /\ cur' = [cur EXCEPT ![c].ev = e]
    BY <1>6, <2>2 DEF Rebuild
  <2>4. cur'[c].id = i
    <3>1. cur'[c] = [cur[c] EXCEPT !.ev = e]
      BY <2>3 DEF TypeOK
    <3> QED
      BY <2>2, <3>1 DEF TypeOK
  <2>5. /\ i \in Id /\ i \in Key /\ e \in Event /\ e # None
        /\ uid \in [Event -> Decl \cup Id \cup {None}]
        /\ table \in [Key -> Event \cup {None}]
    BY <1>4, <2>1, <2>2, Constants DEF TypeOK, Key, Event
  <2>6. /\ uid'[e] = i /\ \A d \in Event \ {e} : uid'[d] = uid[d]
        /\ \A k \in Key : table'[k] = IF k = i /\ table[i] = None THEN e ELSE table[k]
        /\ \A k \in Key : table[k] # e
        /\ DOMAIN table' = Key
    BY <2>3, <2>5 DEF Added, InTable, Range
  <2>7. /\ \A d : d \in InTable <=> d # None /\ \E k \in Key : table[k] = d
        /\ \A d : d \in InTable' <=> d # None /\ \E k \in Key : table'[k] = d
    BY <2>5, <2>6 DEF InTable, Range
  <2>8. Holders(i)' # {}
    <3>1. CASE table[i] = None
      BY <2>5, <2>6, <2>7, <3>1 DEF Holders
    <3>2. CASE table[i] # None
      <4>1. i = uid[table[i]] /\ table[i] \in Event
        BY <2>5, <3>2, Constants DEF Put, Placed, Key
      <4> QED
        BY <2>5, <2>6, <2>7, <3>2, <4>1 DEF Holders
    <3> QED
      BY <3>1, <3>2
  <2>9. ASSUME NEW j \in Id \ {i} PROVE Holders(j)' = {} <=> Holders(j) = {}
    <3>1. \A d \in Event \ {e} : d \in InTable <=> d \in InTable'
      BY <2>5, <2>6, <2>7
    <3>2. \A d : d \in InTable \/ d \in InTable' => d \in Event
      BY <2>5, <2>6, <2>7
    <3>3. \A d : d \in InTable' /\ uid'[d] = j <=> d \in InTable /\ uid[d] = j
      BY <2>3, <2>5, <2>6, <3>1, <3>2
    <3> QED
      BY <3>3 DEF Holders
  <2>10. Replaying(c)'
    <3>1. \A j \in Saved \ Range(list[c]) : j \in Id \ {i} /\ Done(c, j)
      BY <1>1, <1>4, <2>1, <2>2 DEF Replaying
    <3>2. \A j \in Saved \ Range(list[c]) : Done(c, j)'
      BY <2>1, <2>9, <3>1 DEF Done
    <3> QED
      BY <1>2, <2>1, <3>2 DEF Replaying
  <2>11. Holders(cur[c].id)' # {}
    BY <2>4, <2>8 DEF Holders
  <2> QED
    BY <2>1, <2>10, <2>11 DEF Syncing
<1>7. CASE LoadRuns(c)
  <2>1. /\ pc[c] = "runs" /\ list'[c] = t /\ pc'[c] = "replay" /\ Replaying(c)
        /\ \A j : Holders(j)' = Holders(j)
        /\ filled' = [filled EXCEPT ![c][cur[c].id] = @ + 1]
    BY <1>1, <1>3, <1>7, <1>a DEF LoadRuns, StoreFails, Happens, Clean
  <2>2. list[c] # <<>> /\ cur[c].id = i
    BY <2>1, <1>a DEF Reads
  <2>3. i \in Id /\ filled'[c] = [filled[c] EXCEPT ![i] = filled[c][i] + 1]
    BY <1>1, <1>4, <2>1, <2>2
  <2>4. /\ filled'[c][i] = filled[c][i] + 1
        /\ \A j \in Id \ {i} : filled'[c][j] = filled[c][j]
    BY <1>1, <2>3
  <2>5. filled'[c][i] = 1 /\ Holders(i) # {}
    BY <1>4, <2>1, <2>2, <2>4
  <2>6. Replaying(c)'
    <3>1. Done(c, i)'
      BY <2>1, <2>5 DEF Done
    <3>2. ASSUME NEW j \in Saved \ {i}
          PROVE  IF j \in Range(t) THEN filled'[c][j] = 0 ELSE Done(c, j)'
      BY <1>1, <1>4, <2>1, <2>2, <2>4, <3>2 DEF Done
    <3> QED
      BY <1>2, <1>4, <2>1, <2>2, <3>1, <3>2 DEF Replaying
  <2> QED
    BY <2>1, <2>6 DEF Syncing
<1>8. CASE ReplayEnd(c)
  <2>1. /\ pc[c] = "replay" /\ pc'[c] = "ended" /\ list[c] = <<>> /\ filled' = filled
        /\ \A j : Holders(j)' = Holders(j)
    BY <1>1, <1>3, <1>8 DEF ReplayEnd
  <2>2. \A j \in Saved : Done(c, j)
    BY <2>1, EmptySequence DEF Replaying
  <2> QED
    BY <1>2, <2>1, <2>2 DEF Done, Syncing
<1>9. CASE ReplayReturn(c)
  BY <1>1, <1>9 DEF ReplayReturn, Syncing
<1> QED
  BY <1>5, <1>6, <1>7, <1>8, <1>9

\* Every step of a Replay that is alone and undisturbed keeps what it has done.
LEMMA ProgressStep ==
    /\ TypeOK /\ Ids /\ Reads /\ Sole /\ Single /\ Put /\ StoredInv /\ Progress
    /\ TypeOK' /\ [Next]_vars
    => Progress'
<1> SUFFICES ASSUME TypeOK, Ids, Reads, Sole, Single, Put, StoredInv, Progress, TypeOK',
                    [Next]_vars, Clean', NEW c \in Caller
             PROVE  Going(c)'
    BY DEF Progress
<1> USE DEF Goto
<1>1. ASSUME pc'[c] = "idle" PROVE Going(c)'
  BY <1>1 DEF Going, Syncing
<1>2. CASE Restart
  BY <1>1, <1>2 DEF Restart
<1> SUFFICES ASSUME ~ Restart PROVE Going(c)'
  BY <1>2
<1>3. ~ overlapped /\ marks \subseteq marks' /\ Sole'
  BY SoleStep, MarksStay, TypeFields DEF Clean
<1>4. Clean /\ Going(c) /\ Alone'
  BY <1>3 DEF Clean, Progress, Sole
<1>5. ASSUME NEW e \in Decl, Declare(e) \/ Configure(e) PROVE Going(c)'
  <2>1. e \in program \ configured /\ pc' = pc
    BY <1>5 DEF Declare, Configure, Ids, replay
  <2>2. pc[c] = "idle"
    BY <1>4, <2>1 DEF StoredInv, Clean
  <2> QED
    BY <1>1, <2>1, <2>2
<1>6. ASSUME NEW d \in Caller, ReplayBegin(d) PROVE Going(c)'
  <2>1. pc'[d] = "sync" /\ filled'[d] = [i \in Id |-> 0]
    BY <1>6 DEF ReplayBegin, TypeOK
  <2>2. CASE c = d
    BY <2>1, <2>2 DEF Going, Syncing
  <2>3. CASE c # d
    BY <1>1, <1>4, <2>1, <2>3 DEF Alone
  <2> QED
    BY <2>2, <2>3
<1>7. ASSUME NEW d \in Caller, SyncStep(d) \/ ReplayStep(d) PROVE Going(c)'
  <2>1. pc[d] # "idle" /\ \A b \in Caller \ {d} : pc'[b] = pc[b]
    BY <1>7, CallerStep, TypeFields
  <2>2. CASE c # d
    BY <1>1, <1>3, <2>1, <2>2 DEF Alone, Sole
  <2>3. CASE c = d /\ SyncStep(c)
    <3>1. /\ pc[c] \in Syncing \cup {"sync"} /\ pc'[c] \in Syncing \cup {"sync"}
          /\ filled' = filled
      BY <2>3 DEF SyncStep, SyncJob, SyncRemove, SyncAdd, SyncCreate, SyncIndex, SyncAppend,
         Syncing, TypeOK
    <3> QED
      BY <1>4, <3>1 DEF Going, Syncing
  <2>4. CASE c = d /\ ReplayStep(c)
    BY <1>3, <1>4, <2>4, LoadStep, BackfillStep DEF ReplayStep
  <2> QED
    BY <1>7, <2>2, <2>3, <2>4
<1>8. ~ (\E k \in Key : UnscheduleFind(k)) /\ ~ UnscheduleRemove
  BY <1>3 DEF UnscheduleFind, UnscheduleRemove, Happens, Clean, Sole
<1>9. CASE UNCHANGED vars
  BY <1>4, <1>9 DEF vars, replay, store, Going, Reading, Replaying, Saved, Done, Holders,
     InTable
<1> QED
  BY <1>5, <1>6, <1>7, <1>8, <1>9 DEF Next

\* What the two theorems below follow from.
RestoreInv == TypeOK /\ Ids /\ Reads /\ Sole /\ Single /\ Put /\ StoredInv /\ Progress

LEMMA InitRestore == Init => RestoreInv
<1>1. Init => Fields /\ Ids /\ StoredInv
  BY InitStored
<1>2. Init => TypeOK /\ Reads
  BY InitTypes
<1>3. Init => InTable = {}
  BY DEF Init, InTable, Range
<1> QED
  BY <1>1, <1>2, <1>3, EmptySequence, Constants
  DEF Init, RestoreInv, Sole, Alone, Single, Put, Placed, Progress, Going, Syncing, Event, Key

LEMMA RestoreStep == RestoreInv /\ [Next]_vars => RestoreInv'
BY TypeFields, IdsStep, TypeStep, ReadsStep, SoleStep, SingleStep, PutStep, StoredStep,
   ProgressStep DEF RestoreInv

LEMMA Ended ==
    ASSUME RestoreInv, NEW c \in Caller, Completed(c), "unschedule" \notin marks, ~ overlapped
    PROVE  \A i \in Range(index) \cap schedules : Done(c, i)
BY DEF RestoreInv, Completed, Progress, Clean, Going, Saved

\* A Replay that nothing disturbs backfills every stored job that is there, and none
\* of them twice, over any restarts, failures of the store and versions of the
\* program before it (indexSchedule, loadSchedules, Replay).
THEOREM BackfillsOnce == Spec => []BackfilledOnce
<1>1. RestoreInv => BackfilledOnce
  BY Ended DEF BackfilledOnce, Done
<1> QED
  BY <1>1, InitRestore, RestoreStep, PTL DEF Spec

\* It leaves no registered job that is stored out of the table (lookup,
\* scheduleFromState).
THEOREM RebuildsAll == Spec => []RegisteredRebuilt
<1>1. RestoreInv => RegisteredRebuilt
  BY Ended DEF RegisteredRebuilt, Done
<1> QED
  BY <1>1, InitRestore, RestoreStep, PTL DEF Spec

\* Over restarts, failures of the store and versions of the program the index lists no
\* id twice, as long as Replays have not overlapped (indexSchedule).
THEOREM IndexedOnce == Spec => [](~ overlapped => IsInjective(index))
<1>1. RestoreInv => (~ overlapped => IsInjective(index))
  BY DEF RestoreInv, Single
<1> QED
  BY <1>1, InitRestore, RestoreStep, PTL DEF Spec
=============================================================================
