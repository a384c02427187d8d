------------------------ MODULE ConcurrentDictionary ------------------------
(***************************************************************************)
(* The striped hash map that is the scheduler's task table                 *)
(* (internals/pkg/collections/dictionary/concurrent_dictionary), with the  *)
(* operations the scheduler uses: TryAdd, TryRemove, ToMap and Get.        *)
(*                                                                         *)
(* A bucket is a chain of entries, newest first; bucket b is guarded by    *)
(* the lock b % Locks.  Goroutines interleave at lock operations, at       *)
(* writes to a bucket and at reads of one.  The head of a chain is stored  *)
(* in the bucket array and is overwritten word by word, so a reader that   *)
(* does not hold the bucket's lock may find it half written.  A map with   *)
(* one stripe, which takes no lock at all, is left out.                    *)
(***************************************************************************)
EXTENDS Naturals, Sequences, FiniteSets, FiniteSetsExt, SequencesExt

CONSTANTS
    Proc,        \* goroutines
    Key, Value,
    None,        \* no key (the zero one, or a torn one), no value, no goroutine
    Buckets,     \* length of the bucket array (31 by default)
    Locks,       \* lock stripes (runtime.NumCPU() by default)
    BucketOf,    \* BucketOf[k]: the bucket k hashes to
    Threshold    \* a stripe that counts more additions than this is resized

ASSUME DictionaryAssumption ==
    /\ Locks \in Nat /\ Locks >= 2
    /\ Buckets \in Nat /\ Buckets >= Locks
    /\ BucketOf \in [Key -> 0 .. Buckets - 1]
    /\ Threshold \in Nat
    /\ None \notin Key \cup Value \cup Proc

VARIABLES
    chain,       \* chain[b]: the entries of bucket b, newest first
    lockCount,   \* lockCount[l]: the additions counted for stripe l
    holder,      \* holder[l]: the goroutine that holds lock l, or None
    pc,          \* pc[p]: where goroutine p is
    call,        \* call[p]: the operation p has called, or None
    next,        \* next[p]: the next lock to take, or the next bucket to read
    seen,        \* seen[p]: the map p's ToMap has built so far
    ret,         \* ret[p]: the truth value p's operation returns
    dead         \* the process ended with a panic or a fatal error

vars == <<chain, lockCount, holder, pc, call, next, seen, ret, dead>>

Bucket == 0 .. Buckets - 1
Lock == 0 .. Locks - 1
Entry == [key : Key, val : Value]
Call == [op : {"add"}, key : Key, val : Value]
           \cup [op : {"remove", "get"}, key : Key, val : {None}]
           \cup [op : {"toMap"}, key : {None}, val : {None}]

\* None is a value of its own, not one of the calls.
ASSUME CallAssumption == None \notin Call

Stage == {"idle", "want", "write", "look", "grow", "lockAll", "read", "done"}

\* What a ToMap may return; a torn read can put in a key nobody added.
View == [Key \cup {None} -> Value \cup {None}]
EmptyView == [k \in Key \cup {None} |-> None]

TypeOK ==
    /\ DOMAIN chain = Bucket
    /\ \A b \in Bucket : \A i \in 1 .. Len(chain[b]) :
          /\ chain[b][i] \in Entry
          /\ BucketOf[chain[b][i].key] = b
    /\ lockCount \in [Lock -> 0 .. Threshold + 1]
    /\ holder \in [Lock -> Proc \cup {None}]
    /\ pc \in [Proc -> Stage]
    /\ call \in [Proc -> Call \cup {None}]
    /\ next \in [Proc -> 0 .. Buckets]
    /\ seen \in [Proc -> View]
    /\ ret \in [Proc -> BOOLEAN]
    /\ dead \in BOOLEAN

-----------------------------------------------------------------------------
(* Stripes and chains.                                                     *)

LockOf(b) == b % Locks
StripeOf(k) == LockOf(BucketOf[k])

KeysOf(s) == {e.key : e \in Range(s)}

\* The places of a key's newest and oldest entries in a chain.
NewestAt(s, k) == Min({i \in 1 .. Len(s) : s[i].key = k})
OldestAt(s, k) == Max({i \in 1 .. Len(s) : s[i].key = k})

\* The bucket TryAdd looks for the key in: the lock's number, for a bucket's.
SearchedBucket(k) == StripeOf(k)

\* _remove unlinks the newest entry of the key.  (Mutant: a match at the head
\* clears the bucket.)
Unlinked_Cleared(s, k) ==
    IF k \notin KeysOf(s) THEN s
    ELSE IF Head(s).key = k THEN <<>> ELSE RemoveAt(s, NewestAt(s, k))
Unlinked(s, k) == IF k \in KeysOf(s) THEN RemoveAt(s, NewestAt(s, k)) ELSE s

\* What the write of operation c makes of its bucket.
Written(c) ==
    LET s == chain[BucketOf[c.key]] IN
    IF c.op = "add" THEN <<[key |-> c.key, val |-> c.val]>> \o s
                    ELSE Unlinked(s, c.key)

\* The empty bucket's head has the zero key and no node.
NoEntry == [key |-> None, val |-> None]
HeadOf(s) == IF s = <<>> THEN NoEntry ELSE Head(s)
TailOf(s) == IF s = <<>> THEN <<>> ELSE Tail(s)

\* Who writes bucket b while p reads it, and what the bucket is before and after.
Racers(p, b) == {q \in Proc \ {p} : pc[q] = "write" /\ BucketOf[call[q].key] = b}
States(p, b) == {chain[b]} \cup {Written(call[q]) : q \in Racers(p, b)}

\* A head with key k, the node of v's head and the link of t's.
Torn(k, v, t) == <<[key |-> k, val |-> HeadOf(v).val]>> \o TailOf(t)

\* What p may read in bucket b while another goroutine writes it: key, value and
\* link of the head, each from before or after the write, and the key (a
\* string, two words) in pieces.  With no such writer, what is there.
Readings(p, b) ==
    IF Racers(p, b) = {}
    THEN {chain[b]}
    ELSE {Torn(k, v, t) : k \in {None} \cup {HeadOf(s).key : s \in States(p, b)},
                          v \in States(p, b), t \in States(p, b)}

\* A walk of ToMap goes from the newest entry on and stops at an empty one; a
\* later entry of the same key overwrites an earlier one.
Overlay(view, s) ==
    [k \in DOMAIN view |-> IF s # <<>> /\ s[1].val # None /\ k \in KeysOf(s)
                            THEN s[OldestAt(s, k)].val
                            ELSE view[k]]

\* The locks that ToMap and resize take: all but the last.  (Mutant: one less.)
LocksTaken_OneLess == Locks - 2
LocksTaken == Locks - 1

\* When TryAdd resizes.  (Mutant: one addition late.)
Overfull_Late(count) == count > Threshold + 1
Overfull(count) == count > Threshold

-----------------------------------------------------------------------------
Init ==
    /\ chain = [b \in Bucket |-> <<>>]
    /\ lockCount = [l \in Lock |-> 0]
    /\ holder = [l \in Lock |-> None]
    /\ pc = [p \in Proc |-> "idle"]
    /\ call = [p \in Proc |-> None]
    /\ next = [p \in Proc |-> 0]
    /\ seen = [p \in Proc |-> EmptyView]
    /\ ret = [p \in Proc |-> FALSE]
    /\ dead = FALSE

Goto(p, stage) == pc' = [pc EXCEPT ![p] = stage]
Release(p) == holder' = [l \in Lock |-> IF holder[l] = p THEN None ELSE holder[l]]

\* ToMap lets go what it took.  (Mutant: all but the last.)
ReleaseAll_LeavesOne(p) ==
    holder' = [l \in Lock |-> IF holder[l] = p /\ l < LocksTaken - 1 THEN None
                                                                  ELSE holder[l]]
ReleaseAll(p) == Release(p)

\* Where an operation begins.
FirstStage == [add |-> "want", remove |-> "want", get |-> "look", toMap |-> "lockAll"]

\* p calls an operation of the map.
Invoke(p) ==
    /\ pc[p] = "idle"
    /\ \E c \in Call :
          /\ call' = [call EXCEPT ![p] = c]
          /\ Goto(p, FirstStage[c.op])
    /\ UNCHANGED <<chain, lockCount, holder, next, seen, ret, dead>>

\* Where a goroutine that has taken its key's lock goes: TryAdd gives up when
\* it finds the key, and lets the lock go.
Acquire(p) ==
    LET k == call[p].key IN
    /\ pc[p] = "want"
    /\ holder[StripeOf(k)] = None
    /\ IF call[p].op = "add" /\ k \in KeysOf(chain[SearchedBucket(k)])
       THEN /\ ret' = [ret EXCEPT ![p] = FALSE]
            /\ Goto(p, "done")
            /\ UNCHANGED holder
       ELSE /\ holder' = [holder EXCEPT ![StripeOf(k)] = p]
            /\ Goto(p, "write")
            /\ UNCHANGED ret
    /\ UNCHANGED <<chain, lockCount, call, next, seen, dead>>

\* TryAdd pushes the entry at the head of its bucket and counts it; a stripe
\* over the threshold is resized with the lock still held.
AddWrite(p) ==
    LET k == call[p].key
        l == StripeOf(k) IN
    /\ pc[p] = "write"
    /\ call[p].op = "add"
    /\ chain' = [chain EXCEPT ![BucketOf[k]] = Written(call[p])]
    /\ lockCount' = [lockCount EXCEPT ![l] = @ + 1]
    /\ ret' = [ret EXCEPT ![p] = TRUE]
    /\ IF Overfull(lockCount'[l])
       THEN Goto(p, "grow") /\ next' = [next EXCEPT ![p] = 0] /\ UNCHANGED holder
       ELSE Goto(p, "done") /\ Release(p) /\ UNCHANGED next
    /\ UNCHANGED <<call, seen, dead>>

\* TryRemove unlinks the entry; the stripe's count stays.
RemoveWrite(p) ==
    LET k == call[p].key
        b == BucketOf[k] IN
    /\ pc[p] = "write"
    /\ call[p].op = "remove"
    /\ chain' = [chain EXCEPT ![b] = Written(call[p])]
    /\ ret' = [ret EXCEPT ![p] = k \in KeysOf(chain[b])]
    /\ Release(p)
    /\ Goto(p, "done")
    /\ UNCHANGED <<lockCount, call, next, seen, dead>>

\* resize takes locks; Go's locks are not reentrant.
GrowLock(p) ==
    /\ pc[p] = "grow"
    /\ next[p] < LocksTaken
    /\ holder[next[p]] = None
    /\ holder' = [holder EXCEPT ![next[p]] = p]
    /\ next' = [next EXCEPT ![p] = @ + 1]
    /\ UNCHANGED <<chain, lockCount, pc, call, seen, ret, dead>>

\* With the locks taken, the new table replaces the old and resize unlocks the
\* new one's locks, which nobody has locked: a fatal error.
GrowUnlock(p) ==
    /\ pc[p] = "grow"
    /\ next[p] = LocksTaken
    /\ dead' = TRUE
    /\ UNCHANGED <<chain, lockCount, holder, pc, call, next, seen, ret>>

\* ToMap takes its locks one by one ...
SnapLock(p) ==
    /\ pc[p] = "lockAll"
    /\ IF next[p] < LocksTaken
       THEN /\ holder[next[p]] = None
            /\ holder' = [holder EXCEPT ![next[p]] = p]
            /\ next' = [next EXCEPT ![p] = @ + 1]
            /\ UNCHANGED pc
       ELSE /\ Goto(p, "read")
            /\ next' = [next EXCEPT ![p] = 0]
            /\ UNCHANGED holder
    /\ UNCHANGED <<chain, lockCount, call, seen, ret, dead>>

\* ... reads every bucket, among them those of the stripe it did not lock ...
SnapRead(p) ==
    /\ pc[p] = "read"
    /\ next[p] < Buckets
    /\ \E s \in Readings(p, next[p]) :
          seen' = [seen EXCEPT ![p] = Overlay(@, s)]
    /\ next' = [next EXCEPT ![p] = @ + 1]
    /\ UNCHANGED <<chain, lockCount, holder, pc, call, ret, dead>>

\* ... and panics when the node it has found is cleared before it takes its
\* value (it loads the pointer twice).
SnapPanic(p) ==
    /\ pc[p] = "read"
    /\ next[p] < Buckets
    /\ chain[next[p]] # <<>>
    /\ \E s \in Readings(p, next[p]) : HeadOf(s).val = None
    /\ dead' = TRUE
    /\ UNCHANGED <<chain, lockCount, holder, pc, call, next, seen, ret>>

SnapEnd(p) ==
    /\ pc[p] = "read"
    /\ next[p] = Buckets
    /\ ReleaseAll(p)
    /\ next' = [next EXCEPT ![p] = 0]
    /\ Goto(p, "done")
    /\ UNCHANGED <<chain, lockCount, call, seen, ret, dead>>

\* Get takes no lock.  It panics when it finds the key with no node.
Look(p) ==
    LET k == call[p].key IN
    /\ pc[p] = "look"
    /\ \E s \in Readings(p, BucketOf[k]) :
          /\ ret' = [ret EXCEPT ![p] = k \in KeysOf(s)]
          /\ dead' = (k \in KeysOf(s) /\ s[NewestAt(s, k)].val = None)
    /\ Goto(p, "done")
    /\ UNCHANGED <<chain, lockCount, holder, call, next, seen>>

Return(p) ==
    /\ pc[p] = "done"
    /\ Goto(p, "idle")
    /\ call' = [call EXCEPT ![p] = None]
    /\ seen' = [seen EXCEPT ![p] = EmptyView]
    /\ ret' = [ret EXCEPT ![p] = FALSE]
    /\ UNCHANGED <<chain, lockCount, holder, next, dead>>

-----------------------------------------------------------------------------
\* The steps that wait for a lock, and those that do not.
LockStep(p) == Acquire(p) \/ GrowLock(p) \/ SnapLock(p)
FreeStep(p) == AddWrite(p) \/ RemoveWrite(p) \/ GrowUnlock(p) \/ SnapRead(p)
                  \/ SnapPanic(p) \/ SnapEnd(p) \/ Look(p) \/ Return(p)

Next ==
    /\ ~ dead
    /\ \E p \in Proc : Invoke(p) \/ LockStep(p) \/ FreeStep(p)

Spec == Init /\ [][Next]_vars

\* Goroutines are scheduled, and a goroutine that waits for a lock that is let
\* go again and again gets it: a Go mutex hands itself over to a waiter that
\* has been starved for a millisecond.
Fairness ==
    \A p \in Proc : /\ WF_vars(~ dead /\ FreeStep(p))
                    /\ SF_vars(~ dead /\ LockStep(p))

FairSpec == Spec /\ Fairness

-----------------------------------------------------------------------------
(* Properties.                                                             *)

\* Every entry ToMap has collected of the buckets it has read, of those in the
\* stripes it locks, is still there, and it has missed none.
ReadTrue ==
    \A p \in Proc : pc[p] = "read" =>
        \A b \in 0 .. next[p] - 1 : LockOf(b) < Locks - 1 =>
            \A k \in Key : BucketOf[k] = b =>
                seen[p][k] = Overlay(EmptyView, chain[b])[k]

\* No step changes a bucket of those stripes while ToMap is reading.
Undisturbed ==
    \A p \in Proc : pc[p] = "read" =>
        \A b \in Bucket : LockOf(b) < Locks - 1 => chain'[b] = chain[b]

\* While ToMap reads, the buckets of the stripes it locks do not change under it,
\* those it has read and those it has yet to read, and what it has collected of
\* them is what is in them: its map is no mixture of two moments (ToMap,
\* _acquireAllLocks, and the lock discipline of _addInternal and _remove).
SnapshotStable == []ReadTrue /\ [][Undisturbed]_vars

\* Keys whose operations are atomic: those TryAdd looks for in the bucket it
\* puts them in (the bucket's number is its lock's), and whose stripe ToMap locks.
Guarded == {k \in Key : BucketOf[k] < Locks - 1}

\* The abstract map: the newest entry of each guarded key.
Contents ==
    [k \in Guarded |-> LET s == chain[BucketOf[k]] IN
                        IF k \in KeysOf(s) THEN s[NewestAt(s, k)].val ELSE None]

OnGuarded(p) ==
    /\ call[p] # None
    /\ \/ call[p].op = "toMap"
       \/ call[p].op \in {"add", "remove"} /\ call[p].key \in Guarded

\* Operations take effect when they write, when TryAdd finds the key, and, for
\* ToMap, when it has its locks.
InEffect(p) == pc[p] \in {"grow", "read", "done"}

AbstractStage ==
    [p \in Proc |-> IF ~ OnGuarded(p) THEN "idle"
                    ELSE IF InEffect(p) THEN "done" ELSE "called"]

AbstractCall ==
    [p \in Proc |-> IF ~ OnGuarded(p) THEN None
                    ELSE call[p]]

AbstractRet ==
    [p \in Proc |->
        IF ~ OnGuarded(p) \/ ~ InEffect(p) THEN None
        ELSE IF call[p].op # "toMap" THEN ret[p]
        ELSE IF pc[p] = "read" THEN Contents
        ELSE [k \in Guarded |-> seen[p][k]]]

Abstract == INSTANCE AtomicMap WITH
    Key <- Guarded, map <- Contents, stage <- AbstractStage,
    call <- AbstractCall, ret <- AbstractRet

\* On the guarded keys the dictionary is an atomic map: TryAdd, TryRemove and
\* ToMap take effect in one step between call and return, whatever else runs,
\* on other keys too (the whole package).
ImplementsAtomicMap == Abstract!Spec

\* Operations never wait for each other in a circle, although ToMap holds many
\* locks: each returns, unless the process has died or a goroutine is lost in
\* resize (acquireLock, _acquireAllLocks).
OpsReturn ==
    \A p \in Proc :
        pc[p] # "idle" ~> \/ pc[p] = "idle"
                         \/ dead
                         \/ \E q \in Proc : pc[q] = "grow"

\* The lock a goroutine cannot go on without.
Awaited(p) ==
    IF pc[p] = "want" THEN {StripeOf(call[p].key)}
    ELSE IF pc[p] \in {"lockAll", "grow"} /\ next[p] < LocksTaken THEN {next[p]}
    ELSE {}

\* Who waits for a lock has only locks before it, so that goroutines which wait
\* for each other do not close a circle, and who has returned has none; all but a
\* goroutine in resize (acquireLock, _acquireAllLocks, _releaseAllLocks, and the
\* deferred releaseLock).
LocksInOrder ==
    \A p \in Proc : \A m \in Lock : holder[m] = p =>
        /\ pc[p] \notin {"idle", "done"}
        /\ pc[p] # "grow" => \A l \in Awaited(p) : m < l

\* "the threshold at which the map triggers a resize" (options.go:33): a
\* goroutine that resizes waits for no lock that it holds itself.
ResizeCanProceed ==
    \A p \in Proc : pc[p] = "grow" /\ next[p] < LocksTaken => holder[next[p]] # p
=============================================================================
