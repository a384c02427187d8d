--------------------------- MODULE DictionaryProofs ---------------------------
(***************************************************************************)
(* Proofs about the striped hash map, for any goroutines, keys, hashes,    *)
(* numbers of buckets and stripes (at least two).                          *)
(***************************************************************************)
EXTENDS ConcurrentDictionary, Numbers, SequenceTheorems

-----------------------------------------------------------------------------
(* Stripes and chains.                                                     *)

\* A bucket has one of the locks, and so has a key.
LEMMA Stripes ==
    /\ Locks \in Nat /\ Locks >= 2 /\ Buckets \in Nat /\ Buckets >= Locks /\ Threshold \in Nat
    /\ BucketOf \in [Key -> Bucket] /\ Bucket \subseteq Nat
    /\ \A b \in Bucket : LockOf(b) \in Lock
    /\ \A k \in Key : StripeOf(k) \in Lock
    /\ LocksTaken \in Nat /\ LocksTaken = Locks - 1
    /\ None \notin Key /\ None \notin Value /\ None \notin Proc
<1>1. Locks \in Nat \ {0} /\ Buckets \in Nat /\ Bucket \subseteq Nat
  BY DictionaryAssumption DEF Bucket
<1>2. ASSUME NEW b \in Bucket PROVE LockOf(b) \in Lock
  <2>1. b \in Int
    BY <1>1
  <2>2. (b % Locks) \in 0 .. Locks - 1
    BY <1>1, <2>1, DivMod
  <2> QED
    BY <2>2 DEF LockOf, Lock
<1>3. BucketOf \in [Key -> Bucket]
  BY DictionaryAssumption DEF Bucket
<1> QED
  BY <1>1, <1>2, <1>3, DictionaryAssumption DEF StripeOf, LocksTaken

\* The entries a bucket may hold, and what a reader may take for one.
EntryIn(b) == {e \in Entry : BucketOf[e.key] = b}
Reading(b) == [key : {k \in Key : BucketOf[k] = b} \cup {None}, val : Value \cup {None}]

\* The entry that _remove unlinks, or that ToMap ends with, is in the chain.
LEMMA Places ==
    ASSUME NEW S, NEW s \in Seq(S), NEW k \in KeysOf(s)
    PROVE  NewestAt(s, k) \in 1 .. Len(s) /\ OldestAt(s, k) \in 1 .. Len(s)
<1> DEFINE P == {i \in 1 .. Len(s) : s[i].key = k}
<1>1. P \in SUBSET Nat /\ P \in SUBSET (0 .. Len(s)) /\ Len(s) \in Nat
  OBVIOUS
<1>2. P # {}
  BY DEF KeysOf, Range
<1>3. P \subseteq 1 .. Len(s)
  OBVIOUS
<1> HIDE DEF P
<1>4. Min(P) \in P /\ Max(P) \in P
  BY <1>1, <1>2, MinLeast, MaxGreatest
<1> QED
  BY <1>3, <1>4 DEF NewestAt, OldestAt, P

\* Unlinking keeps the other entries.
LEMMA UnlinkedType ==
    ASSUME NEW S, NEW s \in Seq(S), NEW k
    PROVE  Unlinked(s, k) \in Seq(S)
<1>1. CASE k \notin KeysOf(s)
  BY <1>1 DEF Unlinked
<1>2. CASE k \in KeysOf(s)
  <2> DEFINE i == NewestAt(s, k)
  <2>1. i \in 1 .. Len(s) /\ Len(s) \in Nat
    BY <1>2, Places
  <2> HIDE DEF i
  <2>2. SubSeq(s, 1, i - 1) \in Seq(S)
    <3>1. \A j \in 1 .. i - 1 : s[j] \in S
      BY <2>1
    <3> QED
      BY <2>1, <3>1, SubSeqProperties
  <2>3. SubSeq(s, i + 1, Len(s)) \in Seq(S)
    <3>1. \A j \in i + 1 .. Len(s) : s[j] \in S
      BY <2>1
    <3> QED
      BY <2>1, <3>1, SubSeqProperties
  <2>4. RemoveAt(s, i) \in Seq(S)
    BY <2>2, <2>3, ConcatProperties DEF RemoveAt
  <2> QED
    BY <1>2, <2>4 DEF Unlinked, i
<1> QED
  BY <1>1, <1>2

-----------------------------------------------------------------------------
(* Types.                                                                  *)

Chained == chain \in [Bucket -> UNION {Seq(EntryIn(b)) : b \in Bucket}]
              /\ \A b \in Bucket : chain[b] \in Seq(EntryIn(b))

Changes == {"add", "remove"}

\* The parts of the state the arguments below look at.  A stripe that is over its
\* threshold is held for good by the goroutine that is lost in resize.
Fields ==
    /\ Chained
    /\ lockCount \in [Lock -> 0 .. Threshold + 1]
    /\ holder \in [Lock -> Proc \cup {None}]
    /\ pc \in [Proc -> Stage]
    /\ call \in [Proc -> Call \cup {None}]
    /\ next \in [Proc -> 0 .. Buckets]
    /\ seen \in [Proc -> View]
    /\ ret \in [Proc -> BOOLEAN]
    /\ dead \in BOOLEAN

\* Each stage has its call, and the locks it needs.
LockedAt(p) ==
    /\ pc[p] \in {"want", "write"} => /\ call[p] \in Call /\ call[p].op \in Changes
                                      /\ call[p].key \in Key
    /\ pc[p] = "write" => holder[StripeOf(call[p].key)] = p
    /\ pc[p] = "look" => call[p].key \in Key
    /\ pc[p] \in {"lockAll", "grow"} => next[p] <= LocksTaken
    /\ pc[p] = "lockAll" => \A l \in 0 .. next[p] - 1 : holder[l] = p
    /\ pc[p] = "read" => \A l \in 0 .. LocksTaken - 1 : holder[l] = p
    /\ pc[p] \notin {"grow", "lockAll", "read"} => next[p] = 0
Locked == \A p \in Proc : LockedAt(p)

\* A stripe over its threshold stays locked by a goroutine lost in resize.
Lost ==
    \A l \in Lock : lockCount[l] > Threshold =>
        \E p \in Proc : pc[p] = "grow" /\ holder[l] = p

\* What ToMap has of the keys whose stripes it holds: nothing before it reads,
\* and then what is in the buckets it has read.
Watched ==
    \A p \in Proc :
        /\ pc[p] \notin {"read", "done"} => seen[p] = EmptyView
        /\ pc[p] = "read" =>
              \A k \in Key : StripeOf(k) < Locks - 1 =>
                 seen[p][k] = IF BucketOf[k] < next[p]
                              THEN Overlay(EmptyView, chain[BucketOf[k]])[k]
                              ELSE None

\* What a write leaves in its bucket is the bucket's.
LEMMA WrittenType ==
    ASSUME Chained, NEW c \in Call, c.op \in Changes, c.key \in Key
    PROVE  Written(c) \in Seq(EntryIn(BucketOf[c.key]))
<1> DEFINE b == BucketOf[c.key]
<1>1. b \in Bucket /\ chain[b] \in Seq(EntryIn(b))
  BY Stripes DEF Chained
<1>2. CASE c.op = "add"
  <2>1. c.val \in Value
    BY <1>2 DEF Call
  <2>2. [key |-> c.key, val |-> c.val] \in EntryIn(b)
    BY <2>1 DEF EntryIn, Entry
  <2> HIDE DEF b
  <2>3. <<[key |-> c.key, val |-> c.val]>> \o chain[b] \in Seq(EntryIn(b))
    BY <1>1, <2>2, ConcatProperties
  <2> QED
    BY <1>2, <2>3 DEF Written, b
<1>3. CASE c.op # "add"
  BY <1>1, <1>3, UnlinkedType DEF Written
<1> QED
  BY <1>2, <1>3

\* A reader finds in a bucket entries of its keys only, or torn ones of no key.
LEMMA ReadingsType ==
    ASSUME Fields, Locked, NEW p \in Proc, NEW b \in Bucket, NEW s \in Readings(p, b)
    PROVE  s \in Seq(Reading(b))
<1>1. EntryIn(b) \subseteq Reading(b)
  BY DEF EntryIn, Entry, Reading
<1>2. \A t \in States(p, b) : t \in Seq(EntryIn(b))
  <2>1. chain[b] \in Seq(EntryIn(b))
    BY DEF Fields, Chained
  <2>2. ASSUME NEW q \in Racers(p, b) PROVE Written(call[q]) \in Seq(EntryIn(b))
    <3>1. /\ call[q] \in Call /\ call[q].op \in Changes /\ call[q].key \in Key
          /\ BucketOf[call[q].key] = b
      BY DEF Locked, LockedAt, Racers
    <3> QED
      BY <3>1, WrittenType DEF Fields
  <2> QED
    BY <2>1, <2>2 DEF States
<1>3. \A t \in States(p, b) : t \in Seq(Reading(b))
  BY <1>1, <1>2, SeqMonotonic
<1>4. \A t \in States(p, b) : HeadOf(t) \in Reading(b) /\ TailOf(t) \in Seq(Reading(b))
  <2> TAKE t \in States(p, b)
  <2>1. CASE t = <<>>
    BY <2>1 DEF HeadOf, TailOf, NoEntry, Reading
  <2>2. CASE t # <<>>
    BY <1>3, <2>2, HeadTailProperties DEF HeadOf, TailOf
  <2> QED
    BY <2>1, <2>2
<1>5. CASE Racers(p, b) = {}
  BY <1>3, <1>5 DEF Readings, States
<1>6. CASE Racers(p, b) # {}
  <2>1. PICK k \in {None} \cup {HeadOf(u).key : u \in States(p, b)},
             v \in States(p, b), t \in States(p, b) : s = Torn(k, v, t)
    BY <1>6 DEF Readings
  <2>2. k \in {j \in Key : BucketOf[j] = b} \cup {None}
    BY <1>4 DEF Reading
  <2>3. HeadOf(v).val \in Value \cup {None}
    BY <1>4 DEF Reading
  <2> DEFINE h == [key |-> k, val |-> HeadOf(v).val]
  <2>4. h \in Reading(b)
    BY <2>2, <2>3 DEF Reading
  <2>5. TailOf(t) \in Seq(Reading(b)) /\ s = <<h>> \o TailOf(t)
    BY <1>4, <2>1 DEF Torn
  <2> HIDE DEF h
  <2> QED
    BY <2>4, <2>5, ConcatProperties
<1> QED
  BY <1>5, <1>6

\* The maps a walk over a bucket makes of a map.
LEMMA OverlayType ==
    ASSUME NEW b \in Bucket, NEW s \in Seq(Reading(b)), NEW view \in View
    PROVE  Overlay(view, s) \in View
<1> DEFINE f(k) == IF s # <<>> /\ s[1].val # None /\ k \in KeysOf(s)
                   THEN s[OldestAt(s, k)].val
                   ELSE view[k]
<1>1. ASSUME NEW k \in Key \cup {None} PROVE f(k) \in Value \cup {None}
  <2>1. CASE k \in KeysOf(s)
    <3>1. OldestAt(s, k) \in 1 .. Len(s)
      BY <2>1, Places
    <3>2. s[OldestAt(s, k)] \in Reading(b)
      BY <3>1
    <3> QED
      BY <3>2 DEF Reading, View
  <2>2. CASE k \notin KeysOf(s)
    BY <2>2 DEF View
  <2> QED
    BY <2>1, <2>2
<1>2. DOMAIN view = Key \cup {None}
  BY DEF View
<1>3. Overlay(view, s) = [k \in Key \cup {None} |-> f(k)]
  BY <1>2 DEF Overlay
<1> HIDE DEF f
<1> QED
  BY <1>1, <1>3 DEF View

-----------------------------------------------------------------------------
(* Every step keeps the types.                                             *)

Inv == Fields /\ Locked /\ Lost

\* A goroutine that writes has a stripe that is not over its threshold: one that
\* is, is held by another.
LEMMA RoomToCount ==
    ASSUME Inv, NEW p \in Proc, pc[p] = "write"
    PROVE  /\ StripeOf(call[p].key) \in Lock
           /\ lockCount[StripeOf(call[p].key)] \in 0 .. Threshold
<1> DEFINE l == StripeOf(call[p].key)
<1>1. l \in Lock /\ holder[l] = p
  BY Stripes DEF Inv, Locked, LockedAt
<1> HIDE DEF l
<1>2. ~ (lockCount[l] > Threshold)
  BY <1>1 DEF Inv, Lost
<1>3. lockCount[l] \in 0 .. Threshold + 1
  BY <1>1 DEF Inv, Fields
<1>4. lockCount[l] \in 0 .. Threshold
  BY <1>2, <1>3, Stripes
<1> QED
  BY <1>1, <1>4 DEF l

\* A write changes its own bucket, to one of the bucket's.
LEMMA ChainWritten ==
    ASSUME Inv, NEW p \in Proc, pc[p] = "write",
           chain' = [chain EXCEPT ![BucketOf[call[p].key]] = Written(call[p])]
    PROVE  Chained'
<1> DEFINE b == BucketOf[call[p].key]
           w == Written(call[p])
<1>1. b \in Bucket /\ w \in Seq(EntryIn(b))
  BY Stripes, WrittenType DEF Inv, Fields, Locked, LockedAt
<1>2. chain' = [chain EXCEPT ![b] = w]
  OBVIOUS
<1> HIDE DEF b, w
<1>3. \A d \in Bucket : chain'[d] \in Seq(EntryIn(d))
  BY <1>1, <1>2 DEF Inv, Fields, Chained
<1>4. DOMAIN chain' = Bucket /\ chain' = [d \in Bucket |-> chain'[d]]
  BY <1>2 DEF Inv, Fields, Chained
<1>5. \A d \in Bucket : chain'[d] \in UNION {Seq(EntryIn(c)) : c \in Bucket}
  BY <1>3
<1> QED
  BY <1>3, <1>4, <1>5 DEF Chained

\* Letting locks go leaves the others with their holders.
LEMMA Released ==
    ASSUME Fields, NEW p \in Proc, Release(p)
    PROVE  /\ holder' \in [Lock -> Proc \cup {None}]
           /\ \A l \in Lock : holder[l] # p => holder'[l] = holder[l]
BY DEF Release, Fields

\* Each step keeps the types.
LEMMA FieldsStep ==
    ASSUME Inv, [Next]_vars
    PROVE  Fields'
<1> USE DEF Stage
<1>0. Fields
  BY DEF Inv
<1>1. ASSUME NEW p \in Proc, Invoke(p) PROVE Fields'
  <2>1. \A c \in Call : FirstStage[c.op] \in Stage
    BY DEF Call, FirstStage
  <2> QED
    BY <1>0, <1>1, <2>1 DEF Invoke, Goto, Fields, Chained
<1>2. ASSUME NEW p \in Proc, Acquire(p) PROVE Fields'
  BY <1>0, <1>2 DEF Acquire, Goto, Fields, Chained
<1>3. ASSUME NEW p \in Proc, AddWrite(p) PROVE Fields'
  <2> DEFINE l == StripeOf(call[p].key)
  <2>1. Chained'
    BY <1>3, ChainWritten DEF AddWrite
  <2>2. lockCount' \in [Lock -> 0 .. Threshold + 1]
    <3>1. l \in Lock /\ lockCount[l] \in 0 .. Threshold
      BY <1>3, RoomToCount DEF AddWrite
    <3>2. lockCount' = [lockCount EXCEPT ![l] = lockCount[l] + 1]
      BY <1>3 DEF AddWrite
    <3> HIDE DEF l
    <3>3. lockCount[l] + 1 \in 0 .. Threshold + 1
      BY <3>1, Stripes
    <3> QED
      BY <1>0, <3>1, <3>2, <3>3 DEF Fields
  <2>3. holder' \in [Lock -> Proc \cup {None}]
    BY <1>0, <1>3, Released DEF AddWrite, Fields
  <2>4. pc' \in [Proc -> Stage] /\ ret' \in [Proc -> BOOLEAN]
    BY <1>0, <1>3 DEF AddWrite, Goto, Fields
  <2>5. next' \in [Proc -> 0 .. Buckets]
    BY <1>0, <1>3, Stripes DEF AddWrite, Fields
  <2> QED
    BY <1>0, <1>3, <2>1, <2>2, <2>3, <2>4, <2>5 DEF AddWrite, Fields
<1>4. ASSUME NEW p \in Proc, RemoveWrite(p) PROVE Fields'
  <2>1. Chained'
    BY <1>4, ChainWritten DEF RemoveWrite
  <2>2. holder' \in [Lock -> Proc \cup {None}]
    BY <1>0, <1>4, Released DEF RemoveWrite
  <2>3. pc' \in [Proc -> Stage] /\ ret' \in [Proc -> BOOLEAN]
    BY <1>0, <1>4 DEF RemoveWrite, Goto, Fields
  <2> QED
    BY <1>0, <1>4, <2>1, <2>2, <2>3 DEF RemoveWrite, Fields
<1>5. ASSUME NEW p \in Proc, GrowLock(p) PROVE Fields'
  <2>1. next[p] + 1 \in 0 .. Buckets
    BY <1>0, <1>5, Stripes DEF GrowLock, Fields
  <2> QED
    BY <1>0, <1>5, <2>1 DEF GrowLock, Fields, Chained
<1>6. ASSUME NEW p \in Proc, GrowUnlock(p) PROVE Fields'
  BY <1>0, <1>6 DEF GrowUnlock, Fields, Chained
<1>7. ASSUME NEW p \in Proc, SnapLock(p) PROVE Fields'
  <2>1. CASE next[p] < LocksTaken
    <3>1. next[p] + 1 \in 0 .. Buckets
      BY <1>0, <2>1, Stripes DEF Fields
    <3> QED
      BY <1>0, <1>7, <2>1, <3>1 DEF SnapLock, Fields, Chained
  <2>2. CASE ~ (next[p] < LocksTaken)
    <3>1. 0 \in 0 .. Buckets
      BY Stripes
    <3> QED
      BY <1>0, <1>7, <2>2, <3>1 DEF SnapLock, Goto, Fields, Chained
  <2> QED
    BY <2>1, <2>2
<1>8. ASSUME NEW p \in Proc, SnapRead(p) PROVE Fields'
  <2>1. next[p] \in Bucket /\ next[p] + 1 \in 0 .. Buckets
    BY <1>0, <1>8, Stripes DEF SnapRead, Fields, Bucket
  <2>2. PICK s \in Readings(p, next[p]) : seen' = [seen EXCEPT ![p] = Overlay(seen[p], s)]
    BY <1>8 DEF SnapRead
  <2>3. Overlay(seen[p], s) \in View
    <3>1. s \in Seq(Reading(next[p]))
      BY <2>1, ReadingsType DEF Inv
    <3>2. seen[p] \in View
      BY <1>0 DEF Fields
    <3> QED
      BY <2>1, <3>1, <3>2, OverlayType
  <2> QED
    BY <1>0, <1>8, <2>1, <2>2, <2>3 DEF SnapRead, Fields, Chained
<1>9. ASSUME NEW p \in Proc, SnapPanic(p) PROVE Fields'
  BY <1>0, <1>9 DEF SnapPanic, Fields, Chained
<1>10. ASSUME NEW p \in Proc, SnapEnd(p) PROVE Fields'
  <2>1. holder' \in [Lock -> Proc \cup {None}]
    BY <1>0, <1>10, Released DEF SnapEnd, ReleaseAll
  <2>2. next' \in [Proc -> 0 .. Buckets] /\ pc' \in [Proc -> Stage]
    BY <1>0, <1>10, Stripes DEF SnapEnd, Goto, Fields
  <2> QED
    BY <1>0, <1>10, <2>1, <2>2 DEF SnapEnd, Fields, Chained
<1>11. ASSUME NEW p \in Proc, Look(p) PROVE Fields'
  <2>1. \E s : /\ ret' = [ret EXCEPT ![p] = call[p].key \in KeysOf(s)]
               /\ dead' = (call[p].key \in KeysOf(s)
                             /\ s[NewestAt(s, call[p].key)].val = None)
    BY <1>11 DEF Look
  <2>2. ret' \in [Proc -> BOOLEAN] /\ dead' \in BOOLEAN
    BY <1>0, <2>1 DEF Fields
  <2>3. pc' \in [Proc -> Stage]
    BY <1>0, <1>11 DEF Look, Goto, Fields
  <2> QED
    BY <1>0, <1>11, <2>2, <2>3 DEF Look, Fields, Chained
<1>12. ASSUME NEW p \in Proc, Return(p) PROVE Fields'
  <2>1. EmptyView \in View
    BY DEF EmptyView, View
  <2> QED
    BY <1>0, <1>12, <2>1 DEF Return, Goto, Fields, Chained
<1>13. CASE UNCHANGED vars
  BY <1>0, <1>13 DEF vars, Fields, Chained
<1> QED
  BY <1>1, <1>2, <1>3, <1>4, <1>5, <1>6, <1>7, <1>8, <1>9, <1>10, <1>11, <1>12, <1>13
     DEF Next, LockStep, FreeStep

-----------------------------------------------------------------------------
(* Every step keeps the locks in their order.                              *)

Step(p) == Invoke(p) \/ LockStep(p) \/ FreeStep(p)

\* A step of one goroutine leaves the others where they are, with their locks.
LEMMA OthersStay ==
    ASSUME Inv, NEW p \in Proc, Step(p), NEW q \in Proc, q # p
    PROVE  /\ pc'[q] = pc[q] /\ call'[q] = call[q] /\ next'[q] = next[q]
           /\ seen'[q] = seen[q] /\ ret'[q] = ret[q]
           /\ \A l \in Lock : holder[l] = q => holder'[l] = q
<1>0. Fields /\ None \notin Proc
  BY Stripes DEF Inv
<1>1. CASE Invoke(p)
  BY <1>0, <1>1 DEF Invoke, Goto, Fields
<1>2. CASE Acquire(p)
  BY <1>0, <1>2 DEF Acquire, Goto, Fields
<1>3. CASE AddWrite(p)
  BY <1>0, <1>3, Released DEF AddWrite, Goto, Fields
<1>4. CASE RemoveWrite(p)
  BY <1>0, <1>4, Released DEF RemoveWrite, Goto, Fields
<1>5. CASE GrowLock(p)
  BY <1>0, <1>5 DEF GrowLock, Fields
<1>6. CASE GrowUnlock(p)
  BY <1>0, <1>6 DEF GrowUnlock, Fields
<1>7. CASE SnapLock(p)
  BY <1>0, <1>7 DEF SnapLock, Goto, Fields
<1>8. CASE SnapRead(p)
  BY <1>0, <1>8 DEF SnapRead, Fields
<1>9. CASE SnapPanic(p)
  BY <1>0, <1>9 DEF SnapPanic, Fields
<1>10. CASE SnapEnd(p)
  BY <1>0, <1>10, Released DEF SnapEnd, ReleaseAll, Goto, Fields
<1>11. CASE Look(p)
  BY <1>0, <1>11 DEF Look, Goto, Fields
<1>12. CASE Return(p)
  BY <1>0, <1>12 DEF Return, Goto, Fields
<1> QED
  BY <1>1, <1>2, <1>3, <1>4, <1>5, <1>6, <1>7, <1>8, <1>9, <1>10, <1>11, <1>12
     DEF Step, LockStep, FreeStep

\* Each step keeps the locks in their order.
LEMMA LockedStep ==
    ASSUME Inv, [Next]_vars
    PROVE  Locked'
<1>0. Fields /\ Locked
  BY DEF Inv
<1>1. SUFFICES ASSUME NEW p \in Proc, Step(p) PROVE Locked'
  <2>1. CASE UNCHANGED vars
    BY <1>0, <2>1 DEF vars, Locked, LockedAt
  <2> QED
    BY <1>1, <2>1 DEF Next, Step
<1>2. ASSUME NEW q \in Proc, q # p PROVE LockedAt(q)'
  <2>1. /\ pc'[q] = pc[q] /\ call'[q] = call[q] /\ next'[q] = next[q]
        /\ \A l \in Lock : holder[l] = q => holder'[l] = q
    BY <1>1, <1>2, OthersStay
  <2>2. LockedAt(q)
    BY <1>0 DEF Locked
  <2>3. call[q].key \in Key => StripeOf(call[q].key) \in Lock
    BY Stripes
  <2>4. \A l \in 0 .. LocksTaken - 1 : l \in Lock
    BY Stripes DEF Lock
  <2>5. next[q] <= LocksTaken => \A l \in 0 .. next[q] - 1 : l \in Lock
    BY <1>0, Stripes DEF Lock, Fields
  <2> QED
    BY <2>1, <2>2, <2>3, <2>4, <2>5 DEF LockedAt
<1>3. LockedAt(p)
  BY <1>0 DEF Locked
<1>4. LocksTaken \in Nat /\ next[p] \in Nat /\ next \in [Proc -> 0 .. Buckets] /\ pc[p] \in Stage
  BY <1>0, Stripes DEF Fields
<1>5. LockedAt(p)'
  <2>1. CASE Invoke(p)
    <3>1. PICK c \in Call : call' = [call EXCEPT ![p] = c] /\ Goto(p, FirstStage[c.op])
      BY <2>1 DEF Invoke
    <3>2. call'[p] = c /\ pc'[p] = FirstStage[c.op]
      BY <1>0, <3>1 DEF Goto, Fields
    <3>3. next'[p] = 0 /\ 0 .. 0 - 1 = {}
      BY <1>3, <2>1 DEF LockedAt, Invoke
    <3>4. CASE c.op \in Changes
      <4>1. pc'[p] = "want" /\ c.key \in Key
        BY <3>2, <3>4 DEF FirstStage, Changes, Call
      <4> QED
        BY <3>2, <3>3, <3>4, <4>1 DEF LockedAt
    <3>5. CASE c.op = "get"
      <4>1. pc'[p] = "look" /\ c.key \in Key
        BY <3>2, <3>5 DEF FirstStage, Call
      <4> QED
        BY <3>2, <3>3, <4>1 DEF LockedAt
    <3>6. CASE c.op = "toMap"
      <4>1. pc'[p] = "lockAll"
        BY <3>2, <3>6 DEF FirstStage
      <4> QED
        BY <1>4, <3>3, <4>1 DEF LockedAt
    <3> QED
      BY <3>4, <3>5, <3>6 DEF Call, Changes
  <2>2. CASE Acquire(p)
    <3>1. /\ pc[p] = "want" /\ call[p] \in Call /\ call[p].op \in Changes
          /\ call[p].key \in Key /\ next[p] = 0 /\ StripeOf(call[p].key) \in Lock
      BY <1>3, <2>2, Stripes DEF Acquire, LockedAt
    <3>2. /\ call' = call /\ next' = next
          /\ \/ pc'[p] = "done"
             \/ pc'[p] = "write" /\ holder'[StripeOf(call[p].key)] = p
      BY <1>0, <2>2, <3>1 DEF Acquire, Goto, Fields
    <3> QED
      BY <3>1, <3>2 DEF LockedAt
  <2>3. CASE AddWrite(p)
    <3>1. pc'[p] \in {"grow", "done"} /\ next'[p] = 0
      BY <1>0, <1>3, <2>3 DEF AddWrite, Goto, Fields, LockedAt
    <3> QED
      BY <1>4, <3>1 DEF LockedAt
  <2>4. CASE RemoveWrite(p)
    <3>1. pc'[p] = "done" /\ next'[p] = 0
      BY <1>0, <1>3, <2>4 DEF RemoveWrite, Goto, Fields, LockedAt
    <3> QED
      BY <3>1 DEF LockedAt
  <2>5. CASE GrowLock(p)
    <3>1. pc'[p] = "grow" /\ next'[p] <= LocksTaken
      BY <1>4, <2>5 DEF GrowLock
    <3> QED
      BY <3>1 DEF LockedAt
  <2>6. CASE GrowUnlock(p)
    BY <1>3, <2>6 DEF GrowUnlock, LockedAt
  <2>7. CASE SnapLock(p)
    <3>1. pc[p] = "lockAll" /\ next[p] <= LocksTaken /\ \A l \in 0 .. next[p] - 1 : holder[l] = p
      BY <1>3, <2>7 DEF SnapLock, LockedAt
    <3>2. CASE next[p] < LocksTaken
      <4>1. /\ pc'[p] = "lockAll" /\ next'[p] = next[p] + 1
            /\ holder' = [holder EXCEPT ![next[p]] = p]
        BY <1>4, <2>7, <3>1, <3>2 DEF SnapLock
      <4>2. next[p] \in Lock
        BY <1>4, <3>2, Stripes DEF Lock
      <4>3. \A l \in 0 .. next[p] : l = next[p] \/ l \in 0 .. next[p] - 1
        BY <1>4
      <4>4. \A l \in 0 .. next[p] - 1 : l \in Lock
        BY <1>4, <3>2, Stripes DEF Lock
      <4>5. \A l \in 0 .. next[p] : holder'[l] = p
        BY <1>0, <3>1, <4>1, <4>2, <4>3, <4>4 DEF Fields
      <4>6. next'[p] <= LocksTaken /\ next'[p] - 1 = next[p]
        BY <1>4, <3>2, <4>1
      <4> QED
        BY <4>1, <4>5, <4>6 DEF LockedAt
    <3>3. CASE ~ (next[p] < LocksTaken)
      <4>1. pc'[p] = "read" /\ holder' = holder
        BY <1>0, <2>7, <3>3 DEF SnapLock, Goto, Fields
      <4>2. next[p] = LocksTaken
        BY <1>4, <3>1, <3>3
      <4> QED
        BY <3>1, <4>1, <4>2 DEF LockedAt
    <3> QED
      BY <3>2, <3>3
  <2>8. CASE SnapRead(p)
    BY <1>3, <2>8 DEF SnapRead, LockedAt
  <2>9. CASE SnapPanic(p)
    BY <1>3, <2>9 DEF SnapPanic, LockedAt
  <2>10. CASE SnapEnd(p)
    <3>1. pc'[p] = "done" /\ next'[p] = 0
      BY <1>0, <1>4, <2>10 DEF SnapEnd, Goto, Fields
    <3> QED
      BY <3>1 DEF LockedAt
  <2>11. CASE Look(p)
    <3>1. pc'[p] = "done" /\ next'[p] = 0
      BY <1>0, <1>3, <2>11 DEF Look, Goto, Fields, LockedAt
    <3> QED
      BY <3>1 DEF LockedAt
  <2>12. CASE Return(p)
    <3>1. pc'[p] = "idle" /\ next'[p] = 0
      BY <1>0, <1>3, <2>12 DEF Return, Goto, Fields, LockedAt
    <3> QED
      BY <3>1 DEF LockedAt
  <2> QED
    BY <1>1, <2>1, <2>2, <2>3, <2>4, <2>5, <2>6, <2>7, <2>8, <2>9, <2>10, <2>11, <2>12
       DEF Step, LockStep, FreeStep
<1> QED
  BY <1>2, <1>5 DEF Locked

\* Each step keeps the stripes over the threshold with a goroutine in resize.
LEMMA LostStep ==
    ASSUME Inv, [Next]_vars
    PROVE  Lost'
<1>0. Fields /\ Locked /\ Lost
  BY DEF Inv
<1>1. SUFFICES ASSUME NEW p \in Proc, Step(p) PROVE Lost'
  <2>1. CASE UNCHANGED vars
    BY <1>0, <2>1 DEF vars, Lost
  <2> QED
    BY <1>1, <2>1 DEF Next, Step
<1>2. SUFFICES ASSUME NEW l \in Lock, lockCount'[l] > Threshold
               PROVE  \E q \in Proc : pc'[q] = "grow" /\ holder'[l] = q
  BY DEF Lost
<1>3. CASE lockCount[l] > Threshold
  <2>1. PICK q \in Proc : pc[q] = "grow" /\ holder[l] = q
    BY <1>0, <1>3 DEF Lost
  <2>2. CASE q # p
    BY <1>1, <2>1, <2>2, OthersStay
  <2>3. CASE q = p
    <3>1. GrowLock(p) \/ GrowUnlock(p)
      BY <1>1, <2>1, <2>3 DEF Step, LockStep, FreeStep, Invoke, Acquire, SnapLock, AddWrite,
                              RemoveWrite, SnapRead, SnapPanic, SnapEnd, Look, Return
    <3>2. pc' = pc /\ holder'[l] = p
      BY <1>0, <2>1, <2>3, <3>1 DEF GrowLock, GrowUnlock, Fields
    <3> QED
      BY <2>1, <2>3, <3>2
  <2> QED
    BY <2>2, <2>3
<1>4. CASE ~ (lockCount[l] > Threshold)
  <2>1. AddWrite(p)
    <3>1. lockCount' # lockCount
      BY <1>2, <1>4
    <3> QED
      BY <1>1, <3>1 DEF Step, LockStep, FreeStep, Invoke, Acquire, GrowLock, GrowUnlock, SnapLock,
                        RemoveWrite, SnapRead, SnapPanic, SnapEnd, Look, Return
  <2> DEFINE d == StripeOf(call[p].key)
  <2>2. /\ lockCount' = [lockCount EXCEPT ![d] = lockCount[d] + 1]
        /\ Overfull(lockCount'[d]) => Goto(p, "grow") /\ holder' = holder
        /\ pc[p] = "write"
    BY <2>1 DEF AddWrite
  <2>3. holder[d] = p
    BY <1>0, <2>2 DEF Locked, LockedAt
  <2> HIDE DEF d
  <2>4. l = d
    BY <1>0, <1>2, <1>4, <2>2 DEF Fields
  <2>5. Goto(p, "grow") /\ holder' = holder
    BY <1>2, <2>2, <2>4 DEF Overfull
  <2>6. pc'[p] = "grow"
    BY <1>0, <2>5 DEF Goto, Fields
  <2> QED
    BY <2>3, <2>4, <2>5, <2>6
<1> QED
  BY <1>3, <1>4

-----------------------------------------------------------------------------
(* Every step keeps the map that ToMap builds true to what it has read.     *)

\* Two goroutines never have one lock: while one reads, holding its stripe, a
\* guarded bucket is written by nobody else.
LEMMA NoRacer ==
    ASSUME Inv, NEW p \in Proc, pc[p] = "read",
           NEW k \in Key, StripeOf(k) < Locks - 1,
           NEW q \in Proc, pc[q] = "write"
    PROVE  StripeOf(call[q].key) # StripeOf(k)
<1>1. StripeOf(k) \in 0 .. LocksTaken - 1
  BY Stripes DEF Lock
<1>2. holder[StripeOf(k)] = p
  BY <1>1 DEF Inv, Locked, LockedAt
<1>3. holder[StripeOf(call[q].key)] = q
  BY DEF Inv, Locked, LockedAt
<1> QED
  BY <1>2, <1>3

\* While a goroutine reads, the buckets of the stripes it holds stay as they are.
LEMMA HeldStill ==
    ASSUME Inv, NEW p \in Proc, Step(p), NEW r \in Proc, pc[r] = "read",
           NEW k \in Key, StripeOf(k) < Locks - 1
    PROVE  chain'[BucketOf[k]] = chain[BucketOf[k]]
<1>0. Fields
  BY DEF Inv
<1>1. CASE chain' = chain
  BY <1>1
<1>2. CASE chain' # chain
  <2>1. AddWrite(p) \/ RemoveWrite(p)
    BY <1>2 DEF Step, LockStep, FreeStep, Invoke, Acquire, GrowLock, GrowUnlock,
                SnapLock, SnapRead, SnapPanic, SnapEnd, Look, Return
  <2>2. /\ pc[p] = "write"
        /\ chain' = [chain EXCEPT ![BucketOf[call[p].key]] = Written(call[p])]
    BY <2>1 DEF AddWrite, RemoveWrite
  <2>3. StripeOf(call[p].key) # StripeOf(k)
    BY <2>2, NoRacer
  <2>4. BucketOf[call[p].key] # BucketOf[k]
    BY <2>3 DEF StripeOf
  <2> QED
    BY <1>0, <2>2, <2>4, Stripes DEF Fields, Chained
<1> QED
  BY <1>1, <1>2

\* So no bucket of the stripes it holds changes under it, read or not.
LEMMA ReadUndisturbed ==
    ASSUME Inv, [Next]_vars
    PROVE  Undisturbed
<1>1. SUFFICES ASSUME NEW r \in Proc, pc[r] = "read", NEW b \in Bucket, LockOf(b) < Locks - 1
               PROVE  chain'[b] = chain[b]
  BY DEF Undisturbed
<1>2. CASE UNCHANGED vars
  BY <1>2 DEF vars
<1>3. ASSUME NEW p \in Proc, Step(p) PROVE chain'[b] = chain[b]
  <2>1. CASE chain' = chain
    BY <2>1
  <2>2. CASE chain' # chain
    <3>1. AddWrite(p) \/ RemoveWrite(p)
      BY <1>3, <2>2 DEF Step, LockStep, FreeStep, Invoke, Acquire, GrowLock,
                        GrowUnlock, SnapLock, SnapRead, SnapPanic, SnapEnd, Look, Return
    <3> DEFINE k == call[p].key
    <3>2. /\ pc[p] = "write"
          /\ chain' = [chain EXCEPT ![BucketOf[k]] = Written(call[p])]
      BY <3>1 DEF AddWrite, RemoveWrite
    <3>3. k \in Key
      BY <3>2 DEF Inv, Locked, LockedAt
    <3>4. CASE b = BucketOf[k]
      <4>1. StripeOf(k) < Locks - 1
        BY <1>1, <3>4 DEF StripeOf
      <4> QED
        BY <1>1, <1>3, <3>3, <3>4, <4>1, HeldStill
    <3>5. CASE b # BucketOf[k]
      <4>1. DOMAIN chain = Bucket
        BY DEF Inv, Fields, Chained
      <4> HIDE DEF k
      <4> QED
        BY <1>1, <3>2, <3>5, <4>1
    <3> QED
      BY <3>4, <3>5
  <2> QED
    BY <2>1, <2>2
<1> QED
  BY <1>2, <1>3 DEF Next, Step

\* The keys of a list are those of its entries.
LEMMA KeysIn ==
    ASSUME NEW b \in Bucket, NEW s \in Seq(Reading(b)), NEW k \in Key, k \in KeysOf(s)
    PROVE  BucketOf[k] = b
<1>1. PICK i \in DOMAIN s : s[i].key = k
  BY DEF KeysOf, Range
<1>2. s[i] \in Reading(b)
  BY <1>1
<1>3. s[i].key \in {j \in Key : BucketOf[j] = b} \cup {None}
  BY <1>2 DEF Reading
<1> QED
  BY <1>1, <1>3, Stripes

\* A walk changes what a map has of a key only if the key is there, and sets it
\* to what a walk sets it to that starts with nothing.
LEMMA OverlayAt ==
    ASSUME NEW view \in View, NEW s, NEW k \in Key
    PROVE  /\ k \notin KeysOf(s) => Overlay(view, s)[k] = view[k]
           /\ view[k] = None => Overlay(view, s)[k] = Overlay(EmptyView, s)[k]
<1>1. EmptyView \in View /\ EmptyView[k] = None
  BY DEF EmptyView, View
<1>2. DOMAIN view = Key \cup {None} /\ DOMAIN EmptyView = Key \cup {None}
  BY <1>1 DEF View
<1> QED
  BY <1>1, <1>2 DEF Overlay

\* Each step keeps the map that ToMap builds true to what it has read.
LEMMA WatchedStep ==
    ASSUME Inv, Watched, [Next]_vars
    PROVE  Watched'
<1>0. Fields /\ Locked
  BY DEF Inv
<1>1. SUFFICES ASSUME NEW p \in Proc, Step(p) PROVE Watched'
  <2>1. CASE UNCHANGED vars
    BY <2>1 DEF vars, Watched
  <2> QED
    BY <1>1, <2>1 DEF Next, Step
<1>2. EmptyView \in View /\ \A k \in Key : EmptyView[k] = None
  BY DEF EmptyView, View
<1>3. ASSUME NEW r \in Proc, pc[r] = "read", NEW k \in Key, StripeOf(k) < Locks - 1
      PROVE  chain'[BucketOf[k]] = chain[BucketOf[k]]
  BY <1>1, <1>3, HeldStill
<1> DEFINE At(r) == /\ pc[r] \notin {"read", "done"} => seen[r] = EmptyView
                    /\ pc[r] = "read" =>
                          \A k \in Key : StripeOf(k) < Locks - 1 =>
                             seen[r][k] = IF BucketOf[k] < next[r]
                                          THEN Overlay(EmptyView, chain[BucketOf[k]])[k]
                                          ELSE None
<1>4. ASSUME NEW r \in Proc, pc'[r] = pc[r], next'[r] = next[r], seen'[r] = seen[r]
      PROVE  At(r)'
  <2>1. At(r)
    BY DEF Watched
  <2>2. pc[r] = "read" => \A k \in Key : StripeOf(k) < Locks - 1 =>
           chain'[BucketOf[k]] = chain[BucketOf[k]]
    BY <1>3
  <2> QED
    BY <1>4, <2>1, <2>2
<1>5. ASSUME NEW r \in Proc, r # p PROVE At(r)'
  <2>1. pc'[r] = pc[r] /\ next'[r] = next[r] /\ seen'[r] = seen[r]
    BY <1>1, <1>5, OthersStay
  <2> HIDE DEF At
  <2> QED
    BY <1>4, <2>1
<1>6. At(p)
  BY DEF Watched
<1>7. At(p)'
  <2>1. CASE SnapRead(p)
    <3> DEFINE b == next[p]
    <3>1. /\ pc[p] = "read" /\ pc'[p] = "read" /\ b \in Bucket /\ b \in Nat
          /\ chain' = chain /\ next'[p] = b + 1 /\ seen[p] \in View
      BY <1>0, <2>1, Stripes DEF SnapRead, Fields, Bucket
    <3>2. PICK s \in Readings(p, b) : seen'[p] = Overlay(seen[p], s)
      BY <1>0, <2>1 DEF SnapRead, Fields
    <3>3. s \in Seq(Reading(b))
      BY <1>0, <3>1, ReadingsType
    <3> HIDE DEF b
    <3>4. SUFFICES ASSUME NEW k \in Key, StripeOf(k) < Locks - 1
                   PROVE  seen'[p][k] = IF BucketOf[k] < b + 1
                                        THEN Overlay(EmptyView, chain[BucketOf[k]])[k]
                                        ELSE None
      BY <3>1
    <3>5. seen[p][k] = IF BucketOf[k] < b THEN Overlay(EmptyView, chain[BucketOf[k]])[k]
                                          ELSE None
      BY <1>6, <3>1, <3>4 DEF b
    <3>6. CASE BucketOf[k] = b
      <4>1. Racers(p, b) = {}
        <5>1. ASSUME NEW q \in Racers(p, b) PROVE FALSE
          <6>1. q \in Proc /\ pc[q] = "write" /\ BucketOf[call[q].key] = BucketOf[k]
            BY <3>6 DEF Racers
          <6>2. StripeOf(call[q].key) = StripeOf(k)
            BY <6>1 DEF StripeOf
          <6> QED
            BY <3>1, <3>4, <6>1, <6>2, NoRacer
        <5> QED
          BY <5>1
      <4>2. s = chain[b]
        BY <4>1 DEF Readings
      <4>3. seen[p][k] = None
        BY <3>1, <3>5, <3>6
      <4>4. seen'[p][k] = Overlay(EmptyView, s)[k]
        BY <3>1, <3>2, <4>3, OverlayAt
      <4>5. BucketOf[k] < b + 1
        BY <3>1, <3>6
      <4> QED
        BY <3>6, <4>2, <4>4, <4>5
    <3>7. CASE BucketOf[k] # b
      <4>1. k \notin KeysOf(s)
        BY <3>1, <3>3, <3>7, KeysIn
      <4>2. seen'[p][k] = seen[p][k]
        BY <3>1, <3>2, <4>1, OverlayAt
      <4>3. BucketOf[k] \in Nat
        BY Stripes
      <4>4. BucketOf[k] < b + 1 <=> BucketOf[k] < b
        BY <3>1, <3>7, <4>3
      <4> QED
        BY <3>5, <4>2, <4>4
    <3> QED
      BY <3>6, <3>7
  <2>2. CASE SnapLock(p)
    <3>1. pc[p] = "lockAll" /\ seen'[p] = EmptyView
      BY <1>6, <2>2 DEF SnapLock
    <3>2. CASE pc'[p] = "read"
      <4>1. next'[p] = 0
        BY <1>0, <2>2, <3>1, <3>2 DEF SnapLock, Fields
      <4>2. ASSUME NEW k \in Key PROVE ~ (BucketOf[k] < 0)
        <5>1. BucketOf[k] \in Nat
          BY Stripes
        <5> QED
          BY <5>1
      <4> QED
        BY <1>2, <3>1, <3>2, <4>1, <4>2
    <3>3. CASE pc'[p] # "read"
      BY <3>1, <3>3
    <3> QED
      BY <3>2, <3>3
  <2>3. CASE Invoke(p)
    <3>1. pc[p] = "idle" /\ seen' = seen /\ \E c \in Call : Goto(p, FirstStage[c.op])
      BY <2>3 DEF Invoke
    <3>2. \A c \in Call : FirstStage[c.op] # "read"
      BY DEF Call, FirstStage
    <3>3. pc'[p] # "read" /\ seen'[p] = EmptyView
      BY <1>0, <1>6, <3>1, <3>2 DEF Goto, Fields
    <3> QED
      BY <3>3
  <2>4. CASE Acquire(p) \/ AddWrite(p) \/ RemoveWrite(p) \/ Look(p)
    <3>1. pc[p] \notin {"read", "done"} /\ seen' = seen
      BY <2>4 DEF Acquire, AddWrite, RemoveWrite, Look
    <3>2. pc'[p] # "read"
      BY <1>0, <2>4 DEF Acquire, AddWrite, RemoveWrite, Look, Goto, Fields
    <3> QED
      BY <1>6, <3>1, <3>2
  <2>5. CASE GrowLock(p)
    BY <1>6, <2>5 DEF GrowLock
  <2>6. CASE GrowUnlock(p) \/ SnapPanic(p)
    <3>1. pc' = pc /\ next' = next /\ seen' = seen
      BY <2>6 DEF GrowUnlock, SnapPanic
    <3> HIDE DEF At
    <3> QED
      BY <1>4, <3>1
  <2>7. CASE SnapEnd(p)
    <3>1. pc'[p] = "done"
      BY <1>0, <2>7 DEF SnapEnd, Goto, Fields
    <3> QED
      BY <3>1
  <2>8. CASE Return(p)
    <3>1. pc'[p] = "idle" /\ seen'[p] = EmptyView
      BY <1>0, <2>8 DEF Return, Goto, Fields
    <3> QED
      BY <3>1
  <2> HIDE DEF At
  <2> QED
    BY <1>1, <2>1, <2>2, <2>3, <2>4, <2>5, <2>6, <2>7, <2>8 DEF Step, LockStep, FreeStep
<1>8. \A r \in Proc : At(r)'
  BY <1>5, <1>7
<1> QED
  BY <1>8 DEF Watched

-----------------------------------------------------------------------------
(* The theorems.                                                           *)

\* The empty map, with nobody at work, has it all.
LEMMA Beginning ==
    ASSUME Init
    PROVE  Inv /\ Watched
<1>1. Chained
  <2>1. \A b \in Bucket : <<>> \in Seq(EntryIn(b))
    OBVIOUS
  <2> QED
    BY <2>1 DEF Init, Chained
<1>2. Fields
  <2>1. EmptyView \in View
    BY DEF EmptyView, View
  <2>2. 0 \in 0 .. Threshold + 1 /\ 0 \in 0 .. Buckets
    BY Stripes
  <2> QED
    BY <1>1, <2>1, <2>2 DEF Init, Fields, Stage
<1>3. Locked
  BY DEF Init, Locked, LockedAt
<1>4. Lost
  BY Stripes DEF Init, Lost
<1>5. Watched
  BY DEF Init, Watched
<1> QED
  BY <1>2, <1>3, <1>4, <1>5 DEF Inv

\* The chains hold entries of their buckets, whatever the goroutines do.
LEMMA TypesFit ==
    ASSUME Fields
    PROVE  TypeOK
<1>1. DOMAIN chain = Bucket
  BY DEF Fields, Chained
<1>2. ASSUME NEW b \in Bucket, NEW i \in 1 .. Len(chain[b])
      PROVE  chain[b][i] \in Entry /\ BucketOf[chain[b][i].key] = b
  <2>1. chain[b] \in Seq(EntryIn(b))
    BY DEF Fields, Chained
  <2>2. chain[b][i] \in EntryIn(b)
    BY <1>2, <2>1
  <2> QED
    BY <2>2 DEF EntryIn
<1> QED
  BY <1>1, <1>2 DEF Fields, TypeOK

\* What ToMap has of the stripes it holds is what is in their buckets.
LEMMA WatchedStable ==
    ASSUME Inv, Watched
    PROVE  ReadTrue
<1>1. SUFFICES ASSUME NEW p \in Proc, pc[p] = "read", NEW b \in 0 .. next[p] - 1,
                      LockOf(b) < Locks - 1, NEW k \in Key, BucketOf[k] = b
               PROVE  seen[p][k] = Overlay(EmptyView, chain[b])[k]
  BY DEF ReadTrue
<1>2. next[p] \in Nat
  BY Stripes DEF Inv, Fields
<1>3. BucketOf[k] < next[p] /\ StripeOf(k) < Locks - 1
  BY <1>1, <1>2 DEF StripeOf
<1> QED
  BY <1>1, <1>3 DEF Watched

\* Whatever the goroutines call, the chains hold entries of their buckets, and no
\* stripe counts more than one addition over its threshold (the whole package).
THEOREM TypeCorrect == Spec => []TypeOK
<1>1. Init => Inv
  BY Beginning
<1>2. Inv /\ [Next]_vars => Inv'
  BY FieldsStep, LockedStep, LostStep DEF Inv
<1>3. Inv => TypeOK
  BY TypesFit DEF Inv
<1> QED
  BY <1>1, <1>2, <1>3, PTL DEF Spec

\* While ToMap reads, the buckets whose stripes it has locked do not change under
\* it, read or not, and what it has collected of them is what is in them (ToMap,
\* _acquireAllLocks, _addInternal, _remove).
THEOREM SnapshotsHold == Spec => SnapshotStable
<1>1. Init => Inv /\ Watched
  BY Beginning
<1>2. Inv /\ Watched /\ [Next]_vars => (Inv /\ Watched)'
  BY FieldsStep, LockedStep, LostStep, WatchedStep DEF Inv
<1>3. Inv /\ Watched => ReadTrue
  BY WatchedStable
<1>4. Inv /\ [Next]_vars => Undisturbed
  BY ReadUndisturbed
<1> QED
  BY <1>1, <1>2, <1>3, <1>4, PTL DEF Spec, SnapshotStable

-----------------------------------------------------------------------------
(* Goroutines do not wait for each other in a circle.                      *)

\* Which locks a goroutine may have at each stage.
HoldsAt(p) ==
    \A l \in Lock : holder[l] = p =>
        \/ pc[p] = "write" /\ l = StripeOf(call[p].key)
        \/ pc[p] = "lockAll" /\ l < next[p]
        \/ pc[p] = "read" /\ l < LocksTaken
        \/ pc[p] = "grow"
Holding == \A p \in Proc : HoldsAt(p)

\* Nobody gets a lock by a step of another goroutine.
LEMMA OthersTakeNone ==
    ASSUME Inv, NEW p \in Proc, Step(p), NEW q \in Proc, q # p,
           NEW l \in Lock, holder'[l] = q
    PROVE  holder[l] = q
<1>0. Fields /\ None \notin Proc
  BY Stripes DEF Inv
<1>1. CASE Acquire(p) \/ GrowLock(p) \/ SnapLock(p)
  BY <1>0, <1>1 DEF Acquire, GrowLock, SnapLock, Fields
<1>2. CASE holder' = holder \/ Release(p)
  BY <1>0, <1>2 DEF Release, Fields
<1>3. \/ Acquire(p) \/ GrowLock(p) \/ SnapLock(p)
      \/ holder' = holder \/ Release(p)
  BY DEF Step, LockStep, FreeStep, Invoke, GrowUnlock, AddWrite, RemoveWrite, SnapRead, SnapPanic,
         SnapEnd, ReleaseAll, Look, Return
<1> QED
  BY <1>1, <1>2, <1>3

\* Who has let its locks go has none.
LEMMA ReleasedHasNone ==
    ASSUME Fields, NEW p \in Proc, Release(p)
    PROVE  \A l \in Lock : holder'[l] # p
<1>1. None \notin Proc
  BY Stripes
<1> QED
  BY <1>1 DEF Release, Fields

\* Each step keeps the locks to the stages.
LEMMA HoldingStep ==
    ASSUME Inv, Holding, [Next]_vars
    PROVE  Holding'
<1>0. Fields /\ Locked /\ None \notin Proc
  BY Stripes DEF Inv
<1>1. SUFFICES ASSUME NEW p \in Proc, Step(p) PROVE Holding'
  <2>1. CASE UNCHANGED vars
    BY <2>1 DEF vars, Holding, HoldsAt
  <2> QED
    BY <1>1, <2>1 DEF Next, Step
<1>2. ASSUME NEW q \in Proc, q # p PROVE HoldsAt(q)'
  <2>1. pc'[q] = pc[q] /\ call'[q] = call[q] /\ next'[q] = next[q]
    BY <1>1, <1>2, OthersStay
  <2>2. \A l \in Lock : holder'[l] = q => holder[l] = q
    BY <1>1, <1>2, OthersTakeNone
  <2> QED
    BY <2>1, <2>2 DEF Holding, HoldsAt
<1>3. HoldsAt(p)
  BY DEF Holding
<1>4. \A st : Goto(p, st) => pc'[p] = st
  BY <1>0 DEF Goto, Fields
<1>5. next[p] \in Nat /\ LocksTaken \in Nat /\ \A l \in Lock : l \in Nat
  BY <1>0, Stripes DEF Fields, Lock
<1>6. HoldsAt(p)'
  <2>1. CASE Invoke(p)
    BY <1>3, <2>1 DEF Invoke, HoldsAt
  <2>2. CASE Acquire(p)
    <3>1. \A l \in Lock : holder[l] # p
      BY <1>3, <2>2 DEF Acquire, HoldsAt
    <3>2. CASE holder' = holder
      BY <3>1, <3>2 DEF HoldsAt
    <3>3. CASE holder' # holder
      <4>1. /\ holder' = [holder EXCEPT ![StripeOf(call[p].key)] = p]
            /\ pc'[p] = "write" /\ call' = call
        BY <1>4, <2>2, <3>3 DEF Acquire
      <4> QED
        BY <1>0, <3>1, <4>1 DEF HoldsAt, Fields
    <3> QED
      BY <3>2, <3>3
  <2>3. CASE AddWrite(p)
    <3>1. pc'[p] = "grow" \/ Release(p)
      BY <1>4, <2>3 DEF AddWrite
    <3> QED
      BY <1>0, <3>1, ReleasedHasNone DEF HoldsAt
  <2>4. CASE RemoveWrite(p)
    BY <1>0, <2>4, ReleasedHasNone DEF RemoveWrite, HoldsAt
  <2>5. CASE GrowLock(p) \/ GrowUnlock(p)
    BY <2>5 DEF GrowLock, GrowUnlock, HoldsAt
  <2>6. CASE SnapLock(p)
    <3>1. \A l \in Lock : holder[l] = p => l < next[p]
      BY <1>3, <2>6 DEF SnapLock, HoldsAt
    <3>2. CASE next[p] < LocksTaken
      <4>1. /\ pc'[p] = "lockAll" /\ next'[p] = next[p] + 1
            /\ holder' = [holder EXCEPT ![next[p]] = p]
        BY <1>0, <2>6, <3>2 DEF SnapLock, Fields
      <4>2. \A l \in Lock : holder'[l] = p => l = next[p] \/ holder[l] = p
        BY <1>0, <4>1 DEF Fields
      <4>3. \A l \in Lock : holder'[l] = p => l < next[p] + 1
        BY <1>5, <3>1, <4>2
      <4> QED
        BY <4>1, <4>3 DEF HoldsAt
    <3>3. CASE ~ (next[p] < LocksTaken)
      <4>1. pc'[p] = "read" /\ holder' = holder /\ next[p] <= LocksTaken
        BY <1>0, <1>4, <2>6, <3>3 DEF SnapLock, Locked, LockedAt
      <4>2. \A l \in Lock : holder'[l] = p => l < LocksTaken
        BY <1>5, <3>1, <4>1
      <4> QED
        BY <4>1, <4>2 DEF HoldsAt
    <3> QED
      BY <3>2, <3>3
  <2>7. CASE SnapRead(p) \/ SnapPanic(p)
    <3>1. pc[p] = "read" /\ pc' = pc /\ holder' = holder
      BY <2>7 DEF SnapRead, SnapPanic
    <3> QED
      BY <1>3, <3>1 DEF HoldsAt
  <2>8. CASE SnapEnd(p)
    BY <1>0, <2>8, ReleasedHasNone DEF SnapEnd, ReleaseAll, HoldsAt
  <2>9. CASE Look(p)
    BY <1>3, <2>9 DEF Look, HoldsAt
  <2>10. CASE Return(p)
    BY <1>3, <2>10 DEF Return, HoldsAt
  <2> QED
    BY <1>1, <2>1, <2>2, <2>3, <2>4, <2>5, <2>6, <2>7, <2>8, <2>9, <2>10
       DEF Step, LockStep, FreeStep
<1> QED
  BY <1>2, <1>6 DEF Holding

\* Who waits for a lock has only locks before it, and who has returned has none:
\* goroutines outside resize do not deadlock, however many there are (acquireLock,
\* _acquireAllLocks, _releaseAllLocks).
THEOREM NoCircularWait == Spec => []LocksInOrder
<1>1. Init => Inv /\ Holding
  <2>1. Init => Holding
    BY Stripes DEF Init, Holding, HoldsAt
  <2> QED
    BY <2>1, Beginning
<1>2. Inv /\ Holding /\ [Next]_vars => (Inv /\ Holding)'
  BY FieldsStep, LockedStep, LostStep, HoldingStep DEF Inv
<1>3. Holding => LocksInOrder
  BY DEF Holding, HoldsAt, LocksInOrder, Awaited
<1> QED
  BY <1>1, <1>2, <1>3, PTL DEF Spec

-----------------------------------------------------------------------------
(* What becomes of a stripe that counts more than its threshold.           *)

\* Whoever resizes does so for a stripe over its threshold, whose lock it has had
\* since it added the key, and never gets past that lock: it takes the locks in
\* their order.
Waits(p) ==
    LET l == StripeOf(call[p].key) IN
    pc[p] = "grow" => /\ call[p].key \in Key
                      /\ Overfull(lockCount[l])
                      /\ holder[l] = p
                      /\ next[p] <= l
ResizeWaits == \A p \in Proc : Waits(p)

\* Only a resize for the last stripe, whose lock it does not take, has all locks.
OnlyTheLast ==
    \A p \in Proc :
        pc[p] = "grow" /\ next[p] = LocksTaken => StripeOf(call[p].key) = LocksTaken

\* A stripe over its threshold stays locked by the goroutine that has it.
StripesAreLost ==
    [][\A l \in Lock : Overfull(lockCount[l]) =>
          holder[l] \in Proc /\ holder'[l] = holder[l]]_vars

\* No step takes an addition from a stripe's count.
LEMMA CountsGrow ==
    ASSUME Inv, NEW p \in Proc, Step(p), NEW l \in Lock, Overfull(lockCount[l])
    PROVE  Overfull(lockCount'[l])
<1>0. Fields /\ Threshold \in Nat
  BY DictionaryAssumption DEF Inv
<1>1. CASE AddWrite(p)
  <2> DEFINE d == StripeOf(call[p].key)
  <2>1. lockCount' = [lockCount EXCEPT ![d] = lockCount[d] + 1]
    BY <1>1 DEF AddWrite
  <2> HIDE DEF d
  <2>2. lockCount'[l] = lockCount[l] \/ lockCount'[l] = lockCount[l] + 1
    BY <1>0, <2>1 DEF Fields
  <2>3. lockCount[l] \in Nat
    BY <1>0 DEF Fields
  <2> QED
    BY <1>0, <2>2, <2>3 DEF Overfull
<1>2. CASE ~ AddWrite(p)
  <2>1. lockCount' = lockCount
    BY <1>2 DEF Step, LockStep, FreeStep, Invoke, Acquire, GrowLock, GrowUnlock, SnapLock,
                RemoveWrite, SnapRead, SnapPanic, SnapEnd, Look, Return
  <2> QED
    BY <2>1
<1> QED
  BY <1>1, <1>2

\* A goroutine that resizes does not come out of it, nor lets a lock go.
LEMMA GrowsOn ==
    ASSUME Inv, NEW p \in Proc, Step(p), NEW q \in Proc, pc[q] = "grow"
    PROVE  /\ pc'[q] = "grow" /\ call'[q] = call[q]
           /\ \A l \in Lock : holder[l] = q => holder'[l] = q
<1>1. CASE q # p
  BY <1>1, OthersStay
<1>2. CASE q = p
  <2>1. GrowLock(p) \/ GrowUnlock(p)
    BY <1>2 DEF Step, LockStep, FreeStep, Invoke, Acquire, SnapLock, AddWrite,
                RemoveWrite, SnapRead, SnapPanic, SnapEnd, Look, Return
  <2>2. Fields
    BY DEF Inv
  <2> QED
    BY <1>2, <2>1, <2>2 DEF GrowLock, GrowUnlock, Fields
<1> QED
  BY <1>1, <1>2

\* Each step keeps who resizes before its own lock.
LEMMA WaitsStep ==
    ASSUME Inv, ResizeWaits, [Next]_vars
    PROVE  ResizeWaits'
<1>0. Fields /\ Locked /\ None \notin Proc
  BY Stripes DEF Inv
<1>1. SUFFICES ASSUME NEW p \in Proc, Step(p) PROVE ResizeWaits'
  <2>1. CASE UNCHANGED vars
    BY <2>1 DEF vars, ResizeWaits, Waits
  <2> QED
    BY <1>1, <2>1 DEF Next, Step
<1>2. SUFFICES ASSUME NEW q \in Proc, pc'[q] = "grow" PROVE Waits(q)'
  BY DEF ResizeWaits, Waits
<1>3. CASE pc[q] = "grow"
  <2> DEFINE k == call[q].key
             l == StripeOf(k)
  <2>1. k \in Key /\ Overfull(lockCount[l]) /\ holder[l] = q /\ next[q] <= l
    BY <1>3 DEF ResizeWaits, Waits
  <2>2. l \in Lock /\ l \in Nat
    BY <2>1, Stripes DEF Lock
  <2>3. Overfull(lockCount'[l])
    BY <1>1, <2>1, <2>2, CountsGrow
  <2>4. call'[q] = call[q] /\ holder'[l] = q
    BY <1>1, <1>3, <2>1, <2>2, GrowsOn
  <2>5. next'[q] <= l
    <3>1. CASE next'[q] = next[q]
      BY <2>1, <3>1
    <3>2. CASE next'[q] # next[q]
      <4>1. q = p
        BY <1>1, <3>2, OthersStay
      <4>2. GrowLock(p)
        BY <1>1, <1>3, <3>2, <4>1 DEF Step, LockStep, FreeStep, Invoke, Acquire, SnapLock,
                AddWrite, RemoveWrite, GrowUnlock, SnapRead, SnapPanic, SnapEnd, Look, Return
      <4>3. holder[next[q]] = None /\ next'[q] = next[q] + 1 /\ next[q] \in Nat
        BY <1>0, <4>1, <4>2 DEF GrowLock, Fields
      <4>4. next[q] # l
        BY <1>0, <2>1, <4>3
      <4> HIDE DEF l
      <4> QED
        BY <2>1, <2>2, <4>3, <4>4
    <3> QED
      BY <3>1, <3>2
  <2> QED
    BY <2>1, <2>3, <2>4, <2>5 DEF Waits
<1>4. CASE pc[q] # "grow"
  <2> DEFINE k == call[q].key
             l == StripeOf(k)
  <2>1. q = p
    BY <1>1, <1>2, <1>4, OthersStay
  <2>2. AddWrite(p)
    <3>1. \A c \in Call : FirstStage[c.op] # "grow"
      BY DEF FirstStage, Call
    <3>2. \A st : Goto(p, st) => pc'[p] = st
      BY <1>0 DEF Goto, Fields
    <3>3. ~ Invoke(p)
      BY <1>2, <2>1, <3>1, <3>2 DEF Invoke
    <3> QED
      BY <1>1, <1>2, <1>4, <2>1, <3>2, <3>3
         DEF Step, LockStep, FreeStep, Acquire, GrowLock, GrowUnlock, SnapLock, RemoveWrite,
             SnapRead, SnapPanic, SnapEnd, Look, Return
  <2>3. k \in Key /\ holder[l] = q /\ l \in Nat /\ l \in Lock
    BY <1>0, <2>1, <2>2, Stripes DEF AddWrite, Locked, LockedAt, Lock
  <2>4. /\ call' = call
        /\ \/ Overfull(lockCount'[l]) /\ next' = [next EXCEPT ![p] = 0] /\ holder' = holder
           \/ Goto(p, "done")
    BY <2>1, <2>2 DEF AddWrite
  <2>5. ~ Goto(p, "done")
    BY <1>0, <1>2, <2>1 DEF Goto, Fields
  <2>6. Overfull(lockCount'[l]) /\ next'[q] = 0 /\ holder' = holder
    BY <1>0, <2>1, <2>4, <2>5 DEF Fields
  <2> QED
    BY <2>3, <2>4, <2>6 DEF Waits
<1> QED
  BY <1>3, <1>4

\* No map is resized below the threshold, and no resize of a stripe other than
\* the last, whose lock it does not take, ever has all its locks: it comes to its
\* own, which the caller TryAdd holds (_addInternal, resize).
THEOREM ResizeStopsAtItsLock == Spec => [](ResizeWaits /\ OnlyTheLast)
<1>1. Init => Inv /\ ResizeWaits
  BY Beginning DEF Init, ResizeWaits, Waits
<1>2. Inv /\ ResizeWaits /\ [Next]_vars => (Inv /\ ResizeWaits)'
  BY FieldsStep, LockedStep, LostStep, WaitsStep DEF Inv
<1>3. ResizeWaits => OnlyTheLast
  <2> SUFFICES ASSUME ResizeWaits, NEW p \in Proc, pc[p] = "grow", next[p] = LocksTaken
               PROVE  StripeOf(call[p].key) = LocksTaken
    BY DEF OnlyTheLast
  <2> DEFINE l == StripeOf(call[p].key)
  <2>1. l \in Lock /\ LocksTaken <= l /\ LocksTaken = Locks - 1 /\ LocksTaken \in Nat
    BY Stripes DEF ResizeWaits, Waits
  <2> HIDE DEF l
  <2>2. l = LocksTaken
    BY <2>1 DEF Lock
  <2> QED
    BY <2>2 DEF l
<1> QED
  BY <1>1, <1>2, <1>3, PTL DEF Spec

\* From the addition on that takes a stripe over its threshold, its lock is never
\* free again: no TryAdd or TryRemove of its keys and, but for the last stripe, no
\* ToMap completes any more (_addInternal, resize).
THEOREM StripesStayLocked == Spec => StripesAreLost
<1> DEFINE Kept == \A l \in Lock : Overfull(lockCount[l]) =>
                      holder[l] \in Proc /\ holder'[l] = holder[l]
<1>1. Init => Inv
  BY Beginning
<1>2. Inv /\ [Next]_vars => Inv'
  BY FieldsStep, LockedStep, LostStep DEF Inv
<1>3. Inv /\ [Next]_vars => [Kept]_vars
  <2>1. SUFFICES ASSUME Inv, NEW p \in Proc, Step(p), NEW l \in Lock, Overfull(lockCount[l])
                 PROVE  holder[l] \in Proc /\ holder'[l] = holder[l]
    BY DEF Next, Step
  <2>2. PICK q \in Proc : pc[q] = "grow" /\ holder[l] = q
    BY <2>1 DEF Inv, Lost, Overfull
  <2> QED
    BY <2>1, <2>2, GrowsOn
<1> QED
  BY <1>1, <1>2, <1>3, PTL DEF Spec, StripesAreLost

-----------------------------------------------------------------------------
(* The dictionary implements an atomic map.                                *)

\* No key is twice in a chain.
Unique(s) == \A i, j \in 1 .. Len(s) : s[i].key = s[j].key => i = j

\* Each stage has its call, and a writer of TryAdd has found its key absent; no
\* guarded key is twice in the table.
CallAt(p) ==
    /\ pc[p] = "idle" => call[p] = None
    /\ pc[p] # "idle" => call[p] \in Call
    /\ pc[p] \in {"want", "write"} => call[p].op \in Changes
    /\ pc[p] = "grow" => call[p].op = "add"
    /\ pc[p] = "look" => call[p].op = "get"
    /\ pc[p] \in {"lockAll", "read"} => call[p].op = "toMap"
    /\ pc[p] = "write" /\ call[p].op = "add" /\ call[p].key \in Guarded =>
          call[p].key \notin KeysOf(chain[BucketOf[call[p].key]])
Called == \A p \in Proc : CallAt(p)
Single == \A b \in Bucket : b < Locks - 1 => Unique(chain[b])

\* The value a chain has for a key.
At(s, k) == IF k \in KeysOf(s) THEN s[NewestAt(s, k)].val ELSE None

\* In a chain without doubles there is one place to find a key.
LEMMA OnePlace ==
    ASSUME NEW S, NEW s \in Seq(S), Unique(s), NEW i \in 1 .. Len(s)
    PROVE  /\ s[i].key \in KeysOf(s)
           /\ NewestAt(s, s[i].key) = i /\ OldestAt(s, s[i].key) = i
           /\ At(s, s[i].key) = s[i].val
<1> DEFINE k == s[i].key
<1>1. k \in KeysOf(s)
  BY DEF KeysOf, Range
<1>2. {j \in 1 .. Len(s) : s[j].key = k} = {i}
  BY DEF Unique
<1>3. {i} \in SUBSET Nat /\ {i} # {} /\ {i} \in SUBSET (0 .. Len(s)) /\ Len(s) \in Nat
  OBVIOUS
<1>4. Min({i}) = i /\ Max({i}) = i
  BY <1>3, MinLeast, MaxGreatest
<1> QED
  BY <1>1, <1>2, <1>4 DEF NewestAt, OldestAt, At

\* An entry of a new key at the head adds the key and changes no other.
LEMMA Pushed ==
    ASSUME NEW S, NEW s \in Seq(S), Unique(s), NEW e \in S, e.key \notin KeysOf(s)
    PROVE  LET w == <<e>> \o s IN
           /\ Unique(w)
           /\ At(w, e.key) = e.val
           /\ \A k : k # e.key => At(w, k) = At(s, k)
<1> DEFINE w == <<e>> \o s
<1>1. w \in Seq(S) /\ Len(w) = Len(s) + 1 /\ Len(s) \in Nat
  BY ConcatProperties
<1>2. w[1] = e /\ \A i \in 1 .. Len(s) : w[i + 1] = s[i]
  OBVIOUS
<1> HIDE DEF w
<1>3. \A i \in 1 .. Len(w) : i = 1 \/ (i - 1 \in 1 .. Len(s) /\ w[i] = s[i - 1])
  <2> TAKE i \in 1 .. Len(w)
  <2>1. CASE i # 1
    <3>1. i - 1 \in 1 .. Len(s) /\ (i - 1) + 1 = i
      BY <1>1, <2>1
    <3> QED
      BY <1>2, <3>1
  <2> QED
    BY <2>1
<1>4. \A i \in 1 .. Len(s) : s[i].key # e.key
  BY DEF KeysOf, Range
<1>5. Unique(w)
  <2> SUFFICES ASSUME NEW i \in 1 .. Len(w), NEW j \in 1 .. Len(w), w[i].key = w[j].key
               PROVE  i = j
    BY DEF Unique
  <2>1. CASE i = 1 \/ j = 1
    BY <1>2, <1>3, <1>4, <2>1
  <2>2. CASE i # 1 /\ j # 1
    <3>1. i - 1 \in 1 .. Len(s) /\ j - 1 \in 1 .. Len(s) /\ s[i - 1].key = s[j - 1].key
      BY <1>3, <2>2
    <3>2. i - 1 = j - 1
      BY <3>1 DEF Unique
    <3> QED
      BY <1>1, <3>2
  <2> QED
    BY <2>1, <2>2
<1>6. At(w, e.key) = e.val
  <2>1. 1 \in 1 .. Len(w)
    BY <1>1
  <2> QED
    BY <1>1, <1>2, <1>5, <2>1, OnePlace
<1>7. ASSUME NEW k, k # e.key PROVE At(w, k) = At(s, k)
  <2>1. CASE k \in KeysOf(s)
    <3>1. PICK i \in 1 .. Len(s) : s[i].key = k
      BY <2>1 DEF KeysOf, Range
    <3>2. i + 1 \in 1 .. Len(w) /\ w[i + 1] = s[i]
      BY <1>1, <1>2
    <3>3. At(s, k) = s[i].val /\ At(w, k) = w[i + 1].val
      BY <1>1, <1>5, <3>1, <3>2, OnePlace
    <3> QED
      BY <3>2, <3>3
  <2>2. CASE k \notin KeysOf(s)
    <3>1. k \notin KeysOf(w)
      <4> SUFFICES ASSUME k \in KeysOf(w) PROVE FALSE
        OBVIOUS
      <4>1. PICK i \in 1 .. Len(w) : w[i].key = k
        BY <1>1 DEF KeysOf, Range
      <4>2. i - 1 \in 1 .. Len(s) /\ s[i - 1].key = k
        BY <1>2, <1>3, <1>7, <4>1
      <4> QED
        BY <2>2, <4>2 DEF KeysOf, Range
    <3> QED
      BY <2>2, <3>1 DEF At
  <2> QED
    BY <2>1, <2>2
<1> QED
  BY <1>5, <1>6, <1>7 DEF w

\* Unlinking a key removes it and changes no other.
LEMMA Removed ==
    ASSUME NEW S, NEW s \in Seq(S), Unique(s), NEW key
    PROVE  LET w == Unlinked(s, key) IN
           /\ Unique(w)
           /\ At(w, key) = None
           /\ \A k : k # key => At(w, k) = At(s, k)
<1>1. CASE key \notin KeysOf(s)
  BY <1>1 DEF Unlinked, At
<1>2. CASE key \in KeysOf(s)
  <2> DEFINE n == NewestAt(s, key)
             w == Unlinked(s, key)
  <2>1. n \in 1 .. Len(s) /\ Len(s) \in Nat /\ w \in Seq(S)
    BY <1>2, Places, UnlinkedType
  <2>2. s[n].key = key
    <3>1. PICK i \in 1 .. Len(s) : s[i].key = key
      BY <1>2 DEF KeysOf, Range
    <3> QED
      BY <3>1, OnePlace
  <2>3. w = SubSeq(s, 1, n - 1) \o SubSeq(s, n + 1, Len(s))
    BY <1>2 DEF Unlinked, RemoveAt
  <2> HIDE DEF n, w
  <2>4. /\ SubSeq(s, 1, n - 1) \in Seq(S) /\ Len(SubSeq(s, 1, n - 1)) = n - 1
        /\ \A i \in 1 .. n - 1 : SubSeq(s, 1, n - 1)[i] = s[i]
    <3>1. \A i \in 1 .. n - 1 : s[i] \in S
      BY <2>1
    <3> QED
      BY <2>1, <3>1, SubSeqProperties
  <2>5. /\ SubSeq(s, n + 1, Len(s)) \in Seq(S) /\ Len(SubSeq(s, n + 1, Len(s))) = Len(s) - n
        /\ \A i \in 1 .. Len(s) - n : SubSeq(s, n + 1, Len(s))[i] = s[n + i]
    <3>1. \A i \in n + 1 .. Len(s) : s[i] \in S
      BY <2>1
    <3>2. /\ SubSeq(s, n + 1, Len(s)) \in Seq(S)
          /\ Len(SubSeq(s, n + 1, Len(s))) = IF n + 1 <= Len(s) THEN Len(s) - (n + 1) + 1 ELSE 0
          /\ \A i \in 1 .. Len(s) - (n + 1) + 1 : SubSeq(s, n + 1, Len(s))[i] = s[(n + 1) + i - 1]
      BY <2>1, <3>1, SubSeqProperties
    <3> QED
      BY <2>1, <3>2
  <2>6. Len(w) = Len(s) - 1 /\ \A i \in 1 .. Len(w) : w[i] = IF i < n THEN s[i] ELSE s[i + 1]
    <3> DEFINE l == SubSeq(s, 1, n - 1)
               r == SubSeq(s, n + 1, Len(s))
    <3>1. Len(w) = Len(l) + Len(r) /\ \A i \in 1 .. Len(l) + Len(r) :
              w[i] = IF i <= Len(l) THEN l[i] ELSE r[i - Len(l)]
      BY <2>3, <2>4, <2>5, ConcatProperties
    <3>2. Len(l) = n - 1 /\ Len(r) = Len(s) - n
      BY <2>4, <2>5
    <3> HIDE DEF l, r
    <3>3. Len(w) = Len(s) - 1
      BY <2>1, <3>1, <3>2
    <3>4. ASSUME NEW i \in 1 .. Len(w) PROVE w[i] = IF i < n THEN s[i] ELSE s[i + 1]
      <4>1. CASE i < n
        <5>1. i \in 1 .. n - 1 /\ i <= Len(l) /\ i \in 1 .. Len(l) + Len(r)
          BY <2>1, <3>1, <3>2, <4>1
        <5> QED
          BY <2>4, <3>1, <4>1, <5>1 DEF l
      <4>2. CASE ~ (i < n)
        <5>1. /\ ~ (i <= Len(l)) /\ i \in 1 .. Len(l) + Len(r)
              /\ i - Len(l) \in 1 .. Len(s) - n /\ n + (i - Len(l)) = i + 1
          BY <2>1, <3>1, <3>2, <3>3, <4>2
        <5> QED
          BY <2>5, <3>1, <4>2, <5>1 DEF r
      <4> QED
        BY <4>1, <4>2
    <3> QED
      BY <3>3, <3>4
  <2> DEFINE from(i) == IF i < n THEN i ELSE i + 1
  <2>7. \A i \in 1 .. Len(w) : from(i) \in 1 .. Len(s) /\ from(i) # n /\ w[i] = s[from(i)]
    BY <2>1, <2>6
  <2>8. Unique(w)
    <3> SUFFICES ASSUME NEW i \in 1 .. Len(w), NEW j \in 1 .. Len(w), w[i].key = w[j].key
                 PROVE  i = j
      BY DEF Unique
    <3>1. from(i) = from(j)
      BY <2>7 DEF Unique
    <3> QED
      BY <2>1, <3>1
  <2>9. key \notin KeysOf(w)
    <3> SUFFICES ASSUME key \in KeysOf(w) PROVE FALSE
      OBVIOUS
    <3>1. PICK i \in 1 .. Len(w) : w[i].key = key
      BY <2>1 DEF KeysOf, Range
    <3> QED
      BY <2>1, <2>2, <2>7, <3>1 DEF Unique
  <2>10. ASSUME NEW k, k # key PROVE At(w, k) = At(s, k)
    <3>1. CASE k \in KeysOf(s)
      <4>1. PICK i \in 1 .. Len(s) : s[i].key = k
        BY <3>1 DEF KeysOf, Range
      <4>2. i # n
        BY <2>2, <2>10, <4>1
      <4>3. PICK j \in 1 .. Len(w) : from(j) = i
        <5>1. CASE i < n
          <6>1. i \in 1 .. Len(w) /\ from(i) = i
            BY <2>1, <2>6, <5>1
          <6> QED
            BY <6>1
        <5>2. CASE ~ (i < n)
          <6>1. i - 1 \in 1 .. Len(w) /\ from(i - 1) = i
            BY <2>1, <2>6, <4>2, <5>2
          <6> QED
            BY <6>1
        <5> QED
          BY <5>1, <5>2
      <4>4. w[j] = s[i]
        BY <2>7, <4>3
      <4>5. At(s, k) = s[i].val /\ At(w, k) = w[j].val
        BY <2>1, <2>8, <4>1, <4>4, OnePlace
      <4> QED
        BY <4>4, <4>5
    <3>2. CASE k \notin KeysOf(s)
      <4>1. k \notin KeysOf(w)
        <5> SUFFICES ASSUME k \in KeysOf(w) PROVE FALSE
          OBVIOUS
        <5>1. PICK i \in 1 .. Len(w) : w[i].key = k
          BY <2>1 DEF KeysOf, Range
        <5> QED
          BY <2>7, <3>2, <5>1 DEF KeysOf, Range
      <4> QED
        BY <3>2, <4>1 DEF At
    <3> QED
      BY <3>1, <3>2
  <2> QED
    BY <2>8, <2>9, <2>10 DEF At, w
<1> QED
  BY <1>1, <1>2

\* Nobody writes to a stripe that another goroutine holds to write.
LEMMA NoTwoWriters ==
    ASSUME Inv, NEW p \in Proc, pc[p] = "write", NEW q \in Proc, pc[q] = "write", q # p
    PROVE  BucketOf[call[q].key] # BucketOf[call[p].key]
<1>1. holder[StripeOf(call[p].key)] = p /\ holder[StripeOf(call[q].key)] = q
  BY DEF Inv, Locked, LockedAt
<1> QED
  BY <1>1 DEF StripeOf

\* A guarded key's bucket is the one it is looked for in.
LEMMA GuardedAt ==
    /\ \A k \in Guarded : /\ k \in Key /\ BucketOf[k] \in Bucket /\ BucketOf[k] < Locks - 1
                          /\ StripeOf(k) = BucketOf[k] /\ SearchedBucket(k) = BucketOf[k]
    /\ \A k \in Key : k \notin Guarded => ~ (BucketOf[k] < Locks - 1)
<1>1. ASSUME NEW k \in Guarded PROVE StripeOf(k) = BucketOf[k]
  <2> DEFINE b == BucketOf[k]
  <2>1. k \in Key /\ b < Locks - 1
    BY DEF Guarded
  <2>2. b \in Nat /\ Locks \in Nat /\ Locks >= 2
    BY <2>1, Stripes
  <2> HIDE DEF b
  <2>3. (b % Locks) = b
    BY <2>1, <2>2
  <2> QED
    BY <2>3 DEF b, StripeOf, LockOf
<1> QED
  BY <1>1, Stripes DEF Guarded, SearchedBucket

\* Every step keeps each stage with its call.
LEMMA CalledStep ==
    ASSUME Inv, Called, Single, [Next]_vars
    PROVE  Called'
<1>0. Fields /\ Locked
  BY DEF Inv
<1>1. SUFFICES ASSUME NEW p \in Proc, Step(p) PROVE Called'
  <2>1. CASE UNCHANGED vars
    BY <2>1 DEF vars, Called, CallAt
  <2> QED
    BY <1>1, <2>1 DEF Next, Step
<1>2. ASSUME NEW q \in Proc, q # p PROVE CallAt(q)'
  <2>1. pc'[q] = pc[q] /\ call'[q] = call[q]
    BY <1>1, <1>2, OthersStay
  <2>2. CallAt(q)
    BY DEF Called
  <2>3. ASSUME pc[q] = "write" PROVE chain'[BucketOf[call[q].key]] = chain[BucketOf[call[q].key]]
    <3>1. CASE chain' = chain
      BY <3>1
    <3>2. CASE chain' # chain
      <4>1. AddWrite(p) \/ RemoveWrite(p)
        BY <1>1, <3>2 DEF Step, LockStep, FreeStep, Invoke, Acquire, GrowLock, GrowUnlock,
                          SnapLock, SnapRead, SnapPanic, SnapEnd, Look, Return
      <4>2. /\ pc[p] = "write"
            /\ chain' = [chain EXCEPT ![BucketOf[call[p].key]] = Written(call[p])]
        BY <4>1 DEF AddWrite, RemoveWrite
      <4>3. BucketOf[call[q].key] # BucketOf[call[p].key]
        BY <1>2, <2>3, <4>2, NoTwoWriters
      <4>4. call[q].key \in Key
        BY <1>0, <2>3 DEF Locked, LockedAt
      <4> QED
        BY <1>0, <4>2, <4>3, <4>4, Stripes DEF Fields, Chained
    <3> QED
      BY <3>1, <3>2
  <2> QED
    BY <2>1, <2>2, <2>3 DEF CallAt
<1>3. CallAt(p) /\ pc[p] \in Stage
  BY <1>0 DEF Called, Fields
<1>4. CallAt(p)'
  <2>1. CASE Invoke(p)
    <3>1. PICK c \in Call : call'[p] = c /\ pc'[p] = FirstStage[c.op]
      BY <1>0, <2>1 DEF Invoke, Goto, Fields
    <3>2. /\ c.op \in Changes => FirstStage[c.op] = "want"
          /\ c.op = "get" => FirstStage[c.op] = "look"
          /\ c.op = "toMap" => FirstStage[c.op] = "lockAll"
          /\ c.op \in Changes \cup {"get", "toMap"}
      BY DEF Call, Changes, FirstStage
    <3> QED
      BY <3>1, <3>2 DEF CallAt, Changes
  <2>2. CASE Acquire(p)
    <3> DEFINE k == call[p].key
    <3>1. /\ pc[p] = "want" /\ call' = call /\ chain' = chain
          /\ \/ pc'[p] = "done"
             \/ pc'[p] = "write"
                  /\ (call[p].op = "add" => k \notin KeysOf(chain[SearchedBucket(k)]))
      BY <1>0, <2>2 DEF Acquire, Goto, Fields
    <3>2. k \in Guarded => SearchedBucket(k) = BucketOf[k]
      BY GuardedAt
    <3> QED
      BY <1>3, <3>1, <3>2 DEF CallAt
  <2>3. CASE AddWrite(p)
    <3>1. pc[p] = "write" /\ call[p].op = "add" /\ call' = call /\ pc'[p] \in {"grow", "done"}
      BY <1>0, <2>3 DEF AddWrite, Goto, Fields
    <3> QED
      BY <1>3, <3>1 DEF CallAt
  <2>4. CASE RemoveWrite(p) \/ Look(p) \/ SnapEnd(p)
    <3>1. pc[p] # "idle" /\ call' = call /\ pc'[p] = "done"
      BY <1>0, <2>4 DEF RemoveWrite, Look, SnapEnd, Goto, Fields
    <3> QED
      BY <1>3, <3>1 DEF CallAt
  <2>5. CASE GrowLock(p) \/ GrowUnlock(p) \/ SnapRead(p) \/ SnapPanic(p)
    BY <1>3, <2>5 DEF GrowLock, GrowUnlock, SnapRead, SnapPanic, CallAt
  <2>6. CASE SnapLock(p)
    <3>1. pc[p] = "lockAll" /\ call' = call /\ pc'[p] \in {"lockAll", "read"}
      BY <1>0, <2>6 DEF SnapLock, Goto, Fields
    <3> QED
      BY <1>3, <3>1 DEF CallAt
  <2>7. CASE Return(p)
    <3>1. pc'[p] = "idle" /\ call'[p] = None
      BY <1>0, <2>7 DEF Return, Goto, Fields
    <3> QED
      BY <3>1 DEF CallAt
  <2> QED
    BY <1>1, <2>1, <2>2, <2>3, <2>4, <2>5, <2>6, <2>7 DEF Step, LockStep, FreeStep
<1> QED
  BY <1>2, <1>4 DEF Called

\* What a write makes of a guarded bucket: it has no doubles, and differs in the
\* written key only.
LEMMA WrittenGuarded ==
    ASSUME Inv, Called, Single, NEW p \in Proc, pc[p] = "write", call[p].key \in Guarded
    PROVE  LET s == chain[BucketOf[call[p].key]]
               w == Written(call[p]) IN
           /\ Unique(w)
           /\ At(w, call[p].key) = call[p].val
           /\ \A k : k # call[p].key => At(w, k) = At(s, k)
<1> DEFINE c == call[p]
           b == BucketOf[c.key]
           s == chain[b]
<1>1. c \in Call /\ c.op \in Changes /\ b \in Bucket /\ b < Locks - 1
  BY GuardedAt DEF Inv, Locked, LockedAt
<1>2. s \in Seq(EntryIn(b)) /\ Unique(s)
  BY <1>1 DEF Inv, Fields, Chained, Single
<1>3. CASE c.op = "add"
  <2> DEFINE e == [key |-> c.key, val |-> c.val]
  <2>1. c.key \notin KeysOf(s)
    BY <1>3 DEF Called, CallAt
  <2>2. c.key \in Key /\ c.val \in Value
    BY <1>1, <1>3 DEF Call
  <2>3. e \in EntryIn(b) /\ e.key = c.key /\ e.val = c.val
    BY <2>2 DEF EntryIn, Entry
  <2>4. Written(c) = <<e>> \o s
    BY <1>3 DEF Written
  <2> HIDE DEF c, b, s, e
  <2>5. /\ Unique(<<e>> \o s) /\ At(<<e>> \o s, e.key) = e.val
        /\ \A k : k # e.key => At(<<e>> \o s, k) = At(s, k)
    BY <1>2, <2>1, <2>3, Pushed
  <2> QED
    BY <2>3, <2>4, <2>5 DEF c, b, s
<1>4. CASE c.op = "remove"
  <2>1. c.val = None
    BY <1>1, <1>4 DEF Call
  <2>2. Written(c) = Unlinked(s, c.key)
    BY <1>4 DEF Written
  <2> HIDE DEF c, b, s
  <2>3. /\ Unique(Unlinked(s, c.key)) /\ At(Unlinked(s, c.key), c.key) = None
        /\ \A k : k # c.key => At(Unlinked(s, c.key), k) = At(s, k)
    BY <1>2, Removed
  <2> QED
    BY <2>1, <2>2, <2>3 DEF c, b, s
<1> QED
  BY <1>1, <1>3, <1>4 DEF Changes

\* Every step keeps guarded chains without doubles.
LEMMA SingleStep ==
    ASSUME Inv, Called, Single, [Next]_vars
    PROVE  Single'
<1>1. CASE chain' = chain
  BY <1>1 DEF Single
<1>2. CASE chain' # chain
  <2>1. PICK p \in Proc : AddWrite(p) \/ RemoveWrite(p)
    BY <1>2 DEF Next, LockStep, FreeStep, Invoke, Acquire, GrowLock, GrowUnlock,
                SnapLock, SnapRead, SnapPanic, SnapEnd, Look, Return, vars
  <2> DEFINE k == call[p].key
             b == BucketOf[k]
  <2>2. pc[p] = "write" /\ chain' = [chain EXCEPT ![b] = Written(call[p])]
    BY <2>1 DEF AddWrite, RemoveWrite
  <2>3. k \in Key /\ b \in Bucket
    BY <2>2, Stripes DEF Inv, Locked, LockedAt
  <2>4. ASSUME NEW d \in Bucket, d < Locks - 1 PROVE Unique(chain'[d])
    <3>1. CASE d = b
      <4>1. k \in Guarded
        BY <2>3, <2>4, <3>1 DEF Guarded
      <4>2. Unique(Written(call[p]))
        BY <2>2, <4>1, WrittenGuarded
      <4>3. chain'[d] = Written(call[p])
        BY <2>2, <2>3, <3>1 DEF Inv, Fields, Chained
      <4> QED
        BY <4>2, <4>3
    <3>2. CASE d # b
      <4>1. chain'[d] = chain[d]
        BY <2>2, <2>4, <3>2 DEF Inv, Fields, Chained
      <4> QED
        BY <2>4, <4>1 DEF Single
    <3> QED
      BY <3>1, <3>2
  <2> QED
    BY <2>4 DEF Single
<1> QED
  BY <1>1, <1>2

\* The empty map, with nobody at work, has it all.
LEMMA CalledAtFirst ==
    ASSUME Init
    PROVE  Called /\ Single
<1>1. Called
  BY DEF Init, Called, CallAt
<1>2. Single
  <2>1. \A b \in Bucket : chain[b] = <<>>
    BY DEF Init
  <2>2. Len(<<>>) = 0 /\ 1 .. 0 = {}
    OBVIOUS
  <2> QED
    BY <2>1, <2>2 DEF Single, Unique
<1> QED
  BY <1>1, <1>2

-----------------------------------------------------------------------------
(* The abstract map that the table stands for.                             *)

\* The abstract state of one goroutine.
StageOf(p) == IF ~ OnGuarded(p) THEN "idle" ELSE IF InEffect(p) THEN "done" ELSE "called"
CallOf(p) == IF ~ OnGuarded(p) THEN None ELSE call[p]
RetOf(p) ==
    IF ~ OnGuarded(p) \/ ~ InEffect(p) THEN None
    ELSE IF call[p].op # "toMap" THEN ret[p]
    ELSE IF pc[p] = "read" THEN Contents
    ELSE [k \in Guarded |-> seen[p][k]]

\* The map has for a guarded key what its chain has.
LEMMA ContentsAt ==
    /\ Contents = [k \in Guarded |-> At(chain[BucketOf[k]], k)]
    /\ Contents' = [k \in Guarded |-> At(chain'[BucketOf[k]], k)]
BY DEF Contents, At

\* A step that leaves the guarded buckets alone leaves the map alone.
LEMMA ContentsStill ==
    ASSUME \A k \in Guarded : chain'[BucketOf[k]] = chain[BucketOf[k]]
    PROVE  Contents' = Contents
BY ContentsAt

\* A write sets its key in the map, if it is a guarded one.
LEMMA ContentsWritten ==
    ASSUME Inv, Called, Single, NEW p \in Proc, pc[p] = "write",
           chain' = [chain EXCEPT ![BucketOf[call[p].key]] = Written(call[p])]
    PROVE  /\ call[p].key \in Guarded =>
                 Contents' = [Contents EXCEPT ![call[p].key] = call[p].val]
           /\ call[p].key \notin Guarded => Contents' = Contents
<1> DEFINE key == call[p].key
           b == BucketOf[key]
           w == Written(call[p])
<1>1. key \in Key /\ b \in Bucket /\ DOMAIN chain = Bucket
  BY Stripes DEF Inv, Fields, Chained, Locked, LockedAt
<1>2. chain'[b] = w /\ \A d \in Bucket : d # b => chain'[d] = chain[d]
  BY <1>1
<1>3. CASE key \in Guarded
  <2>1. At(w, key) = call[p].val /\ \A k : k # key => At(w, k) = At(chain[b], k)
    BY <1>3, WrittenGuarded
  <2> HIDE DEF key, b, w
  <2>2. ASSUME NEW k \in Guarded
        PROVE  At(chain'[BucketOf[k]], k) =
                  IF k = key THEN call[p].val ELSE At(chain[BucketOf[k]], k)
    <3>1. CASE k = key
      BY <1>2, <2>1, <3>1 DEF b
    <3>2. CASE k # key
      <4>1. BucketOf[k] \in Bucket
        BY GuardedAt
      <4> QED
        BY <1>2, <2>1, <3>2, <4>1
    <3> QED
      BY <3>1, <3>2
  <2>3. Contents' = [k \in Guarded |-> IF k = key THEN call[p].val
                                                  ELSE At(chain[BucketOf[k]], k)]
    BY <2>2, ContentsAt
  <2>4. Contents' = [Contents EXCEPT ![key] = call[p].val]
    BY <2>3, ContentsAt
  <2> QED
    BY <1>3, <2>4 DEF key
<1>4. CASE key \notin Guarded
  <2>1. ~ (b < Locks - 1)
    BY <1>1, <1>4, GuardedAt
  <2> HIDE DEF key, b, w
  <2>2. \A k \in Guarded : BucketOf[k] \in Bucket /\ BucketOf[k] # b
    BY <2>1, GuardedAt
  <2>3. Contents' = Contents
    BY <1>2, <2>2, ContentsStill
  <2> QED
    BY <1>4, <2>3 DEF key
<1> QED
  BY <1>3, <1>4

\* A guarded key is in its chain just when the map has a value for it.
LEMMA ContentsHas ==
    ASSUME Fields, NEW k \in Guarded
    PROVE  Contents[k] # None <=> k \in KeysOf(chain[BucketOf[k]])
<1> DEFINE b == BucketOf[k]
           s == chain[b]
<1>1. b \in Bucket /\ s \in Seq(EntryIn(b)) /\ Contents[k] = At(s, k)
  BY GuardedAt, ContentsAt DEF Fields, Chained
<1> HIDE DEF b, s
<1>2. CASE k \in KeysOf(s)
  <2>1. NewestAt(s, k) \in 1 .. Len(s)
    BY <1>1, <1>2, Places
  <2>2. s[NewestAt(s, k)] \in EntryIn(b)
    BY <1>1, <2>1
  <2>3. s[NewestAt(s, k)].val \in Value
    BY <2>2 DEF EntryIn, Entry
  <2> QED
    BY <1>1, <1>2, <2>3, Stripes DEF At, b, s
<1>3. CASE k \notin KeysOf(s)
  BY <1>1, <1>3 DEF At, b, s
<1> QED
  BY <1>2, <1>3

\* What ToMap has read when it has read all is the map.
LEMMA SnapshotIsContents ==
    ASSUME Inv, Watched, Single, NEW p \in Proc, pc[p] = "read", next[p] = Buckets
    PROVE  [k \in Guarded |-> seen[p][k]] = Contents
<1>1. SUFFICES ASSUME NEW k \in Guarded PROVE seen[p][k] = At(chain[BucketOf[k]], k)
  BY ContentsAt
<1> DEFINE b == BucketOf[k]
           s == chain[b]
<1>2. /\ k \in Key /\ b \in Bucket /\ b < Locks - 1 /\ StripeOf(k) = b
      /\ s \in Seq(EntryIn(b)) /\ Unique(s)
  BY GuardedAt DEF Inv, Fields, Chained, Single
<1>3. b < next[p]
  BY <1>2, Stripes DEF Bucket
<1>4. seen[p][k] = Overlay(EmptyView, s)[k]
  BY <1>2, <1>3 DEF Watched
<1> HIDE DEF b, s
<1>5. EmptyView[k] = None /\ k \in DOMAIN EmptyView
  BY <1>2 DEF EmptyView
<1>6. CASE k \in KeysOf(s)
  <2>1. PICK i \in 1 .. Len(s) : s[i].key = k
    BY <1>2, <1>6 DEF KeysOf, Range
  <2>2. OldestAt(s, k) = i /\ At(s, k) = s[i].val
    BY <1>2, <2>1, OnePlace
  <2>3. s # <<>> /\ 1 \in 1 .. Len(s)
    BY <1>2, <2>1
  <2>4. s[1] \in EntryIn(b)
    BY <1>2, <2>3
  <2>5. s[1].val # None
    BY <2>4, Stripes DEF EntryIn, Entry
  <2>6. Overlay(EmptyView, s)[k] = s[OldestAt(s, k)].val
    BY <1>5, <1>6, <2>3, <2>5 DEF Overlay
  <2> QED
    BY <1>4, <2>2, <2>6 DEF b, s
<1>7. CASE k \notin KeysOf(s)
  <2>1. Overlay(EmptyView, s)[k] = None
    BY <1>5, <1>7 DEF Overlay
  <2> QED
    BY <1>4, <1>7, <2>1 DEF At, b, s
<1> QED
  BY <1>6, <1>7

\* A step of one goroutine changes what the abstract map has of this one only.
LEMMA OthersAlike ==
    ASSUME Inv, NEW p \in Proc, Step(p)
    PROVE  /\ AbstractStage' = [AbstractStage EXCEPT ![p] = StageOf(p)']
           /\ AbstractCall' = [AbstractCall EXCEPT ![p] = CallOf(p)']
           /\ AbstractRet' = [AbstractRet EXCEPT ![p] = RetOf(p)']
<1>1. ASSUME NEW q \in Proc, q # p
      PROVE  StageOf(q)' = StageOf(q) /\ CallOf(q)' = CallOf(q) /\ RetOf(q)' = RetOf(q)
  <2>1. pc'[q] = pc[q] /\ call'[q] = call[q] /\ seen'[q] = seen[q] /\ ret'[q] = ret[q]
    BY <1>1, OthersStay
  <2>2. OnGuarded(q)' = OnGuarded(q) /\ InEffect(q)' = InEffect(q)
    BY <2>1 DEF OnGuarded, InEffect
  <2>3. pc[q] = "read" => Contents' = Contents
    <3>1. ASSUME pc[q] = "read", NEW k \in Guarded
          PROVE  chain'[BucketOf[k]] = chain[BucketOf[k]]
      BY <1>1, <3>1, GuardedAt, HeldStill
    <3> QED
      BY <3>1, ContentsStill
  <2>4. RetOf(q)' = RetOf(q)
    BY <2>1, <2>2, <2>3 DEF RetOf
  <2> QED
    BY <2>1, <2>2, <2>4 DEF StageOf, CallOf
<1>2. /\ AbstractStage = [q \in Proc |-> StageOf(q)] /\ AbstractCall = [q \in Proc |-> CallOf(q)]
      /\ AbstractRet = [q \in Proc |-> RetOf(q)]
  BY DEF AbstractStage, AbstractCall, AbstractRet, StageOf, CallOf, RetOf
<1>3. /\ AbstractStage' = [q \in Proc |-> StageOf(q)']
      /\ AbstractCall' = [q \in Proc |-> CallOf(q)']
      /\ AbstractRet' = [q \in Proc |-> RetOf(q)']
  BY DEF AbstractStage, AbstractCall, AbstractRet, StageOf, CallOf, RetOf
<1> QED
  BY <1>1, <1>2, <1>3

-----------------------------------------------------------------------------
(* Every step is a step of the abstract map, or none.                      *)

\* What the table and the goroutines are, for a step to have a meaning.
Meaning == Inv /\ Watched /\ Called /\ Single

AbstractState == <<Contents, AbstractStage, AbstractCall, AbstractRet>>

\* A goroutine's abstract state.
LEMMA StateAt ==
    ASSUME NEW p \in Proc
    PROVE  /\ AbstractStage[p] = StageOf(p) /\ AbstractCall[p] = CallOf(p)
           /\ AbstractRet[p] = RetOf(p)
BY DEF AbstractStage, AbstractCall, AbstractRet, StageOf, CallOf, RetOf

\* A step that leaves the map and its goroutine's abstract state alone is none.
LEMMA NoStep ==
    ASSUME Meaning, NEW p \in Proc, Step(p), Contents' = Contents,
           StageOf(p)' = StageOf(p), CallOf(p)' = CallOf(p), RetOf(p)' = RetOf(p)
    PROVE  AbstractState' = AbstractState
<1>1. /\ AbstractStage' = [AbstractStage EXCEPT ![p] = StageOf(p)]
      /\ AbstractCall' = [AbstractCall EXCEPT ![p] = CallOf(p)]
      /\ AbstractRet' = [AbstractRet EXCEPT ![p] = RetOf(p)]
  BY OthersAlike DEF Meaning
<1>2. /\ AbstractStage = [AbstractStage EXCEPT ![p] = AbstractStage[p]]
      /\ AbstractCall = [AbstractCall EXCEPT ![p] = AbstractCall[p]]
      /\ AbstractRet = [AbstractRet EXCEPT ![p] = AbstractRet[p]]
  BY DEF AbstractStage, AbstractCall, AbstractRet
<1> QED
  BY <1>1, <1>2, StateAt DEF AbstractState

\* Neither is one of a goroutine that is at no operation on guarded keys.
LEMMA NoStepUnguarded ==
    ASSUME Meaning, NEW p \in Proc, Step(p), Contents' = Contents,
           ~ OnGuarded(p), ~ OnGuarded(p)'
    PROVE  AbstractState' = AbstractState
<1>1. StageOf(p)' = StageOf(p) /\ CallOf(p)' = CallOf(p) /\ RetOf(p)' = RetOf(p)
  BY DEF StageOf, CallOf, RetOf
<1> QED
  BY <1>1, NoStep

\* Neither is one that keeps its call and its stage.
LEMMA NoStepStill ==
    ASSUME Meaning, NEW p \in Proc, Step(p), Contents' = Contents,
           call'[p] = call[p], InEffect(p)' = InEffect(p), ret'[p] = ret[p],
           pc[p] # "done", pc'[p] # "done", pc[p] = "read" => pc'[p] = "read",
           pc'[p] = "read" => pc[p] = "read"
    PROVE  AbstractState' = AbstractState
<1>1. OnGuarded(p)' = OnGuarded(p)
  BY DEF OnGuarded
<1>2. OnGuarded(p) /\ InEffect(p) /\ call[p].op = "toMap" => pc[p] = "read"
  BY DEF InEffect, Meaning, Called, CallAt, OnGuarded
<1>3. StageOf(p)' = StageOf(p) /\ CallOf(p)' = CallOf(p)
  BY <1>1 DEF StageOf, CallOf
<1>4. RetOf(p)' = RetOf(p)
  BY <1>1, <1>2 DEF RetOf
<1> QED
  BY <1>3, <1>4, NoStep

\* A call on guarded keys is a call of the abstract map.
LEMMA InvokeMeans ==
    ASSUME Meaning, NEW p \in Proc, Invoke(p)
    PROVE  [Abstract!Next]_AbstractState
<1>0. Step(p) /\ Fields /\ call[p] = None /\ pc[p] = "idle" /\ Contents' = Contents
  BY ContentsStill DEF Step, Meaning, Inv, Called, CallAt, Invoke
<1>1. ~ OnGuarded(p)
  BY <1>0 DEF OnGuarded
<1>2. PICK c \in Call : call'[p] = c /\ pc'[p] = FirstStage[c.op]
  BY <1>0 DEF Invoke, Goto, Fields
<1>3. ~ InEffect(p)'
  BY <1>2 DEF InEffect, Call, FirstStage
<1>4. CASE OnGuarded(p)'
  <2>1. c \in Abstract!Call
    BY <1>2, <1>4 DEF OnGuarded, Call, Abstract!Call
  <2>2. StageOf(p)' = "called" /\ CallOf(p)' = c /\ RetOf(p)' = None
    BY <1>2, <1>3, <1>4 DEF StageOf, CallOf, RetOf
  <2>3. StageOf(p) = "idle" /\ RetOf(p) = None
    BY <1>1 DEF StageOf, RetOf
  <2>4. /\ AbstractStage' = [AbstractStage EXCEPT ![p] = "called"]
        /\ AbstractCall' = [AbstractCall EXCEPT ![p] = c]
        /\ AbstractRet' = [AbstractRet EXCEPT ![p] = None]
    BY <1>0, <2>2, OthersAlike DEF Meaning
  <2>5. AbstractRet' = AbstractRet /\ AbstractStage[p] = "idle"
    BY <2>3, <2>4, StateAt DEF AbstractRet
  <2>6. Abstract!Invoke(p)
    BY <1>0, <2>1, <2>4, <2>5 DEF Abstract!Invoke
  <2> QED
    BY <2>6 DEF Abstract!Next
<1>5. CASE ~ OnGuarded(p)'
  BY <1>0, <1>1, <1>5, NoStepUnguarded
<1> QED
  BY <1>4, <1>5

\* An operation on guarded keys that takes effect is one of the abstract map.
LEMMA EffectMeans ==
    ASSUME Meaning, NEW p \in Proc, Step(p), OnGuarded(p), ~ InEffect(p), InEffect(p)',
           call'[p] = call[p],
           NEW result, RetOf(p)' = result,
           \/ /\ call[p].op = "add"
              /\ result = (Contents[call[p].key] = None)
              /\ Contents' = IF Contents[call[p].key] = None
                             THEN [Contents EXCEPT ![call[p].key] = call[p].val]
                             ELSE Contents
           \/ /\ call[p].op = "remove"
              /\ result = (Contents[call[p].key] # None)
              /\ Contents' = [Contents EXCEPT ![call[p].key] = None]
           \/ /\ call[p].op = "toMap"
              /\ result = Contents
              /\ Contents' = Contents
    PROVE  Abstract!Next
<1>1. OnGuarded(p)'
  BY DEF OnGuarded
<1>2. StageOf(p)' = "done" /\ CallOf(p)' = call[p]
  BY <1>1 DEF StageOf, CallOf
<1>3. StageOf(p) = "called" /\ CallOf(p) = call[p]
  BY DEF StageOf, CallOf
<1>4. /\ AbstractStage' = [AbstractStage EXCEPT ![p] = "done"]
      /\ AbstractCall' = [AbstractCall EXCEPT ![p] = call[p]]
      /\ AbstractRet' = [AbstractRet EXCEPT ![p] = result]
  BY <1>2, OthersAlike DEF Meaning
<1>5. AbstractStage[p] = "called" /\ AbstractCall[p] = call[p]
  BY <1>3, StateAt
<1>6. AbstractCall' = AbstractCall
  BY <1>4, <1>5 DEF AbstractCall
<1>7. CASE call[p].op = "add"
  <2>1. Abstract!Add(p)
    BY <1>4, <1>5, <1>6, <1>7 DEF Abstract!Add
  <2> QED
    BY <2>1 DEF Abstract!Next
<1>8. CASE call[p].op = "remove"
  <2>1. Abstract!Remove(p)
    BY <1>4, <1>5, <1>6, <1>8 DEF Abstract!Remove
  <2> QED
    BY <2>1 DEF Abstract!Next
<1>9. CASE call[p].op = "toMap"
  <2>1. Abstract!ToMap(p)
    BY <1>4, <1>5, <1>6, <1>9 DEF Abstract!ToMap
  <2> QED
    BY <2>1 DEF Abstract!Next
<1> QED
  BY <1>7, <1>8, <1>9

\* TryAdd gives up when it finds its key: if that is guarded, it is in the map.
LEMMA AcquireMeans ==
    ASSUME Meaning, NEW p \in Proc, Acquire(p)
    PROVE  [Abstract!Next]_AbstractState
<1> DEFINE k == call[p].key
<1>0. /\ Step(p) /\ Fields /\ call' = call /\ pc[p] = "want" /\ Contents' = Contents
      /\ call[p] \in Call
  BY ContentsStill DEF Step, LockStep, Meaning, Inv, Called, CallAt, Acquire
<1>1. CASE call[p].op = "add" /\ k \in KeysOf(chain[SearchedBucket(k)])
  <2>1. ret'[p] = FALSE /\ pc'[p] = "done"
    BY <1>0, <1>1 DEF Acquire, Goto, Fields
  <2>2. CASE OnGuarded(p)
    <3>1. k \in Guarded
      BY <1>1, <2>2 DEF OnGuarded
    <3>2. Contents[k] # None
      BY <1>0, <1>1, <3>1, GuardedAt, ContentsHas
    <3>3. OnGuarded(p)'
      BY <1>0, <2>2 DEF OnGuarded
    <3>4. RetOf(p)' = FALSE /\ InEffect(p)' /\ ~ InEffect(p)
      BY <1>0, <1>1, <2>1, <3>3 DEF RetOf, InEffect
    <3>5. Abstract!Next
      BY <1>0, <1>1, <2>2, <3>2, <3>4, EffectMeans
    <3> QED
      BY <3>5
  <2>3. CASE ~ OnGuarded(p)
    <3>1. ~ OnGuarded(p)'
      BY <1>0, <2>3 DEF OnGuarded
    <3> QED
      BY <1>0, <2>3, <3>1, NoStepUnguarded
  <2> QED
    BY <2>2, <2>3
<1>2. CASE ~ (call[p].op = "add" /\ k \in KeysOf(chain[SearchedBucket(k)]))
  <2>1. pc'[p] = "write" /\ ret' = ret
    BY <1>0, <1>2 DEF Acquire, Goto, Fields
  <2>2. InEffect(p)' = InEffect(p)
    BY <1>0, <2>1 DEF InEffect
  <2> QED
    BY <1>0, <2>1, <2>2, NoStepStill
<1> QED
  BY <1>1, <1>2

\* A write to a guarded bucket is the operation's effect.
LEMMA WriteMeans ==
    ASSUME Meaning, NEW p \in Proc, AddWrite(p) \/ RemoveWrite(p)
    PROVE  [Abstract!Next]_AbstractState
<1> DEFINE k == call[p].key
<1>0. /\ Step(p) /\ Fields /\ call' = call /\ pc[p] = "write" /\ call[p] \in Call
      /\ call[p].op \in Changes /\ pc'[p] \in {"grow", "done"}
      /\ chain' = [chain EXCEPT ![BucketOf[k]] = Written(call[p])]
  BY DEF Step, FreeStep, Meaning, Inv, Fields, Called, CallAt, AddWrite, RemoveWrite, Goto
<1>1. /\ k \in Guarded => Contents' = [Contents EXCEPT ![k] = call[p].val]
      /\ k \notin Guarded => Contents' = Contents
  BY <1>0, ContentsWritten DEF Meaning
<1>2. OnGuarded(p) <=> k \in Guarded
  BY <1>0, CallAssumption DEF OnGuarded, Changes
<1>3. OnGuarded(p)' = OnGuarded(p)
  BY <1>0 DEF OnGuarded
<1>4. CASE k \in Guarded
  <2>1. ~ InEffect(p) /\ InEffect(p)'
    BY <1>0 DEF InEffect
  <2>2. RetOf(p)' = ret'[p]
    BY <1>0, <1>2, <1>3, <1>4, <2>1 DEF RetOf, Changes
  <2>3. Contents[k] # None <=> k \in KeysOf(chain[BucketOf[k]])
    BY <1>0, <1>4, ContentsHas
  <2>4. CASE AddWrite(p)
    <3>1. call[p].op = "add" /\ ret'[p] = TRUE
      BY <1>0, <2>4 DEF AddWrite, Fields
    <3>2. Contents[k] = None
      BY <1>0, <1>4, <2>3, <3>1 DEF Meaning, Called, CallAt
    <3>3. Abstract!Next
      BY <1>0, <1>1, <1>2, <1>4, <2>1, <2>2, <3>1, <3>2, EffectMeans
    <3> QED
      BY <3>3
  <2>5. CASE RemoveWrite(p)
    <3>1. call[p].op = "remove" /\ ret'[p] = (k \in KeysOf(chain[BucketOf[k]]))
      BY <1>0, <2>5 DEF RemoveWrite, Fields
    <3>2. call[p].val = None
      BY <1>0, <3>1 DEF Call
    <3>3. ret'[p] = (Contents[k] # None)
      BY <2>3, <3>1
    <3>4. Abstract!Next
      BY <1>0, <1>1, <1>2, <1>4, <2>1, <2>2, <3>1, <3>2, <3>3, EffectMeans
    <3> QED
      BY <3>4
  <2> QED
    BY <2>4, <2>5
<1>5. CASE k \notin Guarded
  BY <1>0, <1>1, <1>2, <1>3, <1>5, NoStepUnguarded
<1> QED
  BY <1>4, <1>5

\* ToMap takes effect when it has its locks.
LEMMA SnapLockMeans ==
    ASSUME Meaning, NEW p \in Proc, SnapLock(p)
    PROVE  [Abstract!Next]_AbstractState
<1>0. /\ Step(p) /\ Fields /\ call' = call /\ ret' = ret /\ pc[p] = "lockAll"
      /\ Contents' = Contents /\ call[p] \in Call /\ call[p].op = "toMap"
  BY ContentsStill DEF Step, LockStep, Meaning, Inv, Called, CallAt, SnapLock
<1>1. CASE pc' = pc
  <2>1. InEffect(p)' = InEffect(p)
    BY <1>1 DEF InEffect
  <2> QED
    BY <1>0, <1>1, <2>1, NoStepStill
<1>2. CASE pc' # pc
  <2>1. pc'[p] = "read"
    BY <1>0, <1>2 DEF SnapLock, Goto, Fields
  <2>2. OnGuarded(p) /\ OnGuarded(p)' /\ ~ InEffect(p) /\ InEffect(p)'
    BY <1>0, <2>1, CallAssumption DEF OnGuarded, InEffect
  <2>3. RetOf(p)' = Contents
    BY <1>0, <2>1, <2>2 DEF RetOf
  <2>4. Abstract!Next
    BY <1>0, <2>2, <2>3, EffectMeans
  <2> QED
    BY <2>4
<1> QED
  BY <1>1, <1>2

\* What it returns is the map it had then.
LEMMA SnapEndMeans ==
    ASSUME Meaning, NEW p \in Proc, SnapEnd(p)
    PROVE  AbstractState' = AbstractState
<1>0. /\ Step(p) /\ Fields /\ call' = call /\ seen' = seen /\ pc[p] = "read"
      /\ next[p] = Buckets /\ Contents' = Contents /\ call[p] \in Call
      /\ call[p].op = "toMap" /\ pc'[p] = "done"
  BY ContentsStill DEF Step, FreeStep, Meaning, Inv, Fields, Called, CallAt, SnapEnd, Goto
<1>1. OnGuarded(p)' = OnGuarded(p) /\ InEffect(p) /\ InEffect(p)'
  BY <1>0 DEF OnGuarded, InEffect
<1>2. [k \in Guarded |-> seen[p][k]] = Contents
  BY <1>0, SnapshotIsContents DEF Meaning
<1>3. RetOf(p)' = RetOf(p)
  BY <1>0, <1>1, <1>2 DEF RetOf
<1>4. StageOf(p)' = StageOf(p) /\ CallOf(p)' = CallOf(p)
  BY <1>0, <1>1 DEF StageOf, CallOf
<1> QED
  BY <1>0, <1>3, <1>4, NoStep

\* A return from guarded keys is a return of the abstract map.
LEMMA ReturnMeans ==
    ASSUME Meaning, NEW p \in Proc, Return(p)
    PROVE  [Abstract!Next]_AbstractState
<1>0. Step(p) /\ Fields /\ pc[p] = "done" /\ Contents' = Contents /\ call'[p] = None
  BY ContentsStill DEF Step, FreeStep, Meaning, Inv, Fields, Return
<1>1. ~ OnGuarded(p)'
  BY <1>0 DEF OnGuarded
<1>2. CASE OnGuarded(p)
  <2>1. StageOf(p) = "done"
    BY <1>0, <1>2 DEF StageOf, InEffect
  <2>2. StageOf(p)' = "idle" /\ CallOf(p)' = None /\ RetOf(p)' = None
    BY <1>1 DEF StageOf, CallOf, RetOf
  <2>3. /\ AbstractStage' = [AbstractStage EXCEPT ![p] = "idle"]
        /\ AbstractCall' = [AbstractCall EXCEPT ![p] = None]
        /\ AbstractRet' = [AbstractRet EXCEPT ![p] = None]
    BY <1>0, <2>2, OthersAlike DEF Meaning
  <2>4. Abstract!Return(p)
    BY <1>0, <2>1, <2>3, StateAt DEF Abstract!Return
  <2> QED
    BY <2>4 DEF Abstract!Next
<1>3. CASE ~ OnGuarded(p)
  BY <1>0, <1>1, <1>3, NoStepUnguarded
<1> QED
  BY <1>2, <1>3

\* The other steps are none of the abstract map's.
LEMMA QuietStep ==
    ASSUME Meaning, NEW p \in Proc,
           GrowLock(p) \/ GrowUnlock(p) \/ SnapRead(p) \/ SnapPanic(p) \/ Look(p)
    PROVE  AbstractState' = AbstractState
<1>0. Step(p) /\ Fields /\ call' = call /\ Contents' = Contents
  BY ContentsStill DEF Step, LockStep, FreeStep, Meaning, Inv, GrowLock, GrowUnlock, SnapRead,
                       SnapPanic, Look
<1>1. CASE Look(p)
  <2>1. call[p].op = "get"
    BY <1>1 DEF Look, Meaning, Called, CallAt
  <2>2. ~ OnGuarded(p) /\ ~ OnGuarded(p)'
    BY <1>0, <2>1 DEF OnGuarded
  <2> QED
    BY <1>0, <2>2, NoStepUnguarded
<1>2. CASE GrowLock(p) \/ GrowUnlock(p) \/ SnapRead(p) \/ SnapPanic(p)
  <2>1. pc' = pc /\ ret' = ret /\ pc[p] # "done"
    BY <1>2 DEF GrowLock, GrowUnlock, SnapRead, SnapPanic
  <2>2. InEffect(p)' = InEffect(p)
    BY <2>1 DEF InEffect
  <2> QED
    BY <1>0, <2>1, <2>2, NoStepStill
<1> QED
  BY <1>1, <1>2

\* Every step of the table is a step of the abstract map or none.
LEMMA EveryStepMeans ==
    ASSUME Meaning, [Next]_vars
    PROVE  [Abstract!Next]_AbstractState
<1>1. CASE UNCHANGED vars
  <2>1. /\ chain' = chain /\ pc' = pc /\ call' = call /\ seen' = seen /\ ret' = ret
    BY <1>1 DEF vars
  <2>2. Contents' = Contents
    BY <2>1, ContentsStill
  <2>3. \A p \in Proc : OnGuarded(p)' = OnGuarded(p) /\ InEffect(p)' = InEffect(p)
    BY <2>1 DEF OnGuarded, InEffect
  <2> QED
    BY <2>1, <2>2, <2>3 DEF AbstractState, AbstractStage, AbstractCall, AbstractRet
<1>2. ASSUME NEW p \in Proc, Step(p) PROVE [Abstract!Next]_AbstractState
  BY <1>2, InvokeMeans, AcquireMeans, WriteMeans, SnapLockMeans, SnapEndMeans, ReturnMeans,
     QuietStep DEF Step, LockStep, FreeStep
<1> QED
  BY <1>1, <1>2 DEF Next, Step

\* The empty map is empty.
LEMMA BeginningMeans ==
    ASSUME Init
    PROVE  Abstract!Init
<1>1. Contents = [k \in Guarded |-> None]
  <2>1. \A k \in Guarded : chain[BucketOf[k]] = <<>>
    BY GuardedAt DEF Init
  <2>2. \A k \in Guarded : At(<<>>, k) = None
    BY DEF At, KeysOf, Range
  <2> QED
    BY <2>1, <2>2, ContentsAt
<1>2. \A p \in Proc : ~ OnGuarded(p)
  BY DEF Init, OnGuarded
<1> QED
  BY <1>1, <1>2 DEF Abstract!Init, AbstractStage, AbstractCall, AbstractRet

\* On the keys whose operations are atomic the dictionary is an atomic map:
\* TryAdd, TryRemove and ToMap take effect in one step between call and return,
\* whatever else runs (the whole package).
THEOREM Implements == Spec => ImplementsAtomicMap
<1>1. Init => Meaning /\ Abstract!Init
  BY Beginning, CalledAtFirst, BeginningMeans DEF Meaning
<1>2. Meaning /\ [Next]_vars => Meaning'
  BY FieldsStep, LockedStep, LostStep, WatchedStep, CalledStep, SingleStep DEF Meaning, Inv
<1>3. Meaning /\ [Next]_vars => [Abstract!Next]_(Abstract!vars)
  BY EveryStepMeans DEF AbstractState, Abstract!vars
<1> QED
  BY <1>1, <1>2, <1>3, PTL DEF Spec, ImplementsAtomicMap, Abstract!Spec
=============================================================================
