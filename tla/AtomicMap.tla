----------------------------- MODULE AtomicMap ------------------------------
(***************************************************************************)
(* What a concurrent map promises its callers: between its call and its    *)
(* return every operation takes effect in one indivisible step.  TryAdd    *)
(* inserts an absent key and says whether it did, TryRemove removes a      *)
(* present one and says whether it did, ToMap returns a snapshot of the    *)
(* whole map.                                                              *)
(***************************************************************************)
EXTENDS Naturals

CONSTANTS Proc, Key, Value, None

VARIABLES
    map,      \* map[k]: the value of k, or None
    stage,    \* stage[p]: "idle", "called" (not yet in effect) or "done"
    call,     \* call[p]: the operation of p, its key and its value
    ret       \* ret[p]: what it returns: a truth value, or a snapshot

vars == <<map, stage, call, ret>>

Snapshot == [Key -> Value \cup {None}]
Call == [op : {"add"}, key : Key, val : Value]
           \cup [op : {"remove"}, key : Key, val : {None}]
           \cup [op : {"toMap"}, key : {None}, val : {None}]

Init ==
    /\ map = [k \in Key |-> None]
    /\ stage = [p \in Proc |-> "idle"]
    /\ call \in [Proc -> {None}]
    /\ ret = [p \in Proc |-> None]

Invoke(p) ==
    /\ stage[p] = "idle"
    /\ stage' = [stage EXCEPT ![p] = "called"]
    /\ \E c \in Call : call' = [call EXCEPT ![p] = c]
    /\ UNCHANGED <<map, ret>>

Add(p) ==
    LET k == call[p].key IN
    /\ stage[p] = "called"
    /\ call[p].op = "add"
    /\ map' = IF map[k] = None THEN [map EXCEPT ![k] = call[p].val] ELSE map
    /\ ret' = [ret EXCEPT ![p] = map[k] = None]
    /\ stage' = [stage EXCEPT ![p] = "done"]
    /\ UNCHANGED call

Remove(p) ==
    LET k == call[p].key IN
    /\ stage[p] = "called"
    /\ call[p].op = "remove"
    /\ map' = [map EXCEPT ![k] = None]
    /\ ret' = [ret EXCEPT ![p] = map[k] # None]
    /\ stage' = [stage EXCEPT ![p] = "done"]
    /\ UNCHANGED call

ToMap(p) ==
    /\ stage[p] = "called"
    /\ call[p].op = "toMap"
    /\ ret' = [ret EXCEPT ![p] = map]
    /\ stage' = [stage EXCEPT ![p] = "done"]
    /\ UNCHANGED <<map, call>>

Return(p) ==
    /\ stage[p] = "done"
    /\ stage' = [stage EXCEPT ![p] = "idle"]
    /\ call' = [call EXCEPT ![p] = None]
    /\ ret' = [ret EXCEPT ![p] = None]
    /\ UNCHANGED map

Next == \E p \in Proc : Invoke(p) \/ Add(p) \/ Remove(p) \/ ToMap(p) \/ Return(p)

Spec == Init /\ [][Next]_vars
=============================================================================
