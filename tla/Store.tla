------------------------------- MODULE Store --------------------------------
(***************************************************************************)
(* The store behind the scheduler: a DataSource that forwards every        *)
(* operation to its active provider, the provider's connection, and the    *)
(* Redis keys it works on (internals/pkg/store/).                          *)
(*                                                                         *)
(* The value of a key is the sequence of its elements: a list of runs or   *)
(* ids, or the one element of a string; a key that is absent is empty.  No *)
(* key is used both as a string and as a list.  The operations nothing     *)
(* calls (CreateIfNotExists, Update, UpdateMany) are left out.             *)
(***************************************************************************)
EXTENDS Sequences

CONSTANT Key

VARIABLES
    reachable,  \* the server answers
    client,     \* the provider: "new", "open", or "failed" (openErr is set)
    db          \* the server's keys

storeVars == <<reachable, client, db>>

StoreTypeOK(ValueOf) ==
    /\ reachable \in BOOLEAN
    /\ client \in {"new", "open", "failed"}
    /\ DOMAIN db = Key
    /\ \A k \in Key : db[k] \in Seq(ValueOf[k])

StoreInit ==
    /\ reachable = TRUE
    /\ client = "new"
    /\ db = [k \in Key |-> <<>>]

\* The provider is built (it does not dial), then opened: a PING that fails is
\* kept in openErr.
NewProvider == client' = "new"
Open == client' = IF reachable THEN "open" ELSE "failed"

\* An operation returns no error: conn has a client, and the client reaches the
\* server (it redials on its own).
Answers == client = "open" /\ reachable

\* The keys after an operation on d: Create sets a string, CreateMany pushes to
\* the end of a list, Delete removes a key.
Create(d, k, v) == IF Answers THEN [d EXCEPT ![k] = <<v>>] ELSE d
CreateMany(d, k, v) == IF Answers THEN [d EXCEPT ![k] = Append(@, v)] ELSE d
Delete(d, k) == IF Answers THEN [d EXCEPT ![k] = <<>>] ELSE d

\* What Get and GetSingle return when they answer.
Get(d, k) == d[k]
=============================================================================
