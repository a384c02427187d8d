------------------------------- MODULE Stream -------------------------------
(***************************************************************************)
(* How the dashboard's pages stay current: the feed that fans events out   *)
(* to subscribers (internals/pkg/scheduler/observability.go), the handler  *)
(* of the event stream (internals/pkg/dashboard/dashboard.go) and the page *)
(* that refreshes itself when it hears one (dashboard/index.html).         *)
(*                                                                         *)
(* What a page shows (jobs, histories, counters) is abstracted to a        *)
(* version, a number that every change a page can see increments.  A page  *)
(* does not look into an event, so an event is only something that waits   *)
(* in a channel.  The critical sections of the feed that touch nothing but *)
(* its maps are single steps; the one of publish, beside which handlers    *)
(* take events and connections break, is not.                              *)
(***************************************************************************)
EXTENDS Naturals, FiniteSets

CONSTANTS
    Runner,      \* goroutines that execute jobs and record their runs
    Operator,    \* handlers of requests that pause, resume, clear, unschedule
    Client,      \* pages, each with at most one connection to the stream
    Buffer,      \* capacity of a subscriber's channel (16)
    MaxRenders,  \* how many refreshes of a page can be under way at once
    MaxChanges,  \* bound of the model: changes of what is shown
    MaxBreaks    \* bound of the model: broken connections

Publisher == Runner \cup Operator

ASSUME StreamAssumption ==
    /\ Runner \cap Operator = {}
    /\ Buffer \in Nat \ {0}
    /\ MaxRenders \in Nat \ {0}
    /\ MaxChanges \in Nat
    /\ MaxBreaks \in Nat

Version == 0 .. MaxChanges + 1

VARIABLES
    version,      \* what a page that asks now is shown
    pc,           \* pc[p]: what publisher p is about to do
    todo,         \* todo[p]: the subscribers p's publish still has to go through
    subscribers,  \* the clients whose channel is registered, and open
    queue,        \* queue[c]: the number of events in c's channel
    conn,         \* conn[c]: c's connection and the handler that serves it
    wire,         \* wire[c]: an event is on its way to the page
    timer,        \* timer[c]: the page's refresh timer is set
    render,       \* render[c]: the refreshes of the page that are under way
    shown,        \* shown[c]: what the page shows; 0 is nothing
    frozen,       \* pages whose browser runs no scripts any more
    breaks,       \* connections broken so far
    panicked      \* the process has sent to a closed channel

feed == <<pc, todo>>
page == <<timer, render, shown, frozen>>
vars == <<version, feed, subscribers, queue, conn, wire, page, breaks, panicked>>

\* A refresh has asked the server, or has its answer.
Refresh == [slot : 1 .. MaxRenders, st : {"asked", "answered"}, v : Version]
Asked(i) == [slot |-> i, st |-> "asked", v |-> 0]
Answered(r) == [slot |-> r.slot, st |-> "answered", v |-> version]

TypeOK ==
    /\ version \in 1 .. MaxChanges + 1
    /\ pc \in [Publisher -> {"idle", "snapshot", "publish", "send"}]
    /\ todo \in [Publisher -> SUBSET Client]
    /\ subscribers \subseteq Client
    /\ queue \in [Client -> 0 .. Buffer]
    /\ conn \in [Client -> {"off", "greet", "stream", "gone"}]
    /\ wire \in [Client -> BOOLEAN]
    /\ timer \in [Client -> BOOLEAN]
    /\ render \in [Client -> SUBSET Refresh]
    /\ shown \in [Client -> Version]
    /\ frozen \subseteq Client
    /\ breaks \in 0 .. MaxBreaks
    /\ panicked \in BOOLEAN

-----------------------------------------------------------------------------
\* The page is loaded: it renders itself and opens the stream.
Init ==
    /\ version = 1
    /\ pc = [p \in Publisher |-> "idle"]
    /\ todo = [p \in Publisher |-> {}]
    /\ subscribers = {}
    /\ queue = [c \in Client |-> 0]
    /\ conn = [c \in Client |-> "off"]
    /\ wire = [c \in Client |-> FALSE]
    /\ timer = [c \in Client |-> FALSE]
    /\ render = [c \in Client |-> {Asked(1)}]
    /\ shown = [c \in Client |-> 0]
    /\ frozen = {}
    /\ breaks = 0
    /\ panicked = FALSE

-----------------------------------------------------------------------------
(* The scheduler: changes and their publication.                           *)

\* The feed's mutex can be taken: nobody is inside publish.
Free == \A p \in Publisher : pc[p] # "send"

Goto(p, stage) == pc' = [pc EXCEPT ![p] = stage]

Changed == version <= MaxChanges /\ version' = version + 1

\* record adds a run to the histories and counters, and goes on to publish it.
Record(p) ==
    /\ p \in Runner
    /\ pc[p] = "idle"
    /\ Free
    /\ Changed
    /\ Goto(p, "publish")
    /\ UNCHANGED <<todo, subscribers, queue, conn, wire, page, breaks, panicked>>

\* Pause, Resume and Unschedule change the task table, without the mutex.
Control(p) ==
    /\ p \in Operator
    /\ pc[p] = "idle"
    /\ Changed
    /\ Goto(p, "snapshot")
    /\ UNCHANGED <<todo, subscribers, queue, conn, wire, page, breaks, panicked>>

\* ClearHistory drops a job's runs and counters.
ClearHistory(p) ==
    /\ p \in Operator
    /\ pc[p] = "idle"
    /\ Free
    /\ Changed
    /\ Goto(p, "snapshot")
    /\ UNCHANGED <<todo, subscribers, queue, conn, wire, page, breaks, panicked>>

\* publishSnapshot puts the snapshot together, which takes the mutex for the
\* jobs' metrics, before publish takes it.
TakeSnapshot(p) ==
    /\ pc[p] = "snapshot"
    /\ Free
    /\ Goto(p, "publish")
    /\ UNCHANGED <<version, todo, subscribers, queue, conn, wire, page, breaks,
                   panicked>>

PublishBegin(p) ==
    /\ pc[p] = "publish"
    /\ Free
    /\ todo' = [todo EXCEPT ![p] = subscribers]
    /\ Goto(p, "send")
    /\ UNCHANGED <<version, subscribers, queue, conn, wire, page, breaks, panicked>>

\* What a channel holds after a send that does not wait: a full one loses the
\* event.  (Mutants: room for one less; no loss.)
Sent_OneLess(n) == IF n + 1 < Buffer THEN n + 1 ELSE n
Sent_Always(n) == n + 1
Sent(n) == IF n < Buffer THEN n + 1 ELSE n

\* publish never waits for a slow subscriber.  (Mutant: it does.)
MaySend_WhenRoom(c) == queue[c] < Buffer
MaySend(c) == TRUE

Send(p) ==
    /\ pc[p] = "send"
    /\ \E c \in todo[p] :
          /\ MaySend(c)
          /\ todo' = [todo EXCEPT ![p] = @ \ {c}]
          /\ queue' = [queue EXCEPT ![c] = Sent(@)]
          /\ panicked' = (panicked \/ c \notin subscribers)
    /\ UNCHANGED <<version, pc, subscribers, conn, wire, page, breaks>>

PublishEnd(p) ==
    /\ pc[p] = "send"
    /\ todo[p] = {}
    /\ Goto(p, "idle")
    /\ UNCHANGED <<version, todo, subscribers, queue, conn, wire, page, breaks, panicked>>

-----------------------------------------------------------------------------
(* The handler of the stream.                                              *)

\* What a handler does once it has subscribed: it sends the present state
\* first.  (Mutant: it waits for events at once.)
AfterSubscribe_NoGreeting == "stream"
AfterSubscribe == "greet"

\* A page connects: its handler subscribes.
Connect(c) ==
    /\ conn[c] = "off"
    /\ c \notin frozen
    /\ Free
    /\ subscribers' = subscribers \cup {c}
    /\ queue' = [queue EXCEPT ![c] = 0]
    /\ conn' = [conn EXCEPT ![c] = AfterSubscribe]
    /\ UNCHANGED <<version, feed, wire, page, breaks, panicked>>

\* The first event is a snapshot.
Greet(c) ==
    /\ conn[c] = "greet"
    /\ Free
    /\ conn' = [conn EXCEPT ![c] = "stream"]
    /\ wire' = [wire EXCEPT ![c] = TRUE]
    /\ UNCHANGED <<version, feed, subscribers, queue, page, breaks, panicked>>

\* The handler writes an event to the page.  It waits while the one before has
\* not been read; to a page that is gone it writes in vain.
Forward(c) ==
    /\ conn[c] \in {"stream", "gone"}
    /\ ~ wire[c]
    /\ queue[c] > 0
    /\ queue' = [queue EXCEPT ![c] = @ - 1]
    /\ wire' = [wire EXCEPT ![c] = conn[c] = "stream"]
    /\ UNCHANGED <<version, feed, subscribers, conn, page, breaks, panicked>>

\* The connection breaks, and with it what was on its way is lost.
Break(c) ==
    /\ conn[c] \in {"greet", "stream"}
    /\ breaks < MaxBreaks
    /\ breaks' = breaks + 1
    /\ conn' = [conn EXCEPT ![c] = "gone"]
    /\ wire' = [wire EXCEPT ![c] = FALSE]
    /\ UNCHANGED <<version, feed, subscribers, queue, page, panicked>>

\* Whether cancel may close a channel now: when it has the mutex.  (Mutant: it
\* does not take it.)
MayClose_Unlocked == TRUE
MayClose == Free

\* The handler notices and returns: its channel is closed and forgotten.
\* (Mutant: the registration stays.)
Unsubscribe_Leaks(c) ==
    /\ conn[c] = "gone"
    /\ MayClose
    /\ conn' = [conn EXCEPT ![c] = "off"]
    /\ UNCHANGED <<version, feed, subscribers, queue, wire, page, breaks, panicked>>
Unsubscribe(c) ==
    /\ conn[c] = "gone"
    /\ MayClose
    /\ subscribers' = subscribers \ {c}
    /\ conn' = [conn EXCEPT ![c] = "off"]
    /\ UNCHANGED <<version, feed, queue, wire, page, breaks, panicked>>

-----------------------------------------------------------------------------
(* The page.                                                               *)

\* A free slot for a refresh, if one more may be under way.
FreeSlot(c) == {i \in 1 .. MaxRenders : \A r \in render[c] : r.slot # i}

\* An event sets the timer, unless it is set.
OnMessage(c) ==
    /\ wire[c]
    /\ c \notin frozen
    /\ wire' = [wire EXCEPT ![c] = FALSE]
    /\ timer' = [timer EXCEPT ![c] = TRUE]
    /\ UNCHANGED <<version, feed, subscribers, queue, conn, render, shown, frozen, breaks,
                   panicked>>

\* The timer fires: it is reset and a refresh begins.
TimerFires(c) ==
    /\ timer[c]
    /\ c \notin frozen
    /\ \E i \in FreeSlot(c) : render' = [render EXCEPT ![c] = @ \cup {Asked(i)}]
    /\ timer' = [timer EXCEPT ![c] = FALSE]
    /\ UNCHANGED <<version, feed, subscribers, queue, conn, wire, shown, frozen, breaks,
                   panicked>>

\* The user goes to another view, or acts: a refresh begins without the timer.
Navigate(c) ==
    /\ c \notin frozen
    /\ \E i \in FreeSlot(c) : render' = [render EXCEPT ![c] = @ \cup {Asked(i)}]
    /\ UNCHANGED <<version, feed, subscribers, queue, conn, wire, timer, shown, frozen,
                   breaks, panicked>>

\* The server answers with the present state.
Answer(c) ==
    /\ Free
    /\ \E r \in render[c] :
          /\ r.st = "asked"
          /\ render' = [render EXCEPT ![c] = (@ \ {r}) \cup {Answered(r)}]
    /\ UNCHANGED <<version, feed, subscribers, queue, conn, wire, timer, shown, frozen,
                   breaks, panicked>>

\* The page shows an answer it has received.
Show(c) ==
    /\ c \notin frozen
    /\ \E r \in render[c] :
          /\ r.st = "answered"
          /\ render' = [render EXCEPT ![c] = @ \ {r}]
          /\ shown' = [shown EXCEPT ![c] = r.v]
    /\ UNCHANGED <<version, feed, subscribers, queue, conn, wire, timer, frozen, breaks,
                   panicked>>

\* The browser suspends the page for good; it reads no event any more.
Freeze(c) ==
    /\ c \notin frozen
    /\ frozen' = frozen \cup {c}
    /\ UNCHANGED <<version, feed, subscribers, queue, conn, wire, timer, render, shown,
                   breaks, panicked>>

-----------------------------------------------------------------------------
PublishStep(p) == TakeSnapshot(p) \/ PublishBegin(p) \/ Send(p) \/ PublishEnd(p)
HandlerStep(c) == Greet(c) \/ Forward(c)
PageStep(c) == OnMessage(c) \/ TimerFires(c) \/ Show(c)

Next ==
    \/ \E p \in Publisher : \/ Record(p)
                            \/ Control(p)
                            \/ ClearHistory(p)
                            \/ PublishStep(p)
    \/ \E c \in Client : \/ Connect(c)
                         \/ HandlerStep(c)
                         \/ Break(c)
                         \/ Unsubscribe(c)
                         \/ PageStep(c)
                         \/ Navigate(c)
                         \/ Answer(c)
                         \/ Freeze(c)

Spec == Init /\ [][Next]_vars

\* Goroutines and the scripts of a page that is not suspended are scheduled,
\* requests are answered, a broken connection is noticed and made again.  The
\* mutex does not starve who waits for it.
Fairness ==
    /\ \A p \in Publisher : SF_vars(PublishStep(p))
    /\ \A c \in Client :
          /\ SF_vars(Connect(c))
          /\ SF_vars(HandlerStep(c))
          /\ SF_vars(Unsubscribe(c))
          /\ SF_vars(Answer(c))
          /\ WF_vars(PageStep(c))

FairSpec == Spec /\ Fairness

-----------------------------------------------------------------------------
(* Properties.                                                             *)

\* No publisher sends to a channel that unsubscribe has closed, although
\* connections break while events are published (publish, unsubscribe).
NoSendOnClosed == ~ panicked

\* A change that a page has yet to be told of: its publisher is on the way.
Announced(c) ==
    \E p \in Publisher : \/ pc[p] \in {"snapshot", "publish"}
                         \/ c \in todo[p]

\* Something will make the page refresh itself once more.
Coming(c) ==
    \/ Announced(c)
    \/ conn[c] # "stream"
    \/ queue[c] > 0 \/ wire[c] \/ timer[c]

\* A page that does not show the present state has something coming that will
\* refresh it, even when events were dropped or the connection broke: the
\* publication of the change, a connection to be greeted, an event in the
\* channel or on the wire, the timer, or a refresh that will be answered with
\* the present state (record, publish, streamHandler, scheduleRender).
StaleIsPending ==
    \A c \in Client :
        \/ shown[c] = version
        \/ Coming(c)
        \/ \E r \in render[c] : r.st = "asked" \/ r.v = version

\* When nothing changes any more, every page that still runs comes to show the
\* present state and keeps showing it.
PageCatchesUp == \A c \in Client : <>[](c \in frozen \/ shown[c] = version)

\* The scheduler is never held up by its audience: every publication ends,
\* although pages are slow, suspended or gone ("drop for a slow consumer rather
\* than block the scheduler", publish).
PublishersReturn == \A p \in Publisher : pc[p] # "idle" ~> pc[p] = "idle"

\* A broken connection does not leak its subscription (streamHandler's deferred
\* cancel).
GoneIsReleased == \A c \in Client : conn[c] = "gone" ~> c \notin subscribers

-----------------------------------------------------------------------------
(* Inductive strengthenings of NoSendOnClosed and StaleIsPending.          *)

\* Who publishes holds the mutex and has only open channels before it.
SendInv ==
    /\ ~ panicked
    /\ \A p \in Publisher : /\ todo[p] \subseteq subscribers
                            /\ pc[p] # "send" => todo[p] = {}

\* A connected page is subscribed.
Subscribed == \A c \in Client : conn[c] # "off" => c \in subscribers

\* Refreshes do not overlap (when MaxRenders is 1).
OneRefresh == \A c \in Client : \A r, s \in render[c] : r = s

\* A page with nothing coming shows the present state when its refresh, if one
\* is under way, is done.
Fresh(c) ==
    \/ Coming(c)
    \/ render[c] = {} /\ shown[c] = version
    \/ \E r \in render[c] : r.st = "asked" \/ r.v = version

FreshInv == \A c \in Client : Fresh(c)
=============================================================================
