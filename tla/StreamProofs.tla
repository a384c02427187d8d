---------------------------- MODULE StreamProofs ----------------------------
(***************************************************************************)
(* Proofs about the dashboard's event stream, for any number of pages and  *)
(* publishers and any channel capacity.                                    *)
(***************************************************************************)
EXTENDS Stream, TLAPS

-----------------------------------------------------------------------------
(* Types.                                                                  *)

\* Every step keeps the types.
LEMMA TypeStep == TypeOK /\ [Next]_vars => TypeOK'
<1> SUFFICES ASSUME TypeOK, [Next]_vars PROVE TypeOK'
    OBVIOUS
<1> USE StreamAssumption DEF TypeOK, Version, Refresh, feed, page
<1>1. ASSUME NEW p \in Publisher, Record(p) PROVE TypeOK'
  BY <1>1 DEF Record, Changed, Goto, Free
<1>2. ASSUME NEW p \in Publisher, Control(p) PROVE TypeOK'
  BY <1>2 DEF Control, Changed, Goto
<1>3. ASSUME NEW p \in Publisher, ClearHistory(p) PROVE TypeOK'
  BY <1>3 DEF ClearHistory, Changed, Goto, Free
<1>4. ASSUME NEW p \in Publisher, TakeSnapshot(p) PROVE TypeOK'
  BY <1>4 DEF TakeSnapshot, Goto, Free
<1>5. ASSUME NEW p \in Publisher, PublishBegin(p) PROVE TypeOK'
  BY <1>5 DEF PublishBegin, Goto, Free
<1>6. ASSUME NEW p \in Publisher, Send(p) PROVE TypeOK'
  BY <1>6 DEF Send, Sent, MaySend
<1>7. ASSUME NEW p \in Publisher, PublishEnd(p) PROVE TypeOK'
  BY <1>7 DEF PublishEnd, Goto
<1>8. ASSUME NEW c \in Client, Connect(c) PROVE TypeOK'
  BY <1>8 DEF Connect, Free, AfterSubscribe
<1>9. ASSUME NEW c \in Client, Greet(c) PROVE TypeOK'
  BY <1>9 DEF Greet, Free
<1>10. ASSUME NEW c \in Client, Forward(c) PROVE TypeOK'
  BY <1>10 DEF Forward
<1>11. ASSUME NEW c \in Client, Break(c) PROVE TypeOK'
  BY <1>11 DEF Break
<1>12. ASSUME NEW c \in Client, Unsubscribe(c) PROVE TypeOK'
  BY <1>12 DEF Unsubscribe, MayClose, Free
<1>13. ASSUME NEW c \in Client, OnMessage(c) PROVE TypeOK'
  BY <1>13 DEF OnMessage
<1>14. ASSUME NEW c \in Client, TimerFires(c) PROVE TypeOK'
  BY <1>14 DEF TimerFires, FreeSlot, Asked
<1>15. ASSUME NEW c \in Client, Show(c) PROVE TypeOK'
  BY <1>15 DEF Show
<1>16. ASSUME NEW c \in Client, Navigate(c) PROVE TypeOK'
  BY <1>16 DEF Navigate, FreeSlot, Asked
<1>17. ASSUME NEW c \in Client, Answer(c) PROVE TypeOK'
  <2>1. PICK r \in render[c] :
            render' = [render EXCEPT ![c] = (@ \ {r}) \cup {Answered(r)}]
      BY <1>17 DEF Answer
  <2>2. Answered(r) \in Refresh
      BY DEF Answered
  <2>3. render' \in [Client -> SUBSET Refresh]
      BY <2>1, <2>2
  <2>4. QED
      BY <1>17, <2>3 DEF Answer
<1>18. ASSUME NEW c \in Client, Freeze(c) PROVE TypeOK'
  BY <1>18 DEF Freeze
<1>19. CASE UNCHANGED vars
  BY <1>19 DEF vars, feed, page
<1>20. QED
  BY <1>1, <1>2, <1>3, <1>4, <1>5, <1>6, <1>7, <1>8, <1>9, <1>10,
     <1>11, <1>12, <1>13, <1>14, <1>15, <1>16, <1>17, <1>18, <1>19
  DEF Next, PublishStep, HandlerStep, PageStep

\* The stream's state keeps its types: in particular no channel holds more than
\* its capacity (publish).
THEOREM TypeCorrect == Spec => []TypeOK
<1>1. Init => TypeOK
  <2> SUFFICES ASSUME Init PROVE TypeOK
      OBVIOUS
  <2> USE StreamAssumption
  <2>1. Asked(1) \in Refresh
      BY DEF Asked, Refresh, Version
  <2>2. render \in [Client -> SUBSET Refresh]
      BY <2>1 DEF Init
  <2>3. version \in 1 .. MaxChanges + 1 /\ shown \in [Client -> Version]
      BY DEF Init, Version
  <2>4. queue \in [Client -> 0 .. Buffer] /\ breaks \in 0 .. MaxBreaks
      BY DEF Init
  <2>5. /\ pc \in [Publisher -> {"idle", "snapshot", "publish", "send"}]
        /\ todo \in [Publisher -> SUBSET Client]
        /\ conn \in [Client -> {"off", "greet", "stream", "gone"}]
        /\ subscribers \subseteq Client /\ frozen \subseteq Client
      BY DEF Init
  <2>6. /\ wire \in [Client -> BOOLEAN] /\ timer \in [Client -> BOOLEAN]
        /\ panicked \in BOOLEAN
      BY DEF Init
  <2>7. QED
      BY <2>2, <2>3, <2>4, <2>5, <2>6 DEF TypeOK
<1>2. QED
    BY <1>1, TypeStep, PTL DEF Spec

-----------------------------------------------------------------------------
(* Closed channels.                                                        *)

\* Every step keeps the channels of a publication open until it ends: who closes
\* one needs the mutex.
LEMMA SendStep == TypeOK /\ SendInv /\ [Next]_vars => SendInv'
<1> SUFFICES ASSUME TypeOK, SendInv, [Next]_vars PROVE SendInv'
    OBVIOUS
<1> USE DEF TypeOK, SendInv, feed, page
<1>1. ASSUME NEW p \in Publisher, Record(p) PROVE SendInv'
  BY <1>1 DEF Record, Changed, Goto, Free
<1>2. ASSUME NEW p \in Publisher, Control(p) PROVE SendInv'
  BY <1>2 DEF Control, Changed, Goto
<1>3. ASSUME NEW p \in Publisher, ClearHistory(p) PROVE SendInv'
  BY <1>3 DEF ClearHistory, Changed, Goto, Free
<1>4. ASSUME NEW p \in Publisher, TakeSnapshot(p) PROVE SendInv'
  BY <1>4 DEF TakeSnapshot, Goto, Free
<1>5. ASSUME NEW p \in Publisher, PublishBegin(p) PROVE SendInv'
  BY <1>5 DEF PublishBegin, Goto, Free
<1>6. ASSUME NEW p \in Publisher, Send(p) PROVE SendInv'
  BY <1>6 DEF Send, Sent, MaySend
<1>7. ASSUME NEW p \in Publisher, PublishEnd(p) PROVE SendInv'
  BY <1>7 DEF PublishEnd, Goto
<1>8. ASSUME NEW c \in Client, Connect(c) PROVE SendInv'
  BY <1>8 DEF Connect, Free, AfterSubscribe
<1>9. ASSUME NEW c \in Client, Greet(c) PROVE SendInv'
  BY <1>9 DEF Greet, Free
<1>10. ASSUME NEW c \in Client, Forward(c) PROVE SendInv'
  BY <1>10 DEF Forward
<1>11. ASSUME NEW c \in Client, Break(c) PROVE SendInv'
  BY <1>11 DEF Break
<1>12. ASSUME NEW c \in Client, Unsubscribe(c) PROVE SendInv'
  BY <1>12 DEF Unsubscribe, MayClose, Free
<1>13. ASSUME NEW c \in Client, OnMessage(c) PROVE SendInv'
  BY <1>13 DEF OnMessage
<1>14. ASSUME NEW c \in Client, TimerFires(c) PROVE SendInv'
  BY <1>14 DEF TimerFires, FreeSlot, Asked
<1>15. ASSUME NEW c \in Client, Show(c) PROVE SendInv'
  BY <1>15 DEF Show
<1>16. ASSUME NEW c \in Client, Navigate(c) PROVE SendInv'
  BY <1>16 DEF Navigate, FreeSlot, Asked
<1>17. ASSUME NEW c \in Client, Answer(c) PROVE SendInv'
  BY <1>17 DEF Answer, Free
<1>18. ASSUME NEW c \in Client, Freeze(c) PROVE SendInv'
  BY <1>18 DEF Freeze
<1>19. CASE UNCHANGED vars
  BY <1>19 DEF vars, feed, page
<1>20. QED
  BY <1>1, <1>2, <1>3, <1>4, <1>5, <1>6, <1>7, <1>8, <1>9, <1>10,
     <1>11, <1>12, <1>13, <1>14, <1>15, <1>16, <1>17, <1>18, <1>19
  DEF Next, PublishStep, HandlerStep, PageStep

\* However connections break while events are published, no publisher sends to
\* a closed channel (publish, unsubscribe).
THEOREM NeverSendsOnClosed == Spec => []NoSendOnClosed
<1>1. Init => SendInv
    BY DEF Init, SendInv
<1>2. SendInv => NoSendOnClosed
    BY DEF SendInv, NoSendOnClosed
<1>3. QED
    BY <1>1, <1>2, TypeCorrect, SendStep, PTL DEF Spec

-----------------------------------------------------------------------------
(* Stale pages.                                                            *)

\* Every step keeps connected pages subscribed: a handler unsubscribes last.
LEMMA SubscribedStep == TypeOK /\ Subscribed /\ [Next]_vars => Subscribed'
<1> SUFFICES ASSUME TypeOK, Subscribed, [Next]_vars PROVE Subscribed'
    OBVIOUS
<1> USE DEF TypeOK, Subscribed, feed, page
<1>1. ASSUME NEW p \in Publisher, Record(p) PROVE Subscribed'
  BY <1>1 DEF Record, Changed, Goto, Free
<1>2. ASSUME NEW p \in Publisher, Control(p) PROVE Subscribed'
  BY <1>2 DEF Control, Changed, Goto
<1>3. ASSUME NEW p \in Publisher, ClearHistory(p) PROVE Subscribed'
  BY <1>3 DEF ClearHistory, Changed, Goto, Free
<1>4. ASSUME NEW p \in Publisher, TakeSnapshot(p) PROVE Subscribed'
  BY <1>4 DEF TakeSnapshot, Goto, Free
<1>5. ASSUME NEW p \in Publisher, PublishBegin(p) PROVE Subscribed'
  BY <1>5 DEF PublishBegin, Goto, Free
<1>6. ASSUME NEW p \in Publisher, Send(p) PROVE Subscribed'
  BY <1>6 DEF Send, Sent, MaySend
<1>7. ASSUME NEW p \in Publisher, PublishEnd(p) PROVE Subscribed'
  BY <1>7 DEF PublishEnd, Goto
<1>8. ASSUME NEW c \in Client, Connect(c) PROVE Subscribed'
  BY <1>8 DEF Connect, Free, AfterSubscribe
<1>9. ASSUME NEW c \in Client, Greet(c) PROVE Subscribed'
  BY <1>9 DEF Greet, Free
<1>10. ASSUME NEW c \in Client, Forward(c) PROVE Subscribed'
  BY <1>10 DEF Forward
<1>11. ASSUME NEW c \in Client, Break(c) PROVE Subscribed'
  BY <1>11 DEF Break
<1>12. ASSUME NEW c \in Client, Unsubscribe(c) PROVE Subscribed'
  BY <1>12 DEF Unsubscribe, MayClose, Free
<1>13. ASSUME NEW c \in Client, OnMessage(c) PROVE Subscribed'
  BY <1>13 DEF OnMessage
<1>14. ASSUME NEW c \in Client, TimerFires(c) PROVE Subscribed'
  BY <1>14 DEF TimerFires, FreeSlot, Asked
<1>15. ASSUME NEW c \in Client, Show(c) PROVE Subscribed'
  BY <1>15 DEF Show
<1>16. ASSUME NEW c \in Client, Navigate(c) PROVE Subscribed'
  BY <1>16 DEF Navigate, FreeSlot, Asked
<1>17. ASSUME NEW c \in Client, Answer(c) PROVE Subscribed'
  BY <1>17 DEF Answer, Free
<1>18. ASSUME NEW c \in Client, Freeze(c) PROVE Subscribed'
  BY <1>18 DEF Freeze
<1>19. CASE UNCHANGED vars
  BY <1>19 DEF vars, feed, page
<1>20. QED
  BY <1>1, <1>2, <1>3, <1>4, <1>5, <1>6, <1>7, <1>8, <1>9, <1>10,
     <1>11, <1>12, <1>13, <1>14, <1>15, <1>16, <1>17, <1>18, <1>19
  DEF Next, PublishStep, HandlerStep, PageStep

\* With one slot, a second refresh does not begin before the first is shown.
LEMMA OneRefreshStep ==
    ASSUME MaxRenders = 1, TypeOK, OneRefresh, [Next]_vars
    PROVE  OneRefresh'
<1> USE DEF TypeOK, OneRefresh, Refresh, feed, page
<1>1. ASSUME NEW p \in Publisher, Record(p) PROVE OneRefresh'
  BY <1>1 DEF Record, Changed, Goto, Free
<1>2. ASSUME NEW p \in Publisher, Control(p) PROVE OneRefresh'
  BY <1>2 DEF Control, Changed, Goto
<1>3. ASSUME NEW p \in Publisher, ClearHistory(p) PROVE OneRefresh'
  BY <1>3 DEF ClearHistory, Changed, Goto, Free
<1>4. ASSUME NEW p \in Publisher, TakeSnapshot(p) PROVE OneRefresh'
  BY <1>4 DEF TakeSnapshot, Goto, Free
<1>5. ASSUME NEW p \in Publisher, PublishBegin(p) PROVE OneRefresh'
  BY <1>5 DEF PublishBegin, Goto, Free
<1>6. ASSUME NEW p \in Publisher, Send(p) PROVE OneRefresh'
  BY <1>6 DEF Send, Sent, MaySend
<1>7. ASSUME NEW p \in Publisher, PublishEnd(p) PROVE OneRefresh'
  BY <1>7 DEF PublishEnd, Goto
<1>8. ASSUME NEW c \in Client, Connect(c) PROVE OneRefresh'
  BY <1>8 DEF Connect, Free, AfterSubscribe
<1>9. ASSUME NEW c \in Client, Greet(c) PROVE OneRefresh'
  BY <1>9 DEF Greet, Free
<1>10. ASSUME NEW c \in Client, Forward(c) PROVE OneRefresh'
  BY <1>10 DEF Forward
<1>11. ASSUME NEW c \in Client, Break(c) PROVE OneRefresh'
  BY <1>11 DEF Break
<1>12. ASSUME NEW c \in Client, Unsubscribe(c) PROVE OneRefresh'
  BY <1>12 DEF Unsubscribe, MayClose, Free
<1>13. ASSUME NEW c \in Client, OnMessage(c) PROVE OneRefresh'
  BY <1>13 DEF OnMessage
<1>14. ASSUME NEW c \in Client, TimerFires(c) PROVE OneRefresh'
  BY <1>14 DEF TimerFires, FreeSlot, Asked
<1>15. ASSUME NEW c \in Client, Show(c) PROVE OneRefresh'
  BY <1>15 DEF Show
<1>16. ASSUME NEW c \in Client, Navigate(c) PROVE OneRefresh'
  BY <1>16 DEF Navigate, FreeSlot, Asked
<1>17. ASSUME NEW c \in Client, Answer(c) PROVE OneRefresh'
  BY <1>17 DEF Answer, Free
<1>18. ASSUME NEW c \in Client, Freeze(c) PROVE OneRefresh'
  BY <1>18 DEF Freeze
<1>19. CASE UNCHANGED vars
  BY <1>19 DEF vars, feed, page
<1>20. QED
  BY <1>1, <1>2, <1>3, <1>4, <1>5, <1>6, <1>7, <1>8, <1>9, <1>10,
     <1>11, <1>12, <1>13, <1>14, <1>15, <1>16, <1>17, <1>18, <1>19
  DEF Next, PublishStep, HandlerStep, PageStep

\* Every step keeps pages fresh or something coming: a change is announced until
\* every channel has it, a full channel has another event, and an event becomes
\* a timer, the timer a refresh and the refresh the present state.
LEMMA FreshStep ==
    ASSUME TypeOK, Subscribed, OneRefresh, FreshInv, [Next]_vars
    PROVE  FreshInv'
<1> USE StreamAssumption
  DEF TypeOK, FreshInv, Fresh, Coming, Announced, Version, Refresh, feed, page
<1>1. ASSUME NEW p \in Publisher, Record(p) PROVE FreshInv'
  BY <1>1 DEF Record, Changed, Goto, Free
<1>2. ASSUME NEW p \in Publisher, Control(p) PROVE FreshInv'
  BY <1>2 DEF Control, Changed, Goto
<1>3. ASSUME NEW p \in Publisher, ClearHistory(p) PROVE FreshInv'
  BY <1>3 DEF ClearHistory, Changed, Goto, Free
<1>4. ASSUME NEW p \in Publisher, TakeSnapshot(p) PROVE FreshInv'
  BY <1>4 DEF TakeSnapshot, Goto, Free
<1>5. ASSUME NEW p \in Publisher, PublishBegin(p) PROVE FreshInv'
  <2> SUFFICES ASSUME NEW c \in Client, conn[c] = "stream" PROVE Announced(c)'
      BY <1>5 DEF PublishBegin
  <2>1. c \in subscribers
      BY DEF Subscribed
  <2>2. c \in todo'[p]
      BY <1>5, <2>1 DEF PublishBegin
  <2>3. QED
      BY <2>2
<1>6. ASSUME NEW p \in Publisher, Send(p) PROVE FreshInv'
  BY <1>6 DEF Send, Sent, MaySend
<1>7. ASSUME NEW p \in Publisher, PublishEnd(p) PROVE FreshInv'
  BY <1>7 DEF PublishEnd, Goto
<1>8. ASSUME NEW c \in Client, Connect(c) PROVE FreshInv'
  BY <1>8 DEF Connect, Free, AfterSubscribe
<1>9. ASSUME NEW c \in Client, Greet(c) PROVE FreshInv'
  BY <1>9 DEF Greet, Free
<1>10. ASSUME NEW c \in Client, Forward(c) PROVE FreshInv'
  BY <1>10 DEF Forward
<1>11. ASSUME NEW c \in Client, Break(c) PROVE FreshInv'
  BY <1>11 DEF Break
<1>12. ASSUME NEW c \in Client, Unsubscribe(c) PROVE FreshInv'
  BY <1>12 DEF Unsubscribe, MayClose, Free
<1>13. ASSUME NEW c \in Client, OnMessage(c) PROVE FreshInv'
  BY <1>13 DEF OnMessage
<1>14. ASSUME NEW c \in Client, TimerFires(c) PROVE FreshInv'
  <2> SUFFICES ASSUME NEW d \in Client PROVE Fresh(d)'
      OBVIOUS
  <2>1. CASE d = c
    <3>1. PICK i \in FreeSlot(c) :
              render' = [render EXCEPT ![c] = @ \cup {Asked(i)}]
        BY <1>14 DEF TimerFires
    <3>2. Asked(i) \in render'[c] /\ Asked(i).st = "asked"
        BY <3>1 DEF Asked
    <3>3. QED
        BY <2>1, <3>2
  <2>2. CASE d # c
      BY <1>14, <2>2 DEF TimerFires
  <2>3. QED
      BY <2>1, <2>2
<1>15. ASSUME NEW c \in Client, Show(c) PROVE FreshInv'
  <2> SUFFICES ASSUME NEW d \in Client PROVE Fresh(d)'
      OBVIOUS
  <2>1. CASE d # c \/ Coming(d)
      BY <1>15, <2>1 DEF Show
  <2>2. CASE d = c /\ ~ Coming(c)
    <3>1. PICK r \in render[c] :
              /\ r.st = "answered"
              /\ render' = [render EXCEPT ![c] = @ \ {r}]
              /\ shown' = [shown EXCEPT ![c] = r.v]
        BY <1>15 DEF Show
    <3>2. render[c] = {r}
        BY DEF OneRefresh
    <3>3. r.v = version
        BY <2>2, <3>1, <3>2
    <3>4. QED
        BY <1>15, <2>2, <3>1, <3>2, <3>3 DEF Show
  <2>3. QED
      BY <2>1, <2>2
<1>16. ASSUME NEW c \in Client, Navigate(c) PROVE FreshInv'
  BY <1>16 DEF Navigate, FreeSlot, Asked
<1>17. ASSUME NEW c \in Client, Answer(c) PROVE FreshInv'
  <2> SUFFICES ASSUME NEW d \in Client PROVE Fresh(d)'
      OBVIOUS
  <2>1. CASE d # c
      BY <1>17, <2>1 DEF Answer
  <2>2. CASE d = c
    <3>1. PICK r \in render[c] :
              render' = [render EXCEPT ![c] = (@ \ {r}) \cup {Answered(r)}]
        BY <1>17 DEF Answer
    <3>2. Answered(r) \in render'[c] /\ Answered(r).v = version
        BY <3>1 DEF Answered
    <3>3. QED
        BY <1>17, <2>2, <3>2 DEF Answer
  <2>3. QED
      BY <2>1, <2>2
<1>18. ASSUME NEW c \in Client, Freeze(c) PROVE FreshInv'
  BY <1>18 DEF Freeze
<1>19. CASE UNCHANGED vars
  BY <1>19 DEF vars, feed, page
<1>20. QED
  BY <1>1, <1>2, <1>3, <1>4, <1>5, <1>6, <1>7, <1>8, <1>9, <1>10,
     <1>11, <1>12, <1>13, <1>14, <1>15, <1>16, <1>17, <1>18, <1>19
  DEF Next, PublishStep, HandlerStep, PageStep

\* While refreshes do not overlap, a page that shows something stale has
\* something coming that will refresh it, whatever events were dropped and
\* whenever its connection broke (record, publish, streamHandler,
\* scheduleRender).
THEOREM StalePagesRefresh ==
    ASSUME MaxRenders = 1
    PROVE  Spec => []StaleIsPending
<1> DEFINE IInv == Subscribed /\ OneRefresh /\ FreshInv
<1>1. Init => IInv
    BY DEF Init, Subscribed, OneRefresh, FreshInv, Fresh, Coming, Asked
<1>2. TypeOK /\ IInv /\ [Next]_vars => IInv'
    BY SubscribedStep, OneRefreshStep, FreshStep
<1>3. IInv => StaleIsPending
    BY DEF FreshInv, Fresh, StaleIsPending
<1>4. QED
    BY <1>1, <1>2, <1>3, TypeCorrect, PTL DEF Spec
=============================================================================
