--------------------------- MODULE ChangeEventsProofs ---------------------------
(***************************************************************************)
(* The safety properties of ChangeEvents for any number of writers,        *)
(* clients and changes. The type invariant already says which handlers     *)
(* have a subscription and who holds the mutex; together with NoChangeLost *)
(* it is inductive, and NoSendOnClosedChannel follows from it.             *)
(***************************************************************************)
EXTENDS ChangeEvents, TLAPS

IInv == TypeOK /\ NoChangeLost

LEMMA TypeInit == Init => TypeOK
  BY ConstantsAssumption DEF Init, TypeOK, Nothing, Streaming, Subscribed

(***************************************************************************)
(* Every step keeps the type invariant.                                    *)
(***************************************************************************)
LEMMA WriterKeepsType == ASSUME TypeOK, NEW w \in Writers, WriterStep(w)
                         PROVE  TypeOK'
<1>1. CASE Change(w)
  BY <1>1, ConstantsAssumption DEF TypeOK, Change
<1>2. CASE NotifyLock(w)
  BY <1>2, ConstantsAssumption DEF TypeOK, NotifyLock
<1>3. CASE NotifyOne(w)
  <2>1. PICK c \in todo : offer(c) /\ todo' = todo \ {c}
    BY <1>3 DEF NotifyOne
  <2>2. c \in subs /\ c \in Clients
    BY <2>1 DEF TypeOK
  <2> QED
    BY <1>3, <2>1, <2>2, ConstantsAssumption DEF TypeOK, NotifyOne, offer
<1>4. CASE NotifyUnlock(w)
  BY <1>4, ConstantsAssumption DEF TypeOK, NotifyUnlock
<1> QED
  BY <1>1, <1>2, <1>3, <1>4 DEF WriterStep

LEMMA ClientKeepsType == ASSUME TypeOK, NEW c \in Clients, ClientStep(c)
                         PROVE  TypeOK'
<1> USE DEF Streaming, Subscribed, Nothing
<1>1. CASE Connect(c)
  BY <1>1, ConstantsAssumption DEF TypeOK, Connect, broker
<1>2. CASE Disconnect(c)
  BY <1>2 DEF TypeOK, Disconnect, broker
<1>3. CASE SubscribeChanges(c)
  BY <1>3 DEF TypeOK, SubscribeChanges, broker
<1>4. CASE Greet(c)
  BY <1>4, ConstantsAssumption DEF TypeOK, Greet, sendEvent, broker
<1>5. CASE Loop(c)
  BY <1>5 DEF TypeOK, Loop, broker
<1>6. CASE Receive(c)
  BY <1>6 DEF TypeOK, Receive, broker
<1>7. CASE NoticeGone(c)
  BY <1>7 DEF TypeOK, NoticeGone, broker
<1>8. CASE Write(c)
  <2>1. PICK next \in {"sent", "leave"} : pc' = [pc EXCEPT ![c] = next]
    BY <1>8 DEF Write
  <2> QED
    BY <1>8, <2>1, ConstantsAssumption DEF TypeOK, Write, sendEvent, broker
<1>9. CASE UnsubscribeChanges(c)
  \* The mutex is free, so no writer is in its loop with c still to reach.
  <2>1. todo \subseteq subs \ {c}
    BY <1>9, ConstantsAssumption DEF TypeOK, UnsubscribeChanges
  <2> QED
    BY <1>9, <2>1 DEF TypeOK, UnsubscribeChanges, broker
<1> QED
  BY <1>1, <1>2, <1>3, <1>4, <1>5, <1>6, <1>7, <1>8, <1>9 DEF ClientStep

(***************************************************************************)
(* Every step keeps NoChangeLost. A step matters to a stream c when it     *)
(* makes the version newer than what c was told, takes a token out of its  *)
(* channel, ends a notification, or lets its handler reach the select.     *)
(***************************************************************************)
Lost(c) == /\ pc[c] \in {"sent", "wait"}
           /\ ~gone[c]
           /\ told[c] # version
           /\ chan[c] # "full"

LEMMA LostIsNotified == NoChangeLost <=> \A c \in Clients : Lost(c) => StillToNotify(c)
  BY DEF NoChangeLost, Lost

LEMMA WriterKeepsNoChangeLost == ASSUME IInv, NEW w \in Writers, WriterStep(w)
                                 PROVE  NoChangeLost'
<1> USE DEF IInv
<1> SUFFICES ASSUME NEW c \in Clients, Lost(c)'
             PROVE  StillToNotify(c)'
  BY DEF NoChangeLost, Lost
<1>1. CASE Change(w)
  BY <1>1 DEF Change, TypeOK, StillToNotify
<1>2. CASE NotifyLock(w)
  \* The stream has a subscription, so the loop has it still to reach.
  <2>1. pc[c] \in Subscribed
    BY <1>2 DEF NotifyLock, Lost, Subscribed
  <2>2. c \in subs
    BY <2>1 DEF TypeOK
  <2> QED
    BY <1>2, <2>2 DEF NotifyLock, StillToNotify
<1>3. CASE NotifyOne(w)
  <2>1. PICK d \in todo : offer(d) /\ todo' = todo \ {d}
    BY <1>3 DEF NotifyOne
  <2>2. c # d
    BY <1>3, <2>1 DEF NotifyOne, offer, Lost, TypeOK
  <2>3. Lost(c)
    BY <1>3, <2>1, <2>2 DEF NotifyOne, offer, Lost, TypeOK
  <2>4. StillToNotify(c)
    BY <2>3 DEF NoChangeLost, Lost
  <2> QED
    BY <1>3, <2>1, <2>2, <2>4 DEF NotifyOne, StillToNotify
<1>4. CASE NotifyUnlock(w)
  <2>1. Lost(c)
    BY <1>4 DEF NotifyUnlock, Lost
  <2>2. PICK u \in Writers : wpc[u] = "changed" \/ (mu = u /\ c \in todo)
    BY <2>1 DEF NoChangeLost, Lost, StillToNotify
  \* The writer that unlocks has nobody left to reach: u is another one.
  <2>3. wpc[u] = "changed" /\ u # w
    BY <1>4, <2>2 DEF NotifyUnlock, TypeOK
  <2> QED
    BY <1>4, <2>3 DEF NotifyUnlock, StillToNotify, TypeOK
<1> QED
  BY <1>1, <1>2, <1>3, <1>4 DEF WriterStep

LEMMA ClientKeepsNoChangeLost == ASSUME IInv, NEW d \in Clients, ClientStep(d)
                                 PROVE  NoChangeLost'
<1> USE DEF IInv
<1> SUFFICES ASSUME NEW c \in Clients, Lost(c)'
             PROVE  StillToNotify(c)'
  BY DEF NoChangeLost, Lost
<1>1. UNCHANGED broker
  BY DEF ClientStep, Connect, Disconnect, SubscribeChanges, Greet, Loop, Receive,
         NoticeGone, Write, UnsubscribeChanges
<1>2. StillToNotify(c) => StillToNotify(c)'
  BY <1>1 DEF broker, StillToNotify
<1>3. ASSUME Lost(c) PROVE StillToNotify(c)'
  BY <1>2, <1>3 DEF NoChangeLost, Lost
<1>4. CASE Connect(d)
  BY <1>1, <1>3, <1>4 DEF Connect, Lost, TypeOK, broker
<1>5. CASE Disconnect(d)
  BY <1>1, <1>3, <1>5 DEF Disconnect, Lost, TypeOK, broker
<1>6. CASE SubscribeChanges(d)
  BY <1>1, <1>3, <1>6 DEF SubscribeChanges, Lost, TypeOK, broker
<1>7. CASE Greet(d)
  BY <1>1, <1>3, <1>7 DEF Greet, sendEvent, Lost, TypeOK, broker
<1>8. CASE Loop(d)
  BY <1>1, <1>3, <1>8 DEF Loop, Lost, TypeOK, broker
<1>9. CASE Receive(d)
  BY <1>1, <1>3, <1>9 DEF Receive, Lost, TypeOK, broker
<1>10. CASE NoticeGone(d)
  BY <1>1, <1>3, <1>10 DEF NoticeGone, Lost, TypeOK, broker
<1>11. CASE Write(d)
  BY <1>1, <1>3, <1>11 DEF Write, sendEvent, Lost, TypeOK, broker
<1>12. CASE UnsubscribeChanges(d)
  BY <1>1, <1>3, <1>12 DEF UnsubscribeChanges, Lost, TypeOK, broker
<1> QED
  BY <1>4, <1>5, <1>6, <1>7, <1>8, <1>9, <1>10, <1>11, <1>12 DEF ClientStep

(***************************************************************************)
(* The inductive invariant holds of every behaviour, whatever the          *)
(* interleaving of writers, streams and clients (storage_notify.go:11-45,  *)
(* app.go:355-392).                                                        *)
(***************************************************************************)
THEOREM EventsInvariance == SafetySpec => []IInv
<1>1. Init => IInv
  BY TypeInit DEF Init, IInv, NoChangeLost
<1>2. IInv /\ [Next]_vars => IInv'
  <2> SUFFICES ASSUME IInv, [Next]_vars PROVE IInv'
    OBVIOUS
  <2>1. ASSUME NEW w \in Writers, WriterStep(w) PROVE IInv'
    BY <2>1, WriterKeepsType, WriterKeepsNoChangeLost DEF IInv
  <2>2. ASSUME NEW c \in Clients, ClientStep(c) PROVE IInv'
    BY <2>2, ClientKeepsType, ClientKeepsNoChangeLost DEF IInv
  <2>3. CASE UNCHANGED vars
    <3>1. TypeOK'
      BY <2>3 DEF IInv, TypeOK, vars
    <3>2. NoChangeLost'
      BY <2>3 DEF IInv, NoChangeLost, StillToNotify, vars
    <3> QED
      BY <3>1, <3>2 DEF IInv
  <2> QED
    BY <2>1, <2>2, <2>3 DEF Next
<1> QED
  BY <1>1, <1>2, PTL DEF SafetySpec

(***************************************************************************)
(* Who holds the mutex, who has a subscription and what every variable     *)
(* ranges over (storage_notify.go:5-45).                                   *)
(***************************************************************************)
THEOREM EventsTypeCorrect == SafetySpec => []TypeOK
<1>1. IInv => TypeOK
  BY DEF IInv
<1> QED
  BY <1>1, EventsInvariance, PTL

(***************************************************************************)
(* No token that matters is dropped, for any number of clients and         *)
(* concurrent writers (storage_notify.go:17-22).                           *)
(***************************************************************************)
THEOREM NoLostChange == SafetySpec => []NoChangeLost
<1>1. IInv => NoChangeLost
  BY DEF IInv
<1> QED
  BY <1>1, EventsInvariance, PTL

(***************************************************************************)
(* NotifyChange never sends on a closed channel and so never panics        *)
(* (storage_notify.go:17-21 against 41-43).                                *)
(***************************************************************************)
THEOREM ChannelSafety == SafetySpec => []NoSendOnClosedChannel
<1>1. IInv => NoSendOnClosedChannel
  <2> SUFFICES ASSUME IInv, NEW c \in subs PROVE chan[c] # "closed"
    BY DEF IInv, TypeOK, NoSendOnClosedChannel
  <2>1. c \in Clients
    BY DEF IInv, TypeOK
  <2> QED
    BY <2>1 DEF IInv, TypeOK
<1> QED
  BY <1>1, EventsInvariance, PTL
(***************************************************************************)
(* Every step of writers and handlers is a step of ChangeFeed or none. A   *)
(* stream ends for its client when the client goes; what the handler does  *)
(* after that nobody sees.                                                 *)
(***************************************************************************)
OpenStreams == {c \in Clients : pc[c] \in Streaming /\ ~gone[c]}

LEMMA WriterFeeds == ASSUME TypeOK, NEW w \in Writers, WriterStep(w)
                     PROVE  [Feed!Next]_(Feed!feed)
<1> UNCHANGED <<pc, gone, told>>
  BY DEF WriterStep, Change, NotifyLock, NotifyOne, NotifyUnlock
<1> UNCHANGED OpenStreams
  BY DEF OpenStreams
<1>1. CASE Change(w)
  <2> Feed!Change
    BY <1>1 DEF Change, Feed!Change, OpenStreams
  <2> QED
    BY DEF Feed!Next
<1>2. CASE NotifyLock(w) \/ NotifyOne(w) \/ NotifyUnlock(w)
  BY <1>2 DEF NotifyLock, NotifyOne, NotifyUnlock, Feed!feed, OpenStreams
<1> QED
  BY <1>1, <1>2 DEF WriterStep

LEMMA SendFeeds == ASSUME TypeOK, NEW c \in Clients, sendEvent(c), UNCHANGED <<version, gone>>,
                          pc[c] \in Streaming, NEW next \in Streaming,
                          pc' = [pc EXCEPT ![c] = next]
                   PROVE  [Feed!Next]_(Feed!feed)
<1>1. OpenStreams' = OpenStreams
  BY DEF OpenStreams, TypeOK
<1>2. CASE gone[c] \/ told[c] = version
  <2> told' = told
    BY <1>2 DEF sendEvent, TypeOK
  <2> QED
    BY <1>1 DEF Feed!feed, OpenStreams
<1>3. CASE ~gone[c] /\ told[c] # version
  <2> Feed!Tell(c)
    BY <1>1, <1>3 DEF Feed!Tell, sendEvent, OpenStreams
  <2> QED
    BY DEF Feed!Next
<1> QED
  BY <1>2, <1>3

LEMMA ClientFeeds == ASSUME TypeOK, NEW c \in Clients, ClientStep(c)
                     PROVE  [Feed!Next]_(Feed!feed)
<1> USE DEF Streaming
<1>1. CASE Connect(c)
  <2>1. OpenStreams' = OpenStreams \cup {c} /\ c \notin OpenStreams
    BY <1>1 DEF Connect, OpenStreams, TypeOK
  <2> Feed!Open(c)
    BY <1>1, <2>1 DEF Connect, broker, Feed!Open, Feed!Untold, Nothing, OpenStreams
  <2> QED
    BY DEF Feed!Next
<1>2. CASE Disconnect(c)
  <2>1. OpenStreams' = OpenStreams \ {c} /\ c \in OpenStreams
    BY <1>2 DEF Disconnect, OpenStreams, TypeOK
  <2> Feed!Close(c)
    BY <1>2, <2>1 DEF Disconnect, broker, Feed!Close, OpenStreams
  <2> QED
    BY DEF Feed!Next
<1>3. CASE SubscribeChanges(c) \/ Loop(c) \/ Receive(c) \/ NoticeGone(c)
  <2>1. OpenStreams' = OpenStreams
    BY <1>3 DEF SubscribeChanges, Loop, Receive, NoticeGone, OpenStreams, TypeOK
  <2> QED
    BY <1>3, <2>1 DEF SubscribeChanges, Loop, Receive, NoticeGone, broker, Feed!feed,
                      OpenStreams
<1>4. CASE Greet(c)
  BY <1>4, SendFeeds DEF Greet, broker
<1>5. CASE Write(c)
  <2> PICK next \in {"sent", "leave"} : pc' = [pc EXCEPT ![c] = next]
    BY <1>5 DEF Write
  <2> QED
    BY <1>5, SendFeeds DEF Write, broker
<1>6. CASE UnsubscribeChanges(c)
  <2>1. OpenStreams' = OpenStreams \ {c}
    BY <1>6 DEF UnsubscribeChanges, OpenStreams, TypeOK
  <2>2. CASE c \in OpenStreams
    <3> Feed!Close(c)
      BY <1>6, <2>1, <2>2 DEF UnsubscribeChanges, broker, Feed!Close, OpenStreams
    <3> QED
      BY DEF Feed!Next
  <2>3. CASE c \notin OpenStreams
    BY <1>6, <2>1, <2>3 DEF UnsubscribeChanges, broker, Feed!feed, OpenStreams
  <2> QED
    BY <2>2, <2>3
<1> QED
  BY <1>1, <1>2, <1>3, <1>4, <1>5, <1>6 DEF ClientStep

(***************************************************************************)
(* The event streams refine ChangeFeed: a client is only told of versions  *)
(* that are current when it is, and only while its stream is open          *)
(* (app.go:355-392, storage_notify.go:11-45). That it is told at all rests *)
(* on fairness and is left to TLC (ImplementsFeed).                        *)
(***************************************************************************)
THEOREM FeedSafety == SafetySpec => Feed!SafetySpec
<1>1. Init => Feed!Init
  BY DEF Init, Feed!Init, Feed!Untold, Nothing, Streaming
<1>2. TypeOK /\ [Next]_vars => [Feed!Next]_(Feed!feed)
  <2> SUFFICES ASSUME TypeOK, [Next]_vars PROVE [Feed!Next]_(Feed!feed)
    OBVIOUS
  <2>1. CASE UNCHANGED vars
    BY <2>1 DEF vars, Feed!feed
  <2> QED
    BY <2>1, WriterFeeds, ClientFeeds DEF Next
<1> QED
  BY <1>1, <1>2, EventsTypeCorrect, PTL DEF SafetySpec, Feed!SafetySpec
===============================================================================
