------------------------------ MODULE ChangeEvents ------------------------------
(***************************************************************************)
(* How the consoles learn that something changed: the change broker of the *)
(* store (internal/store/storage_notify.go) and the handler of GET         *)
(* /api/events that hangs on it (internal/web/app.go).                     *)
(*                                                                         *)
(* A writer is a goroutine that changes stored data or the configuration   *)
(* (Insert, Delete, the gateway and proxy handlers) and then calls         *)
(* NotifyChange; the two are separate steps. NotifyChange holds the        *)
(* broker's mutex and offers a token to every subscriber's channel, which  *)
(* holds one; a full channel is skipped. A client is one event stream: its *)
(* handler subscribes, writes a first event, and then writes one event per *)
(* token it takes. An event carries no data, it makes the page read again, *)
(* so what matters is the version of the data at the time it is written.   *)
(*                                                                         *)
(* The 15 s heartbeat only finds out that a client has gone, which         *)
(* NoticeGone covers. The subscriber numbers of the code are never reused, *)
(* so a subscription is named by its client here.                          *)
(***************************************************************************)
EXTENDS Integers, FiniteSets

CONSTANTS Writers,     \* goroutines that change something
          Clients,     \* event streams
          Slow,        \* the clients that may stop reading without leaving
          MaxChanges,  \* bound on the number of changes
          NoOne        \* the mutex is free

ASSUME ConstantsAssumption == /\ MaxChanges \in Nat
                              /\ Slow \subseteq Clients
                              /\ NoOne \notin Writers

VARIABLES version,  \* how many changes the data has seen
          wpc,      \* where each writer is
          mu,       \* the writer inside NotifyChange that holds changeBroker.mu
          todo,     \* the subscribers its loop has not reached
          subs,     \* changeBroker.subs
          chan,     \* each client's channel: "closed", "empty" or "full"
          pc,       \* where each client's handler is
          gone,     \* the client left or its connection broke
          told      \* version at the last event written to this connection

vars == <<version, wpc, mu, todo, subs, chan, pc, gone, told>>
broker == <<version, wpc, mu, todo>>

Nothing == -1  \* told of a connection that was sent no event yet

Streaming == {"subscribe", "greet", "sent", "wait", "write", "leave"}
-------------------------------------------------------------------------------
Init == /\ version = 0
        /\ wpc = [w \in Writers |-> "idle"]
        /\ mu = NoOne
        /\ todo = {}
        /\ subs = {}
        /\ chan = [c \in Clients |-> "closed"]
        /\ pc = [c \in Clients |-> "off"]
        /\ gone = [c \in Clients |-> FALSE]
        /\ told = [c \in Clients |-> Nothing]

(***************************************************************************)
(* The writers. A change that failed does not get here: nothing changed    *)
(* and the code returns before NotifyChange.                               *)
(***************************************************************************)
\* Mutant: a writer that forgets to notify.
ChangeSilently(w) ==
  /\ wpc[w] = "idle"
  /\ version < MaxChanges
  /\ version' = version + 1
  /\ UNCHANGED <<wpc, mu, todo, subs, chan, pc, gone, told>>

Change(w) ==
  /\ wpc[w] = "idle"
  /\ version < MaxChanges
  /\ version' = version + 1
  /\ wpc' = [wpc EXCEPT ![w] = "changed"]
  /\ UNCHANGED <<mu, todo, subs, chan, pc, gone, told>>

NotifyLock(w) ==
  /\ wpc[w] = "changed"
  /\ mu = NoOne
  /\ mu' = w
  /\ todo' = subs
  /\ wpc' = [wpc EXCEPT ![w] = "notify"]
  /\ UNCHANGED <<version, subs, chan, pc, gone, told>>

\* Mutant of offer: a channel without a buffer, which only takes a token
\* while its receiver waits for one.
offerUnbuffered(c) ==
  chan' = [chan EXCEPT ![c] = IF pc[c] = "wait" THEN "full" ELSE @]

\* Mutant of offer: a send that waits for room or for the end of the stream.
offerBlocking(c) ==
  /\ chan[c] = "empty" \/ gone[c]
  /\ chan' = [chan EXCEPT ![c] = "full"]

\* select { case ch <- struct{}{}: default: }
offer(c) == chan' = [chan EXCEPT ![c] = "full"]

NotifyOne(w) ==
  /\ mu = w
  /\ \E c \in todo : /\ offer(c)
                     /\ todo' = todo \ {c}
  /\ UNCHANGED <<version, wpc, mu, subs, pc, gone, told>>

NotifyUnlock(w) ==
  /\ mu = w
  /\ todo = {}
  /\ mu' = NoOne
  /\ wpc' = [wpc EXCEPT ![w] = "idle"]
  /\ UNCHANGED <<version, todo, subs, chan, pc, gone, told>>
-------------------------------------------------------------------------------
(***************************************************************************)
(* The clients. A page opens an event stream and reopens it whenever the   *)
(* connection broke.                                                       *)
(***************************************************************************)
Connect(c) ==
  /\ pc[c] = "off"
  /\ pc' = [pc EXCEPT ![c] = "subscribe"]
  /\ gone' = [gone EXCEPT ![c] = FALSE]
  /\ told' = [told EXCEPT ![c] = Nothing]
  /\ UNCHANGED <<broker, subs, chan>>

Disconnect(c) ==
  /\ pc[c] \in Streaming
  /\ ~gone[c]
  /\ gone' = [gone EXCEPT ![c] = TRUE]
  /\ UNCHANGED <<broker, subs, chan, pc, told>>

SubscribeChanges(c) ==
  /\ pc[c] = "subscribe"
  /\ mu = NoOne
  /\ subs' = subs \cup {c}
  /\ chan' = [chan EXCEPT ![c] = "empty"]
  /\ pc' = [pc EXCEPT ![c] = "greet"]
  /\ UNCHANGED <<broker, gone, told>>

\* What one write of an event does for the client at the other end.
sendEvent(c) ==
  told' = IF gone[c] THEN told ELSE [told EXCEPT ![c] = version]

\* The first event. An error is ignored: the loop will meet it again.
Greet(c) ==
  /\ pc[c] = "greet"
  /\ sendEvent(c)
  /\ pc' = [pc EXCEPT ![c] = "sent"]
  /\ UNCHANGED <<broker, subs, chan, gone>>

\* Back to the select once the event is on its way.
Loop(c) ==
  /\ pc[c] = "sent"
  /\ pc' = [pc EXCEPT ![c] = "wait"]
  /\ UNCHANGED <<broker, subs, chan, gone, told>>

\* The select of the loop: a token is taken, ...
Receive(c) ==
  /\ pc[c] = "wait"
  /\ chan[c] = "full"
  /\ chan' = [chan EXCEPT ![c] = "empty"]
  /\ pc' = [pc EXCEPT ![c] = "write"]
  /\ UNCHANGED <<broker, subs, gone, told>>

\* ... or the request's context is done (or the heartbeat cannot be written).
NoticeGone(c) ==
  /\ pc[c] = "wait"
  /\ gone[c]
  /\ pc' = [pc EXCEPT ![c] = "leave"]
  /\ UNCHANGED <<broker, subs, chan, gone, told>>

\* A write to a client that has gone fails, or is still buffered.
Write(c) ==
  /\ pc[c] = "write"
  /\ sendEvent(c)
  /\ \E next \in {"sent"} \cup (IF gone[c] THEN {"leave"} ELSE {}) :
       pc' = [pc EXCEPT ![c] = next]
  /\ UNCHANGED <<broker, subs, chan, gone>>

\* Mutants of UnsubscribeChanges: the channel is closed without the mutex;
\* the subscription of a client that left is kept.
UnsubscribeUnlocked(c) ==
  /\ pc[c] = "leave"
  /\ subs' = subs \ {c}
  /\ chan' = [chan EXCEPT ![c] = "closed"]
  /\ pc' = [pc EXCEPT ![c] = "off"]
  /\ UNCHANGED <<broker, gone, told>>

UnsubscribeNothing(c) ==
  /\ pc[c] = "leave"
  /\ pc' = [pc EXCEPT ![c] = "off"]
  /\ UNCHANGED <<broker, subs, chan, gone, told>>

\* The deferred call of the handler.
UnsubscribeChanges(c) ==
  /\ pc[c] = "leave"
  /\ mu = NoOne
  /\ subs' = subs \ {c}
  /\ chan' = [chan EXCEPT ![c] = "closed"]
  /\ pc' = [pc EXCEPT ![c] = "off"]
  /\ UNCHANGED <<broker, gone, told>>
-------------------------------------------------------------------------------
WriterStep(w) == \/ Change(w)
                 \/ NotifyLock(w)
                 \/ NotifyOne(w)
                 \/ NotifyUnlock(w)

ClientStep(c) == \/ Connect(c)
                 \/ Disconnect(c)
                 \/ SubscribeChanges(c)
                 \/ Greet(c)
                 \/ Loop(c)
                 \/ Receive(c)
                 \/ NoticeGone(c)
                 \/ Write(c)
                 \/ UnsubscribeChanges(c)

Next == (\E w \in Writers : WriterStep(w)) \/ (\E c \in Clients : ClientStep(c))

(***************************************************************************)
(* A goroutine that can run does run. A sync.Mutex hands itself over to a  *)
(* waiter it has kept for more than a millisecond, so the acquisitions are *)
(* strongly fair, and Go's select picks at random among the ready arms, so *)
(* the arm that ends the loop is strongly fair too. A write ends when the  *)
(* client reads or has gone: nothing is assumed of a slow client that      *)
(* stays. Nobody has to change anything, connect or leave.                 *)
(***************************************************************************)
WriteEnds(c) == /\ c \notin Slow \/ gone[c]
                /\ Greet(c) \/ Write(c)

Fairness ==
  /\ \A w \in Writers : /\ SF_vars(NotifyLock(w))
                        /\ WF_vars(NotifyOne(w) \/ NotifyUnlock(w))
  /\ \A c \in Clients :
       /\ SF_vars(SubscribeChanges(c) \/ UnsubscribeChanges(c) \/ NoticeGone(c))
       /\ WF_vars(Loop(c) \/ Receive(c) \/ WriteEnds(c))

SafetySpec == Init /\ [][Next]_vars
Spec == SafetySpec /\ Fairness
-------------------------------------------------------------------------------
(***************************************************************************)
(* Type invariant, with what ties the variables together: the writer in    *)
(* the loop is the one that holds the mutex, and a stream has a            *)
(* subscription and an open channel from SubscribeChanges to               *)
(* UnsubscribeChanges (storage_notify.go:15-16, 25-45).                    *)
(***************************************************************************)
Subscribed == {"greet", "sent", "wait", "write", "leave"}

TypeOK == /\ version \in 0..MaxChanges
          /\ wpc \in [Writers -> {"idle", "changed", "notify"}]
          /\ mu \in Writers \cup {NoOne}
          /\ todo \subseteq Clients
          /\ subs \subseteq Clients
          /\ chan \in [Clients -> {"closed", "empty", "full"}]
          /\ pc \in [Clients -> Streaming \cup {"off"}]
          /\ gone \in [Clients -> BOOLEAN]
          /\ told \in [Clients -> Nothing..MaxChanges]
          /\ \A w \in Writers : wpc[w] = "notify" <=> mu = w
          /\ todo \subseteq subs
          /\ mu = NoOne => todo = {}
          /\ \A c \in Clients : /\ c \in subs <=> pc[c] \in Subscribed
                                /\ c \in subs <=> chan[c] # "closed"

(***************************************************************************)
(* NotifyChange never meets a closed channel: a send on one panics, and it *)
(* would panic in the goroutine that stored a log row, not in that of the  *)
(* client that left (storage_notify.go:17-21 against 41-43).               *)
(***************************************************************************)
NoSendOnClosedChannel ==
  /\ \A c \in todo : chan[c] # "closed"
  /\ \A c \in subs : chan[c] # "closed"

(***************************************************************************)
(* A token that NotifyChange drops because the channel is full is never    *)
(* missed: after a stream's handler wrote, its client was told of the      *)
(* newest version, or a token waits for the handler, or the writer of a    *)
(* newer version has still to reach this channel. Subscribing before the   *)
(* first event, a buffer of one and notifying after the change all matter  *)
(* here (app.go:364-369, 382-389, storage_notify.go:17-26).                *)
(***************************************************************************)
StillToNotify(c) == \E w \in Writers : \/ wpc[w] = "changed"
                                       \/ mu = w /\ c \in todo

NoChangeLost ==
  \A c \in Clients :
    pc[c] \in {"sent", "wait"} => \/ gone[c]
                                  \/ told[c] = version
                                  \/ chan[c] = "full"
                                  \/ StillToNotify(c)

(***************************************************************************)
(* The streams promise what ChangeFeed says: a client that keeps reading   *)
(* is told of every change made while it is connected, or of a later one,  *)
(* and never of more than there is (app.go:355-392, storage_notify.go).    *)
(***************************************************************************)
Feed == INSTANCE ChangeFeed
          WITH open <- {c \in Clients : pc[c] \in Streaming /\ ~gone[c]}

ImplementsFeed == Feed!Spec

(***************************************************************************)
(* A slow client never holds up the goroutine that stores a row: what      *)
(* NotifyChange was called for, it returns from (storage_notify.go:15-23). *)
(***************************************************************************)
NotifyReturns == \A w \in Writers : wpc[w] = "changed" ~> wpc[w] = "idle"

(***************************************************************************)
(* The subscription of a client that left does not stay in the broker for  *)
(* ever (app.go:365).                                                      *)
(***************************************************************************)
SubscriptionReleased == \A c \in Clients : gone[c] ~> (c \notin subs)
===============================================================================
