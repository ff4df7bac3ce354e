------------------------------- MODULE ChangeFeed -------------------------------
(***************************************************************************)
(* What /api/events promises a client: while its stream is open, it is     *)
(* told of every change made, or of a later one, whatever other clients    *)
(* and the writers do. ChangeEvents implements it; ConsolePage relies on   *)
(* nothing else of it.                                                     *)
(***************************************************************************)
EXTENDS Integers

CONSTANTS Clients,    \* event streams
          Slow,       \* the clients that may stop reading without leaving
          MaxChanges  \* bound on the number of changes

VARIABLES version,  \* how many changes there were
          open,     \* the clients whose stream is open
          told      \* version at the last event each was written

feed == <<version, open, told>>

Untold == -1
-------------------------------------------------------------------------------
Init == /\ version = 0
        /\ open = {}
        /\ told = [c \in Clients |-> Untold]

Change == /\ version < MaxChanges
          /\ version' = version + 1
          /\ UNCHANGED <<open, told>>

Open(c) == /\ c \notin open
           /\ open' = open \cup {c}
           /\ told' = [told EXCEPT ![c] = Untold]
           /\ UNCHANGED version

Close(c) == /\ c \in open
            /\ open' = open \ {c}
            /\ UNCHANGED <<version, told>>

Tell(c) == /\ c \in open
           /\ told[c] # version
           /\ told' = [told EXCEPT ![c] = version]
           /\ UNCHANGED <<version, open>>

Next == Change \/ \E c \in Clients : Open(c) \/ Close(c) \/ Tell(c)

SafetySpec == Init /\ [][Next]_feed
Spec == SafetySpec /\ \A c \in Clients \ Slow : WF_feed(Tell(c))
===============================================================================
