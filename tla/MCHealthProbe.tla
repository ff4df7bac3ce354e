----------------------------- MODULE MCHealthProbe -----------------------------
(***************************************************************************)
(* A small instance of Routing with HealthProbe: a built-in gateway, one   *)
(* that can be deleted and added anew, and a console path; two changes;    *)
(* one client's request, one test of a gateway, and the ticker. Requests   *)
(* meet each other, and tests, only in the configuration, so one request   *)
(* is enough, and it need not come in a behaviour in which the test comes. *)
(***************************************************************************)
EXTENDS HealthProbe

CONSTANTS st, team, ui, m1, m2, r1, t1

MCBuiltins == {st}
MCCustoms == {team}
MCReserved == {ui}
MCManagers == {m1, m2}
MCRequests == {r1}
MCTesters == {t1}

Proxied == [enabled |-> TRUE, base |-> "upstream", useProxy |-> TRUE]
Unset == [enabled |-> TRUE, base |-> "none", useProxy |-> TRUE]
Unproxied == [enabled |-> TRUE, base |-> "other", useProxy |-> FALSE]
Off == [enabled |-> FALSE, base |-> "upstream", useProxy |-> TRUE]

MCSettings == {Proxied, Unset, Unproxied, Off}
MCAdded == {Proxied}
MCInitial == [i \in MCBuiltins \cup MCCustoms |-> Proxied]
===============================================================================
