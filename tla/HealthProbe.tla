------------------------------ MODULE HealthProbe ------------------------------
(***************************************************************************)
(* The health checks of internal/web/app.go, composed with Routing: the    *)
(* goroutine that asks every enabled gateway's upstream, one after another *)
(* and again at each tick, and the handler that tests one gateway, which   *)
(* may be disabled, at once. Both write the map that /healthz shows. Each  *)
(* works on the configuration it read when it began; an answer, or the     *)
(* timeout of 5 s, may come when that is no longer in force, or when the   *)
(* gateway is gone. Nothing takes an entry out of the map.                 *)
(*                                                                         *)
(* What the upstream answers is left out: an entry is the settings it was  *)
(* asked with and the proxy it was asked through.                          *)
(***************************************************************************)
EXTENDS Routing

CONSTANTS Ticker,   \* the goroutine of StartHealthCheck
          Testers,  \* requests to test a gateway
          Nothing   \* no entry

Probers == {Ticker} \cup Testers

VARIABLES upstreams,  \* the map, by gateway id
          todo,       \* what is left of the round: ids and settings
          probe       \* the probe each prober makes

probing == <<upstreams, todo, probe>>
healthVars == <<routing, probing>>
-------------------------------------------------------------------------------
HealthInit == /\ RoutingInit
              /\ upstreams = [i \in Ids |-> Nothing]
              /\ todo = {}
              /\ probe = [p \in Probers |-> [at |-> "idle"]]

Enabled == {i \in DOMAIN conf.gateways : conf.gateways[i].enabled}

\* Mutant of checkAll: the snapshot is taken when the program starts.
CheckAllOfStart == /\ todo = {} /\ probe[Ticker].at = "idle"
                   /\ todo' = {[id |-> i, of |-> Initial[i]] : i \in DOMAIN Initial}
                   /\ UNCHANGED <<routing, upstreams, probe>>

\* A tick, or the start of the goroutine.
checkAll == /\ todo = {} /\ probe[Ticker].at = "idle"
            /\ todo' = {[id |-> i, of |-> conf.gateways[i]] : i \in Enabled}
            /\ UNCHANGED <<routing, upstreams, probe>>

\* checkUpstream picks the client; without a base URL there is nobody to ask.
asked(i, s) == [at |-> "set", id |-> i,
                is |-> [of |-> s,
                        via |-> IF s.base = NoBase THEN Direct ELSE ClientFor(s)]]

\* The order of a round is that of a Go map.
NextOfRound == /\ probe[Ticker].at = "idle"
               /\ \E e \in todo :
                    /\ todo' = todo \ {e}
                    /\ probe' = [probe EXCEPT ![Ticker] = asked(e.id, e.of)]
               /\ UNCHANGED <<routing, upstreams>>

\* An unknown gateway is answered with 404 and nothing else.
handleTestGateway(t) ==
  /\ probe[t].at = "idle"
  /\ served < MaxServed
  /\ served' = served + 1
  /\ \E i \in DOMAIN conf.gateways :
       probe' = [probe EXCEPT ![t] = [at |-> "ask", id |-> i,
                                      of |-> conf.gateways[i]]]
  /\ UNCHANGED <<management, req, inForce, upstreams, todo>>

checkUpstream(t) ==
  /\ probe[t].at = "ask"
  /\ probe' = [probe EXCEPT ![t] = asked(@.id, @.of)]
  /\ UNCHANGED <<routing, upstreams, todo>>

setHealth(p) ==
  /\ probe[p].at = "set"
  /\ upstreams' = [upstreams EXCEPT ![probe[p].id] = probe[p].is]
  /\ probe' = [probe EXCEPT ![p] = [at |-> IF p = Ticker THEN "idle" ELSE "done"]]
  /\ UNCHANGED <<routing, todo>>
-------------------------------------------------------------------------------
Rounds == checkAll \/ NextOfRound
Probe(p) == checkUpstream(p) \/ setHealth(p)

HealthNext == \/ RoutingNext /\ UNCHANGED probing
              \/ Rounds
              \/ \E t \in Testers : handleTestGateway(t)
              \/ \E p \in Probers : Probe(p)

(***************************************************************************)
(* The ticker ticks, a probe ends after 5 s at the latest, and a manager   *)
(* answers what it has committed. No request has to come.                  *)
(***************************************************************************)
HealthFairness == /\ WF_healthVars(Rounds)
                  /\ \A p \in Probers : WF_healthVars(Probe(p))
                  /\ \A m \in Managers : WF_healthVars(Manage(m) /\ UNCHANGED probing)

HealthSafety == HealthInit /\ [][HealthNext]_healthVars
HealthSpec == HealthSafety /\ HealthFairness
-------------------------------------------------------------------------------
(***************************************************************************)
(* Once the configuration stays as it is, /healthz comes to show of every  *)
(* enabled gateway what was asked with its present settings and with the   *)
(* clients the requests are sent with, and stays so: a late answer of an   *)
(* older probe does not last. These clients are those of the present proxy *)
(* URL, unless a change of it that met another one installed them          *)
(* (app.go:424-432). Of a gateway that was disabled or deleted it shows    *)
(* the last answer for good (app.go:108-193).                              *)
(***************************************************************************)
HealthSettles ==
  <>[](\A i \in Enabled :
         /\ upstreams[i] # Nothing
         /\ upstreams[i].of = conf.gateways[i]
         /\ upstreams[i].of.useProxy /\ upstreams[i].of.base # NoBase
              => /\ upstreams[i].via = installed
                 /\ installed = conf.proxy \/ raced)
===============================================================================
