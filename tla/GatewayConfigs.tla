----------------------------- MODULE GatewayConfigs -----------------------------
(***************************************************************************)
(* What the configuration is, which configuration a config.json on disk    *)
(* stands for, and what each management request makes of one               *)
(* (internal/config/config.go). Constant-level: ConfigRegister and         *)
(* ConfigStore build on it.                                                *)
(*                                                                         *)
(* Of a gateway what validation and loading tell apart is kept: the client *)
(* model key its name maps to, what kind of base URL it has, the user      *)
(* agent and whether it overrides the client's, and the session affinity.  *)
(* The other fields are stored and loaded as they are.                     *)
(***************************************************************************)
EXTENDS Integers, FiniteSets

CONSTANTS Builtins,   \* DefaultGateways
          Customs,    \* ids a user may add: they match customGatewayIDPattern
          Legacy,     \* legacyGatewayIDs
          Keys,       \* client model keys
          OwnKey,     \* the key of a gateway's default name
          OwnBase,    \* the base URL a built-in gateway comes with
          OwnAgent,   \* DefaultUserAgentOverride of this build
          ProxyURLs,  \* proxy URLs that ValidateProxyURL accepts
          Ops,        \* the management requests that are made
          NoFile      \* there is no config.json

Ids == Builtins \cup Customs \cup Legacy

\* No URL, an HTTPS URL, and one that ValidateConfig refuses.
Bases == {"none", "https", "http"}

\* The kinds of user agent: no text (a file then has no such field), white
\* space, grok-gateway-proxy/dev, this build's, and any other.
Agents == {"none", "blank", "dev", OwnAgent, "other"}

\* No text, the default mode, another mode, and what is no mode.
Affinities == {"none", "openai", "off", "bad"}

Switches == {"on", "off"}

Missing == "missing"  \* a field that a file or a request leaves out

(***************************************************************************)
(* The management requests, as records; a field that does not matter is    *)
(* left out of the record.                                                 *)
(***************************************************************************)
Requests ==
  [kind : {"add"}, id : Ids, key : Keys \cup {Missing}, base : Bases]
    \cup [kind : {"delete"}, id : Ids]
    \cup [kind : {"patch"}, id : Ids,
          key : Keys \cup {Missing}, base : Bases \cup {Missing},
          agent : Agents \cup {Missing}, override : Switches \cup {Missing},
          affinity : Affinities \cup {Missing}]
    \cup [kind : {"proxy"}, url : ProxyURLs \cup {"bad"}]

ASSUME GatewayAssumption ==
  /\ Builtins \cap Customs = {}
  /\ Legacy \cap (Builtins \cup Customs) = {}
  /\ OwnKey \in [Ids -> Keys]
  /\ OwnBase \in [Builtins -> {"none", "https"}]
  /\ Missing \notin Keys
  /\ OwnAgent \notin {"none", "blank", Missing}
  /\ "none" \in ProxyURLs
  /\ "bad" \notin ProxyURLs
  /\ Ops \subseteq Requests

Gateway == [key : Keys, base : Bases,
            agent : Agents, override : Switches, affinity : Affinities]
Config == [gateways : UNION {[S -> Gateway] : S \in SUBSET (Builtins \cup Customs)},
           proxy : ProxyURLs \cup {"bad"}]

\* A file may also list gateways of other builds and leave fields out; an
\* override left out is off.
StoredGateway == [key : Keys \cup {Missing}, base : Bases \cup {Missing},
                  agent : Agents, override : Switches, affinity : Affinities]
Listing(S) == [gateways : [S -> StoredGateway], proxy : ProxyURLs \cup {"bad"}]
File == UNION {Listing(S) : S \in SUBSET Ids}

OrElse(field, default) == IF field = Missing THEN default ELSE field
-------------------------------------------------------------------------------
\* Mutant of ValidateConfig: an override needs no user agent.
ValidateAnyAgent(c) ==
  /\ \A i \in DOMAIN c.gateways : /\ c.gateways[i].base # "http"
                                 /\ c.gateways[i].affinity # "bad"
  /\ c.proxy # "bad"

ValidateConfig(c) ==
  /\ \A i \in DOMAIN c.gateways :
       /\ c.gateways[i].base # "http"
       /\ c.gateways[i].override = "on" => c.gateways[i].agent \notin {"none", "blank"}
       /\ c.gateways[i].affinity # "bad"
  /\ c.proxy # "bad"

ValidateGatewayModelKeys(c) ==
  \A i, j \in DOMAIN c.gateways :
    c.gateways[i].key = c.gateways[j].key => i = j
-------------------------------------------------------------------------------
(***************************************************************************)
(* LoadConfig: built-in gateways are always there, those of removed builds *)
(* never, and what the file leaves out is filled in. A user agent that is  *)
(* grok-gateway-proxy/dev counts as left out.                              *)
(***************************************************************************)
NewGateway(key, base) ==
  [key |-> key, base |-> base,
   agent |-> OwnAgent, override |-> "off", affinity |-> "openai"]

DefaultConfig == [gateways |-> [i \in Builtins |-> NewGateway(OwnKey[i], OwnBase[i])],
                  proxy |-> "none"]

loadedAgent(agent) == IF agent \in {"none", "dev"} THEN OwnAgent ELSE agent

loadedAffinity(affinity) == IF affinity = "none" THEN "openai" ELSE affinity

filledIn(i, stored) ==
  [key |-> OrElse(stored.key, OwnKey[i]),
   base |-> OrElse(stored.base, IF i \in Builtins THEN OwnBase[i] ELSE "none"),
   agent |-> loadedAgent(stored.agent),
   override |-> stored.override,
   affinity |-> loadedAffinity(stored.affinity)]

mergeGateways(stored) ==
  [i \in Builtins \cup (DOMAIN stored \ Legacy) |->
     IF i \in DOMAIN stored THEN filledIn(i, stored[i])
                            ELSE DefaultConfig.gateways[i]]

LoadConfig(file) ==
  IF file = NoFile
    THEN DefaultConfig
    ELSE [gateways |-> mergeGateways(file.gateways), proxy |-> file.proxy]

\* LoadConfig ends with the validation: without it the program does not start.
Loadable(file) == ValidateConfig(LoadConfig(file))

\* ShouldPersist: the file lacks a built-in gateway or lists a removed one.
ShouldPersist(file) ==
  file = NoFile \/ Builtins \cup (DOMAIN file.gateways \ Legacy) # DOMAIN file.gateways
-------------------------------------------------------------------------------
(***************************************************************************)
(* What a complete configuration is after it was saved and loaded again:   *)
(* a user agent or an affinity that counts as left out does not survive.   *)
(***************************************************************************)
reloaded(g) == [g EXCEPT !.agent = loadedAgent(@), !.affinity = loadedAffinity(@)]

Reloaded(c) == [gateways |-> [i \in DOMAIN c.gateways |-> reloaded(c.gateways[i])],
                proxy |-> c.proxy]

\* What of a gateway a request is served with.
EffectiveSessionAffinity(g) == IF g.affinity = "none" THEN "openai" ELSE g.affinity

InForce(g) == [key |-> g.key, base |-> g.base, affinity |-> EffectiveSessionAffinity(g),
               agent |-> IF g.override = "on" THEN g.agent ELSE "the client's"]
-------------------------------------------------------------------------------
(***************************************************************************)
(* What each management request makes of a configuration.                  *)
(***************************************************************************)
AddGateway(op, c) ==
  [c EXCEPT !.gateways =
     [i \in DOMAIN @ \cup {op.id} |->
        IF i = op.id THEN NewGateway(OrElse(op.key, OwnKey[op.id]), op.base)
                     ELSE c.gateways[i]]]

DeleteGateway(op, c) ==
  [c EXCEPT !.gateways = [i \in DOMAIN @ \ {op.id} |-> c.gateways[i]]]

patched(op, g) == [key |-> OrElse(op.key, g.key),
                   base |-> OrElse(op.base, g.base),
                   agent |-> OrElse(op.agent, g.agent),
                   override |-> OrElse(op.override, g.override),
                   affinity |-> OrElse(op.affinity, g.affinity)]

PatchGateway(op, c) ==
  [c EXCEPT !.gateways =
     [i \in DOMAIN @ |->
        IF i = op.id THEN patched(op, c.gateways[i]) ELSE c.gateways[i]]]

SetProxyURL(op, c) == [c EXCEPT !.proxy = op.url]

Apply(op, c) == CASE op.kind = "add" -> AddGateway(op, c)
                  [] op.kind = "delete" -> DeleteGateway(op, c)
                  [] op.kind = "patch" -> PatchGateway(op, c)
                  [] op.kind = "proxy" -> SetProxyURL(op, c)

\* What is refused whatever the configuration, before the lock is taken.
Admissible(op) ==
  /\ op.kind = "add" => op.id \in Customs
  /\ op.kind = "delete" => op.id \notin Builtins
  /\ op.kind = "proxy" => op.url # "bad"

\* Mutants of Accepts: commitLocked without one of its two validations.
AcceptsUnvalidated(op, c) ==
  /\ op.kind = "add" => op.id \notin DOMAIN c.gateways
  /\ op.kind \in {"delete", "patch"} => op.id \in DOMAIN c.gateways
  /\ op.kind # "proxy" => ValidateGatewayModelKeys(Apply(op, c))

AcceptsAnyKey(op, c) ==
  /\ op.kind = "add" => op.id \notin DOMAIN c.gateways
  /\ op.kind \in {"delete", "patch"} => op.id \in DOMAIN c.gateways
  /\ ValidateConfig(Apply(op, c))

\* What is refused under the lock.
Accepts(op, c) ==
  /\ op.kind = "add" => op.id \notin DOMAIN c.gateways
  /\ op.kind \in {"delete", "patch"} => op.id \in DOMAIN c.gateways
  /\ ValidateConfig(Apply(op, c))
  /\ op.kind # "proxy" => ValidateGatewayModelKeys(Apply(op, c))
===============================================================================
