---------------------------- MODULE ConfigStoreProofs ----------------------------
(***************************************************************************)
(* The safety properties of ConfigStore for any number of requests, of     *)
(* gateways and of initial files, and that it implements ConfigRegister.   *)
(*                                                                         *)
(* What makes the argument work is what saving a configuration that may    *)
(* run and loading it again makes of it (LoadOfSaved): the defaults for    *)
(* what counts as left out, and nothing else, so that a loaded one is a    *)
(* fixed point (LoadedStays), and a request accepted of the running one is *)
(* accepted of the loaded one and comes to the same (RequestsAgree). The   *)
(* inductive invariant says where the configuration that counts is at each *)
(* moment: on disk, and, unless a handler is in the middle of a save, also *)
(* in memory; during a save it is the old one, and the one in memory is    *)
(* what the handler's request makes of it.                                 *)
(***************************************************************************)
EXTENDS ProxyInstall, TLAPS

GatewaySets(T) == UNION {[S -> T] : S \in SUBSET (Builtins \cup Customs)}

\* During a save, memory holds what the request makes of the saved value.
Saving == \A h \in Handlers :
            pc[h] = "save" => /\ LoadConfig(file) = Reloaded(old)
                              /\ Accepts(op[h], old)
                              /\ mem = Apply(op[h], old)

Agreeing == up /\ holder = NoOne => LoadConfig(file) = Reloaded(mem)

IInv == TypeOK /\ FileLoadable /\ Agreeing /\ Saving
-------------------------------------------------------------------------------
(***************************************************************************)
(* Lemmas about what is loaded and what the requests make of it.           *)
(***************************************************************************)
LEMMA GatewayMap ==
  ASSUME NEW S \in SUBSET (Builtins \cup Customs), NEW g \in [S -> Gateway]
  PROVE  g \in UNION {[R -> Gateway] : R \in SUBSET (Builtins \cup Customs)}
  OBVIOUS

LEMMA ConfigParts ==
  ASSUME NEW c \in Config
  PROVE  /\ DOMAIN c.gateways \in SUBSET (Builtins \cup Customs)
         /\ c.gateways \in [DOMAIN c.gateways -> Gateway]
         /\ c.proxy \in ProxyURLs \cup {"bad"}
         /\ c = [gateways |-> c.gateways, proxy |-> c.proxy]
  BY DEF Config

LEMMA RunningParts ==
  ASSUME NEW c \in Running
  PROVE  /\ c \in Config
         /\ Builtins \subseteq DOMAIN c.gateways
         /\ DOMAIN c.gateways \in SUBSET (Builtins \cup Customs)
         /\ c.gateways \in [DOMAIN c.gateways -> Gateway]
         /\ c.proxy \in ProxyURLs
         /\ c = [gateways |-> c.gateways, proxy |-> c.proxy]
  BY ConfigParts DEF Running, ValidateConfig

\* A record of the two fields is a configuration; if it validates it may run.
LEMMA MakeConfig ==
  ASSUME NEW S \in SUBSET (Builtins \cup Customs), Builtins \subseteq S,
         NEW g \in [S -> Gateway], NEW p \in ProxyURLs \cup {"bad"}
  PROVE  /\ [gateways |-> g, proxy |-> p] \in Config
         /\ Builtins \subseteq DOMAIN [gateways |-> g, proxy |-> p].gateways
<1>1. g \in UNION {[R -> Gateway] : R \in SUBSET (Builtins \cup Customs)}
  BY GatewayMap
<1>2. [gateways |-> g, proxy |-> p] \in Config
  BY <1>1 DEF Config
<1>3. DOMAIN g = S
  OBVIOUS
<1> QED
  BY <1>2, <1>3

LEMMA MakeRunning ==
  ASSUME NEW S \in SUBSET (Builtins \cup Customs), Builtins \subseteq S,
         NEW g \in [S -> Gateway], NEW p \in ProxyURLs \cup {"bad"},
         ValidateConfig([gateways |-> g, proxy |-> p])
  PROVE  [gateways |-> g, proxy |-> p] \in Running
  BY MakeConfig DEF Running

\* The fields that a load may replace, and what it replaces them by.
LEMMA LoadedFields ==
  ASSUME NEW a \in Agents, NEW f \in Affinities
  PROVE  /\ loadedAgent(a) \in Agents
         /\ loadedAgent(loadedAgent(a)) = loadedAgent(a)
         /\ loadedAgent(a) = "none" => FALSE
         /\ loadedAgent(a) = "blank" => a = "blank"
         /\ loadedAgent(a) = a \/ a \in {"none", "dev"}
         /\ loadedAffinity(f) \in Affinities
         /\ loadedAffinity(loadedAffinity(f)) = loadedAffinity(f)
         /\ loadedAffinity(f) = "bad" => f = "bad"
         /\ loadedAffinity(f) # "none"
  BY GatewayAssumption DEF Agents, Affinities, loadedAgent, loadedAffinity

LEMMA NewIsGateway ==
  ASSUME NEW k \in Keys, NEW b \in Bases
  PROVE  NewGateway(k, b) \in Gateway /\ reloaded(NewGateway(k, b)) = NewGateway(k, b)
  BY GatewayAssumption
     DEF NewGateway, Gateway, Agents, Affinities, Switches, reloaded, loadedAgent, loadedAffinity

LEMMA FilledIn ==
  ASSUME NEW i \in Builtins \cup Customs, NEW s \in StoredGateway
  PROVE  filledIn(i, s) \in Gateway /\ reloaded(filledIn(i, s)) = filledIn(i, s)
<1>1. OrElse(s.key, OwnKey[i]) \in Keys
  BY GatewayAssumption DEF StoredGateway, OrElse, Ids
<1>2. OrElse(s.base, IF i \in Builtins THEN OwnBase[i] ELSE "none") \in Bases
  BY GatewayAssumption DEF StoredGateway, OrElse, Bases
<1>3. s.agent \in Agents /\ s.override \in Switches /\ s.affinity \in Affinities
  BY DEF StoredGateway
<1> DEFINE f == filledIn(i, s)
<1>4. /\ f \in Gateway
      /\ f.agent = loadedAgent(s.agent) /\ f.affinity = loadedAffinity(s.affinity)
  BY <1>1, <1>2, <1>3, LoadedFields DEF filledIn, Gateway
<1>5. loadedAgent(f.agent) = f.agent /\ loadedAffinity(f.affinity) = f.affinity
  BY <1>3, <1>4, LoadedFields
<1> HIDE DEF f
<1>6. reloaded(f) = f
  BY <1>4, <1>5 DEF reloaded, Gateway
<1> QED
  BY <1>4, <1>6 DEF f

\* What is loaded has every built-in gateway and no removed one.
LEMMA LoadMayRun ==
  ASSUME NEW f \in File \cup {NoFile}, Loadable(f)
  PROVE  LoadConfig(f) \in Running
<1>1. CASE f = NoFile
  <2> DEFINE g == [i \in Builtins |-> NewGateway(OwnKey[i], OwnBase[i])]
  <2>1. g \in [Builtins -> Gateway]
    BY GatewayAssumption, NewIsGateway DEF Ids, Bases
  <2>2. LoadConfig(f) = [gateways |-> g, proxy |-> "none"]
    BY <1>1 DEF LoadConfig, DefaultConfig
  <2>3. "none" \in ProxyURLs \cup {"bad"}
    BY GatewayAssumption
  <2> HIDE DEF g
  <2> QED
    BY <2>1, <2>2, <2>3, MakeRunning DEF Loadable
<1>2. CASE f # NoFile
  <2> DEFINE D == DOMAIN f.gateways
             S == Builtins \cup (D \ Legacy)
             g == mergeGateways(f.gateways)
  <2>1. PICK R \in SUBSET Ids : f.gateways \in [R -> StoredGateway]
    BY <1>2 DEF File, Listing
  <2>2. S \in SUBSET (Builtins \cup Customs)
    BY <2>1 DEF Ids
  <2>3. ASSUME NEW i \in S PROVE g[i] \in Gateway
    <3>1. CASE i \in D
      BY <2>1, <2>2, <3>1, FilledIn DEF mergeGateways
    <3>2. CASE i \notin D
      <4>1. i \in Builtins
        BY <3>2
      <4>2. g[i] = NewGateway(OwnKey[i], OwnBase[i])
        BY <3>2, <4>1 DEF mergeGateways, DefaultConfig
      <4>3. OwnKey[i] \in Keys /\ OwnBase[i] \in Bases
        BY <4>1, GatewayAssumption DEF Ids, Bases
      <4> QED
        BY <4>2, <4>3, NewIsGateway
    <3> QED
      BY <3>1, <3>2
  <2>4. g \in [S -> Gateway]
    BY <2>3 DEF mergeGateways
  <2>5. LoadConfig(f) = [gateways |-> g, proxy |-> f.proxy]
    BY <1>2 DEF LoadConfig
  <2>6. f.proxy \in ProxyURLs \cup {"bad"}
    BY <1>2 DEF File, Listing
  <2>7. Builtins \subseteq S
    OBVIOUS
  <2> HIDE DEF S, g
  <2> QED
    BY <2>2, <2>4, <2>5, <2>6, <2>7, MakeRunning DEF Loadable
<1> QED
  BY <1>1, <1>2

\* What is loaded stays as it is when it is saved and loaded again.
LEMMA LoadedStays ==
  ASSUME NEW f \in File \cup {NoFile}, Loadable(f)
  PROVE  Reloaded(LoadConfig(f)) = LoadConfig(f)
<1>1. LoadConfig(f) \in Running
  BY LoadMayRun
<1>2. ASSUME NEW i \in DOMAIN LoadConfig(f).gateways
      PROVE  reloaded(LoadConfig(f).gateways[i]) = LoadConfig(f).gateways[i]
  <2>1. i \in Builtins \cup Customs
    BY <1>1, RunningParts
  <2>2. ASSUME i \in Builtins, LoadConfig(f).gateways[i] = NewGateway(OwnKey[i], OwnBase[i])
        PROVE  reloaded(LoadConfig(f).gateways[i]) = LoadConfig(f).gateways[i]
    <3>1. OwnKey[i] \in Keys /\ OwnBase[i] \in Bases
      BY <2>2, GatewayAssumption DEF Ids, Bases
    <3> QED
      BY <2>2, <3>1, NewIsGateway
  <2>3. CASE f = NoFile
    BY <1>2, <2>2, <2>3 DEF LoadConfig, DefaultConfig
  <2>4. CASE f # NoFile
    <3>1. PICK R \in SUBSET Ids : f.gateways \in [R -> StoredGateway]
      BY <2>4 DEF File, Listing
    <3>2. LoadConfig(f).gateways = mergeGateways(f.gateways)
      BY <2>4 DEF LoadConfig
    <3>3. CASE i \in DOMAIN f.gateways
      BY <1>2, <2>1, <3>1, <3>2, <3>3, FilledIn DEF mergeGateways
    <3>4. CASE i \notin DOMAIN f.gateways
      BY <1>2, <2>2, <3>2, <3>4 DEF mergeGateways, DefaultConfig
    <3> QED
      BY <3>3, <3>4
  <2> QED
    BY <2>3, <2>4
<1> DEFINE c == LoadConfig(f)
<1>3. c \in Running /\ \A i \in DOMAIN c.gateways : reloaded(c.gateways[i]) = c.gateways[i]
  BY <1>1, <1>2
<1> HIDE DEF c
<1>4. [i \in DOMAIN c.gateways |-> reloaded(c.gateways[i])] = c.gateways
  BY <1>3, RunningParts
<1>5. Reloaded(c) = c
  BY <1>3, <1>4, RunningParts DEF Reloaded
<1> QED
  BY <1>5 DEF c

\* The gateways of a reloaded configuration, field by field.
LEMMA ReloadedFields ==
  ASSUME NEW g \in Gateway
  PROVE  /\ reloaded(g) \in Gateway
         /\ reloaded(g).key = g.key /\ reloaded(g).base = g.base
         /\ reloaded(g).override = g.override
         /\ reloaded(g).agent = loadedAgent(g.agent)
         /\ reloaded(g).affinity = loadedAffinity(g.affinity)
  BY LoadedFields DEF Gateway, reloaded

LEMMA ReloadMayRun ==
  ASSUME NEW c \in Running
  PROVE  Reloaded(c) \in Running
<1> DEFINE S == DOMAIN c.gateways
           g == [i \in S |-> reloaded(c.gateways[i])]
<1>1. S \in SUBSET (Builtins \cup Customs) /\ Builtins \subseteq S /\ c.proxy \in ProxyURLs
  BY RunningParts
<1>2. ASSUME NEW i \in S
      PROVE  /\ g[i] \in Gateway /\ g[i].base # "http" /\ g[i].affinity # "bad"
             /\ g[i].override = "on" => g[i].agent \notin {"none", "blank"}
  <2>1. c.gateways[i] \in Gateway
    BY RunningParts
  <2>2. /\ c.gateways[i].base # "http" /\ c.gateways[i].affinity # "bad"
        /\ c.gateways[i].override = "on" => c.gateways[i].agent \notin {"none", "blank"}
    BY DEF Running, ValidateConfig
  <2>3. c.gateways[i].agent \in Agents /\ c.gateways[i].affinity \in Affinities
    BY <2>1 DEF Gateway
  <2> QED
    BY <2>1, <2>2, <2>3, ReloadedFields, LoadedFields
<1>3. g \in [S -> Gateway]
  BY <1>2
<1>4. c.proxy # "bad"
  BY <1>1, GatewayAssumption
<1>5. ValidateConfig([gateways |-> g, proxy |-> c.proxy])
  BY <1>2, <1>4 DEF ValidateConfig
<1>6. Reloaded(c) = [gateways |-> g, proxy |-> c.proxy]
  BY DEF Reloaded
<1> HIDE DEF S, g
<1> QED
  BY <1>1, <1>3, <1>5, <1>6, MakeRunning

\* A configuration that may run is a file, and loads as itself but for what
\* counts as left out.
LEMMA LoadOfSaved ==
  ASSUME NEW c \in Running
  PROVE  c \in File /\ LoadConfig(c) = Reloaded(c)
<1> DEFINE D == DOMAIN c.gateways
<1>1. D \in SUBSET Ids /\ D \cap Legacy = {} /\ Builtins \subseteq D
  BY RunningParts, GatewayAssumption DEF Ids
<1>2. c.gateways \in [D -> StoredGateway]
  BY RunningParts DEF Gateway, StoredGateway
<1>3. c \in Listing(D)
  BY <1>2, RunningParts DEF Listing
<1>4. c \in File
  BY <1>1, <1>3 DEF File
<1>5. ASSUME NEW i \in D PROVE filledIn(i, c.gateways[i]) = reloaded(c.gateways[i])
  <2>1. c.gateways[i] \in Gateway
    BY RunningParts
  <2>2. c.gateways[i].key # Missing /\ c.gateways[i].base # Missing
    BY <2>1, GatewayAssumption DEF Gateway, Bases, Missing
  <2> DEFINE g == c.gateways[i]
             h == [key |-> g.key, base |-> g.base, agent |-> loadedAgent(g.agent),
                   override |-> g.override, affinity |-> loadedAffinity(g.affinity)]
  <2>3. filledIn(i, g) = h
    BY <2>2 DEF filledIn, OrElse
  <2>4. reloaded(g) = h
    BY <2>1, ReloadedFields DEF Gateway
  <2> QED
    BY <2>3, <2>4
<1>6. Builtins \cup (D \ Legacy) = D
  BY <1>1
<1>7. mergeGateways(c.gateways) = [i \in D |-> reloaded(c.gateways[i])]
  BY <1>5, <1>6 DEF mergeGateways
<1>8. c # NoFile
  BY <1>1, <1>3, StoreAssumption
<1> QED
  BY <1>4, <1>7, <1>8 DEF LoadConfig, Reloaded

\* What a request carries.
LEMMA RequestFields ==
  ASSUME NEW o \in Ops
  PROVE  /\ o.kind \in {"add", "delete", "patch", "proxy"}
         /\ o.kind = "add" => o.key \in Keys \cup {Missing} /\ o.base \in Bases
         /\ o.kind = "patch" => /\ o.key \in Keys \cup {Missing}
                               /\ o.base \in Bases \cup {Missing}
                               /\ o.agent \in Agents \cup {Missing}
                               /\ o.override \in Switches \cup {Missing}
                               /\ o.affinity \in Affinities \cup {Missing}
         /\ o.kind = "proxy" => o.url \in ProxyURLs \cup {"bad"}
<1>1. o \in Requests
  BY GatewayAssumption
<1> QED
  BY <1>1 DEF Requests

LEMMA PatchedIsGateway ==
  ASSUME NEW o \in Ops, o.kind = "patch", NEW g \in Gateway
  PROVE  patched(o, g) \in Gateway
<1>1. /\ OrElse(o.key, g.key) \in Keys
      /\ OrElse(o.base, g.base) \in Bases
      /\ OrElse(o.agent, g.agent) \in Agents
      /\ OrElse(o.override, g.override) \in Switches
      /\ OrElse(o.affinity, g.affinity) \in Affinities
  BY RequestFields DEF Gateway, OrElse
<1> QED
  BY <1>1 DEF patched, Gateway

\* What an admissible request makes of a running configuration, valid or not.
LEMMA ApplyIsTyped ==
  ASSUME NEW c \in Running, NEW o \in Ops, Admissible(o)
  PROVE  Apply(o, c) \in Config /\ Builtins \subseteq DOMAIN Apply(o, c).gateways
<1> DEFINE D == DOMAIN c.gateways
<1>1. CASE o.kind = "add"
  <2> DEFINE S == D \cup {o.id}
             g == [i \in S |-> IF i = o.id
                                 THEN NewGateway(OrElse(o.key, OwnKey[o.id]), o.base)
                                 ELSE c.gateways[i]]
  <2>1. o.id \in Customs /\ o.key \in Keys \cup {Missing} /\ o.base \in Bases
    BY <1>1, RequestFields DEF Admissible
  <2>2. OrElse(o.key, OwnKey[o.id]) \in Keys
    BY <2>1, GatewayAssumption DEF OrElse, Ids
  <2>3. g \in [S -> Gateway]
    BY <2>1, <2>2, RunningParts, NewIsGateway
  <2>4. Apply(o, c) = [gateways |-> g, proxy |-> c.proxy]
    BY <1>1, RunningParts DEF Apply, AddGateway
  <2>5. S \in SUBSET (Builtins \cup Customs) /\ Builtins \subseteq S
    BY <2>1, RunningParts
  <2> HIDE DEF g, S
  <2> QED
    BY <2>3, <2>4, <2>5, RunningParts, MakeConfig
<1>2. CASE o.kind = "delete"
  <2> DEFINE S == D \ {o.id}
             g == [i \in S |-> c.gateways[i]]
  <2>1. o.id \notin Builtins
    BY <1>2 DEF Admissible
  <2>2. g \in [S -> Gateway]
    BY RunningParts
  <2>3. Apply(o, c) = [gateways |-> g, proxy |-> c.proxy]
    BY <1>2, RunningParts DEF Apply, DeleteGateway
  <2>4. S \in SUBSET (Builtins \cup Customs) /\ Builtins \subseteq S
    BY <2>1, RunningParts
  <2> HIDE DEF g, S
  <2> QED
    BY <2>2, <2>3, <2>4, RunningParts, MakeConfig
<1>3. CASE o.kind = "patch"
  <2> DEFINE g == [i \in D |-> IF i = o.id
                                 THEN patched(o, c.gateways[i])
                                 ELSE c.gateways[i]]
  <2>1. ASSUME NEW i \in D PROVE g[i] \in Gateway
    <3>1. c.gateways[i] \in Gateway
      BY RunningParts
    <3> QED
      BY <1>3, <3>1, PatchedIsGateway
  <2>2. g \in [D -> Gateway]
    BY <2>1
  <2>3. Apply(o, c) = [gateways |-> g, proxy |-> c.proxy]
    BY <1>3, RunningParts DEF Apply, PatchGateway
  <2> HIDE DEF g
  <2> QED
    BY <2>2, <2>3, RunningParts, MakeConfig
<1>4. CASE o.kind = "proxy"
  <2>1. Apply(o, c) = [gateways |-> c.gateways, proxy |-> o.url]
    BY <1>4, RunningParts DEF Apply, SetProxyURL
  <2>2. o.url \in ProxyURLs \cup {"bad"}
    BY <1>4, RequestFields
  <2> QED
    BY <2>1, <2>2, RunningParts, MakeConfig
<1> QED
  BY <1>1, <1>2, <1>3, <1>4, RequestFields

\* An accepted request keeps the configuration one that may run.
LEMMA ApplyMayRun ==
  ASSUME NEW c \in Running, NEW o \in Ops, Admissible(o), Accepts(o, c)
  PROVE  Apply(o, c) \in Running
  BY ApplyIsTyped DEF Running, Accepts

(***************************************************************************)
(* A request asked of a running configuration and of what a load makes of  *)
(* it: the results differ at most in what a load replaces.                 *)
(***************************************************************************)
\* h is g with some of what a load would replace already replaced.
Nearly(g, h) == /\ h.key = g.key /\ h.base = g.base /\ h.override = g.override
                /\ h.agent \in {g.agent, loadedAgent(g.agent)}
                /\ h.affinity \in {g.affinity, loadedAffinity(g.affinity)}

LEMMA NearlySame ==
  ASSUME NEW g \in Gateway, NEW h \in Gateway, Nearly(g, h)
  PROVE  /\ reloaded(h) = reloaded(g)
         /\ g.affinity # "bad" => h.affinity # "bad"
         /\ g.agent \notin {"none", "blank"} => h.agent \notin {"none", "blank"}
<1>1. /\ g.agent \in Agents /\ g.affinity \in Affinities
      /\ loadedAgent(h.agent) = loadedAgent(g.agent)
      /\ loadedAffinity(h.affinity) = loadedAffinity(g.affinity)
  BY LoadedFields DEF Nearly, Gateway
<1>2. reloaded(h) = reloaded(g)
  BY <1>1 DEF Nearly, Gateway, reloaded
<1>3. /\ g.affinity # "bad" => h.affinity # "bad"
      /\ g.agent \notin {"none", "blank"} => h.agent \notin {"none", "blank"}
  BY <1>1, LoadedFields DEF Nearly
<1> QED
  BY <1>2, <1>3

LEMMA PatchedNearly ==
  ASSUME NEW o \in Ops, o.kind = "patch", NEW g \in Gateway
  PROVE  Nearly(patched(o, g), patched(o, reloaded(g)))
  BY ReloadedFields DEF patched, Nearly, OrElse

\* Two configurations with the same gateways, which are nearly the same.
NearlyEach(c, d) == /\ d.proxy = c.proxy
                    /\ DOMAIN d.gateways = DOMAIN c.gateways
                    /\ \A i \in DOMAIN c.gateways : Nearly(c.gateways[i], d.gateways[i])

LEMMA ReloadedNearly ==
  ASSUME NEW c \in Running
  PROVE  /\ NearlyEach(c, Reloaded(c))
         /\ \A i \in DOMAIN c.gateways :
              c.gateways[i] \in Gateway /\ Reloaded(c).gateways[i] = reloaded(c.gateways[i])
<1>1. ASSUME NEW i \in DOMAIN c.gateways
      PROVE  /\ c.gateways[i] \in Gateway
             /\ Nearly(c.gateways[i], reloaded(c.gateways[i]))
  <2>1. c.gateways[i] \in Gateway
    BY RunningParts
  <2> QED
    BY <2>1, ReloadedFields DEF Nearly
<1> QED
  BY <1>1 DEF NearlyEach, Reloaded

LEMMA ApplyNearly ==
  ASSUME NEW c \in Running, NEW o \in Ops
  PROVE  NearlyEach(Apply(o, c), Apply(o, Reloaded(c)))
<1> DEFINE r == Reloaded(c)
<1>1. /\ c = [gateways |-> c.gateways, proxy |-> c.proxy]
      /\ r = [gateways |-> r.gateways, proxy |-> r.proxy]
      /\ r.proxy = c.proxy /\ DOMAIN r.gateways = DOMAIN c.gateways
  BY RunningParts DEF Reloaded
<1>2. \A i \in DOMAIN c.gateways : /\ c.gateways[i] \in Gateway
                                 /\ r.gateways[i] = reloaded(c.gateways[i])
                                 /\ Nearly(c.gateways[i], r.gateways[i])
  BY ReloadedNearly DEF NearlyEach
<1> HIDE DEF r
<1>3. CASE o.kind = "add"
  <2> DEFINE n == NewGateway(OrElse(o.key, OwnKey[o.id]), o.base)
  <2>1. Nearly(n, n)
    BY DEF Nearly
  <2> HIDE DEF n
  <2>2. /\ Apply(o, c) = [gateways |-> [i \in DOMAIN c.gateways \cup {o.id} |->
                                         IF i = o.id THEN n ELSE c.gateways[i]],
                          proxy |-> c.proxy]
        /\ Apply(o, r) = [gateways |-> [i \in DOMAIN r.gateways \cup {o.id} |->
                                         IF i = o.id THEN n ELSE r.gateways[i]],
                          proxy |-> r.proxy]
    BY <1>1, <1>3 DEF Apply, AddGateway, n
  <2> QED
    BY <1>1, <1>2, <2>1, <2>2 DEF NearlyEach, r
<1>4. CASE o.kind = "delete"
  <2>1. /\ Apply(o, c) = [gateways |-> [i \in DOMAIN c.gateways \ {o.id} |-> c.gateways[i]],
                          proxy |-> c.proxy]
        /\ Apply(o, r) = [gateways |-> [i \in DOMAIN r.gateways \ {o.id} |-> r.gateways[i]],
                          proxy |-> r.proxy]
    BY <1>1, <1>4 DEF Apply, DeleteGateway
  <2> QED
    BY <1>1, <1>2, <2>1 DEF NearlyEach, r
<1>5. CASE o.kind = "patch"
  <2>1. /\ Apply(o, c) = [gateways |-> [i \in DOMAIN c.gateways |->
                            IF i = o.id THEN patched(o, c.gateways[i]) ELSE c.gateways[i]],
                          proxy |-> c.proxy]
        /\ Apply(o, r) = [gateways |-> [i \in DOMAIN r.gateways |->
                            IF i = o.id THEN patched(o, r.gateways[i]) ELSE r.gateways[i]],
                          proxy |-> r.proxy]
    BY <1>1, <1>5 DEF Apply, PatchGateway
  <2>2. ASSUME NEW i \in DOMAIN c.gateways
        PROVE  Nearly(patched(o, c.gateways[i]), patched(o, r.gateways[i]))
    BY <1>2, <1>5, PatchedNearly
  <2> QED
    BY <1>1, <1>2, <2>1, <2>2 DEF NearlyEach, r
<1>6. CASE o.kind = "proxy"
  <2>1. /\ Apply(o, c) = [gateways |-> c.gateways, proxy |-> o.url]
        /\ Apply(o, r) = [gateways |-> r.gateways, proxy |-> o.url]
    BY <1>1, <1>6 DEF Apply, SetProxyURL
  <2> QED
    BY <1>1, <1>2, <2>1 DEF NearlyEach, r
<1> QED
  BY <1>3, <1>4, <1>5, <1>6, RequestFields

\* Nearly the same: loaded the same, and validated the same or better.
LEMMA NearlyConfigs ==
  ASSUME NEW c, NEW d, NearlyEach(c, d), ValidateConfig(c),
         \A i \in DOMAIN c.gateways : c.gateways[i] \in Gateway /\ d.gateways[i] \in Gateway
  PROVE  /\ Reloaded(d) = Reloaded(c)
         /\ ValidateConfig(d)
         /\ ValidateGatewayModelKeys(d) <=> ValidateGatewayModelKeys(c)
<1>1. ASSUME NEW i \in DOMAIN c.gateways
      PROVE  /\ reloaded(d.gateways[i]) = reloaded(c.gateways[i])
             /\ d.gateways[i].base # "http"
             /\ d.gateways[i].override = "on" => d.gateways[i].agent \notin {"none", "blank"}
             /\ d.gateways[i].affinity # "bad"
             /\ d.gateways[i].key = c.gateways[i].key
  <2>1. Nearly(c.gateways[i], d.gateways[i])
    BY DEF NearlyEach
  <2>2. /\ reloaded(d.gateways[i]) = reloaded(c.gateways[i])
        /\ c.gateways[i].affinity # "bad" => d.gateways[i].affinity # "bad"
        /\ c.gateways[i].agent \notin {"none", "blank"}
              => d.gateways[i].agent \notin {"none", "blank"}
    BY <2>1, NearlySame
  <2> QED
    BY <2>1, <2>2 DEF Nearly, ValidateConfig
<1>2. d.proxy = c.proxy /\ DOMAIN d.gateways = DOMAIN c.gateways
  BY DEF NearlyEach
<1>3. Reloaded(d) = Reloaded(c)
  BY <1>1, <1>2 DEF Reloaded
<1>4. ValidateConfig(d)
  BY <1>1, <1>2 DEF ValidateConfig
<1>5. ValidateGatewayModelKeys(d) <=> ValidateGatewayModelKeys(c)
  BY <1>1, <1>2 DEF ValidateGatewayModelKeys
<1> QED
  BY <1>3, <1>4, <1>5

\* A request that the running configuration accepts is accepted by the
\* loaded one, and once saved and loaded it comes to the same.
LEMMA RequestsAgree ==
  ASSUME NEW c \in Running, NEW o \in Ops, Admissible(o), Accepts(o, c)
  PROVE  /\ Accepts(o, Reloaded(c))
         /\ Reloaded(Apply(o, Reloaded(c))) = Reloaded(Apply(o, c))
<1> DEFINE r == Reloaded(c)
           a == Apply(o, c)
           b == Apply(o, r)
<1>1. r \in Running /\ DOMAIN r.gateways = DOMAIN c.gateways
  BY ReloadMayRun DEF Reloaded
<1>2. a \in Running /\ NearlyEach(a, b)
  BY ApplyMayRun, ApplyNearly
<1>3. ValidateConfig(a) /\ (o.kind # "proxy" => ValidateGatewayModelKeys(a))
  BY DEF Accepts
<1>4. \A i \in DOMAIN b.gateways : b.gateways[i] \in Gateway
  BY <1>1, ApplyIsTyped, ConfigParts
<1>5. \A i \in DOMAIN a.gateways : a.gateways[i] \in Gateway
  BY ApplyIsTyped, ConfigParts
<1>6. DOMAIN b.gateways = DOMAIN a.gateways
  BY <1>2 DEF NearlyEach
<1> HIDE DEF a, b, r
<1>7. /\ Reloaded(b) = Reloaded(a) /\ ValidateConfig(b)
      /\ ValidateGatewayModelKeys(b) <=> ValidateGatewayModelKeys(a)
  BY <1>2, <1>3, <1>4, <1>5, <1>6, NearlyConfigs
<1>8. Accepts(o, r)
  BY <1>1, <1>3, <1>7 DEF Accepts, b
<1> QED
  BY <1>7, <1>8 DEF a, b, r

\* What the key validation says of a running configuration it says of the
\* loaded one.
LEMMA ReloadedKeys ==
  ASSUME NEW c \in Running
  PROVE  ValidateGatewayModelKeys(Reloaded(c)) <=> ValidateGatewayModelKeys(c)
  BY ReloadedNearly DEF NearlyEach, Nearly, ValidateGatewayModelKeys

\* A load changes what requests are served with only for an override by
\* grok-gateway-proxy/dev: one by no text would not have validated.
LEMMA ServedTheSame ==
  ASSUME NEW c \in Running, NEW i \in DOMAIN c.gateways
  PROVE  \/ InForce(Reloaded(c).gateways[i]) = InForce(c.gateways[i])
         \/ OverridesByDev(c.gateways[i])
<1> DEFINE g == c.gateways[i]
<1>1. g \in Gateway /\ Reloaded(c).gateways[i] = reloaded(g)
  BY ReloadedNearly
<1>2. g.override = "on" => g.agent # "none"
  BY DEF Running, ValidateConfig
<1>3. EffectiveSessionAffinity(reloaded(g)) = EffectiveSessionAffinity(g)
  BY <1>1, ReloadedFields DEF EffectiveSessionAffinity, loadedAffinity
<1>4. ~OverridesByDev(g) => (g.override = "on" => reloaded(g).agent = g.agent)
  BY <1>1, <1>2, ReloadedFields, LoadedFields DEF OverridesByDev, Gateway
<1> HIDE DEF g
<1>5. ~OverridesByDev(g) => InForce(reloaded(g)) = InForce(g)
  BY <1>1, <1>3, <1>4, ReloadedFields DEF InForce
<1> QED
  BY <1>1, <1>5 DEF g
-------------------------------------------------------------------------------
(***************************************************************************)
(* The configuration that a restart would load, which may run.             *)
(***************************************************************************)
LEMMA LoadedMayRun == ASSUME IInv PROVE LoadConfig(file) \in Running
  BY LoadMayRun DEF IInv, TypeOK, FileLoadable

\* Saving what was loaded changes neither what is loaded nor that it may be.
LEMMA SavedAsLoaded ==
  ASSUME IInv, saveLoaded
  PROVE  /\ file' \in File \cup {NoFile}
         /\ Loadable(file')
         /\ LoadConfig(file') = LoadConfig(file)
<1>1. LoadConfig(file) \in Running
  BY LoadedMayRun
<1>2. file' = file \/ file' = LoadConfig(file)
  BY DEF saveLoaded
<1>3. CASE file' = file
  BY <1>3 DEF IInv, TypeOK, FileLoadable
<1>4. CASE file' = LoadConfig(file)
  <2>1. LoadConfig(file') = LoadConfig(file) /\ file' \in File
    BY <1>1, <1>4, LoadOfSaved, LoadedStays DEF IInv, TypeOK, FileLoadable
  <2> QED
    BY <2>1 DEF Loadable, IInv, FileLoadable
<1> QED
  BY <1>2, <1>3, <1>4

LEMMA InitHolds == Init => IInv
<1> SUFFICES ASSUME Init PROVE IInv
  OBVIOUS
<1>1. file \in File \cup {NoFile}
  BY StoreAssumption DEF Init, File
<1>2. TypeOK
  BY <1>1, StoreAssumption DEF Init, TypeOK, allIdle, nobody
<1>3. FileLoadable
  BY StoreAssumption DEF Init, FileLoadable
<1> QED
  BY <1>2, <1>3 DEF Init, IInv, Agreeing, Saving, allIdle

LEMMA StartKeeps == ASSUME IInv, Start PROVE IInv'
<1>1. LoadConfig(file) \in Running /\ LoadConfig(file).proxy \in ProxyURLs
  BY LoadedMayRun, RunningParts
<1>2. /\ file' \in File \cup {NoFile}
      /\ Loadable(file')
      /\ LoadConfig(file') = LoadConfig(file)
  BY SavedAsLoaded DEF Start
<1>3. \A h \in Handlers : pc[h] = "idle"
  BY DEF Start, IInv, TypeOK
<1>4. TypeOK'
  BY <1>1, <1>2, <1>3 DEF Start, IInv, TypeOK
<1>5. Agreeing' /\ FileLoadable'
  BY <1>2, LoadedStays DEF Start, Agreeing, FileLoadable, IInv, TypeOK
<1>6. Saving'
  BY <1>3 DEF Start, Saving
<1> QED
  BY <1>4, <1>5, <1>6 DEF IInv

LEMMA StartFailsKeeps == ASSUME IInv, StartFails PROVE IInv'
<1>1. /\ file' \in File \cup {NoFile}
      /\ Loadable(file')
      /\ LoadConfig(file') = LoadConfig(file)
  BY SavedAsLoaded DEF StartFails
<1>2. TypeOK'
  BY <1>1 DEF StartFails, IInv, TypeOK
<1> QED
  BY <1>1, <1>2 DEF StartFails, IInv, TypeOK, FileLoadable, Agreeing, Saving

LEMMA CrashKeeps == ASSUME IInv, Crash PROVE IInv'
<1>1. TypeOK'
  BY StoreAssumption DEF Crash, IInv, TypeOK, allIdle, nobody
<1> QED
  BY <1>1 DEF Crash, IInv, FileLoadable, Agreeing, Saving, allIdle

(***************************************************************************)
(* The steps of one request.                                               *)
(***************************************************************************)
LEMMA ReceiveKeeps == ASSUME IInv, NEW h \in Handlers, Receive(h) PROVE IInv'
<1>1. PICK o \in Ops : Admissible(o) /\ op' = [op EXCEPT ![h] = o]
  BY DEF Receive
<1> QED
  BY <1>1 DEF Receive, IInv, TypeOK, FileLoadable, Agreeing, Saving

LEMMA RefuseKeeps == ASSUME IInv, NEW h \in Handlers, Refuse(h) PROVE IInv'
  BY DEF Refuse, finish, IInv, TypeOK, FileLoadable, Agreeing, Saving

LEMMA CommitKeeps == ASSUME IInv, NEW h \in Handlers, Commit(h) PROVE IInv'
<1>1. up /\ mem \in Running /\ LoadConfig(file) = Reloaded(mem)
  BY DEF Commit, IInv, TypeOK, Agreeing
<1>2. op[h] \in Ops /\ Admissible(op[h])
  BY DEF Commit, IInv, TypeOK
<1>3. mem' \in Running
  BY <1>1, <1>2, ApplyMayRun DEF Commit
<1>4. \A k \in Handlers : pc[k] # "save"
  BY StoreAssumption DEF Commit, IInv, TypeOK
<1>5. h # NoOne
  BY StoreAssumption
<1>6. TypeOK'
  BY <1>1, <1>3, <1>4, <1>5 DEF Commit, IInv, TypeOK
<1>7. Saving'
  BY <1>1, <1>4 DEF Commit, IInv, TypeOK, Saving
<1>8. Agreeing' /\ FileLoadable'
  BY <1>5 DEF Commit, IInv, Agreeing, FileLoadable
<1> QED
  BY <1>6, <1>7, <1>8 DEF IInv

LEMMA SaveKeeps == ASSUME IInv, NEW h \in Handlers, Save(h) PROVE IInv'
<1>1. up /\ mem \in Running /\ holder = h
  BY DEF Save, IInv, TypeOK
<1>2. file' \in File /\ LoadConfig(file') = Reloaded(mem)
  BY <1>1, LoadOfSaved DEF Save
<1>3. \A k \in Handlers : k # h => pc[k] # "save"
  BY <1>1 DEF IInv, TypeOK
<1>4. TypeOK'
  BY <1>1, <1>2, <1>3, StoreAssumption DEF Save, finish, IInv, TypeOK
<1>5. FileLoadable'
  BY <1>1, <1>2, ReloadMayRun DEF FileLoadable, Loadable, Running
<1>6. Agreeing'
  BY <1>2 DEF Save, Agreeing
<1>7. Saving'
  BY <1>3 DEF Save, finish, Saving, IInv, TypeOK
<1> QED
  BY <1>4, <1>5, <1>6, <1>7 DEF IInv

LEMMA SaveFailsKeeps == ASSUME IInv, NEW h \in Handlers, SaveFails(h) PROVE IInv'
<1>1. up /\ holder = h /\ old \in Running /\ LoadConfig(file) = Reloaded(old)
  BY StoreAssumption DEF SaveFails, IInv, TypeOK, Saving
<1>2. \A k \in Handlers : k # h => pc[k] # "save"
  BY <1>1 DEF IInv, TypeOK
<1>3. TypeOK'
  BY <1>1, <1>2, StoreAssumption DEF SaveFails, finish, IInv, TypeOK
<1>4. Agreeing' /\ FileLoadable'
  BY <1>1 DEF SaveFails, Agreeing, FileLoadable, IInv
<1>5. Saving'
  BY <1>2 DEF SaveFails, finish, Saving, IInv, TypeOK
<1> QED
  BY <1>3, <1>4, <1>5 DEF IInv

LEMMA ReadProxyURLKeeps == ASSUME IInv, NEW h \in Handlers, ReadProxyURL(h) PROVE IInv'
<1>1. up /\ mem.proxy \in ProxyURLs
  BY RunningParts DEF ReadProxyURL, IInv, TypeOK
<1> QED
  BY <1>1 DEF ReadProxyURL, IInv, TypeOK, FileLoadable, Agreeing, Saving

LEMMA InstallKeeps == ASSUME IInv, NEW h \in Handlers, Install(h) PROVE IInv'
  BY DEF Install, finish, IInv, TypeOK, FileLoadable, Agreeing, Saving

LEMMA StepKeeps == IInv /\ [Next]_vars => IInv'
<1> SUFFICES ASSUME IInv, [Next]_vars PROVE IInv'
  OBVIOUS
<1>1. ASSUME NEW h \in Handlers, HandlerStep(h) PROVE IInv'
  BY <1>1, ReceiveKeeps, RefuseKeeps, CommitKeeps, SaveKeeps, SaveFailsKeeps,
     ReadProxyURLKeeps, InstallKeeps DEF HandlerStep
<1>2. CASE UNCHANGED vars
  BY <1>2 DEF vars, IInv, TypeOK, FileLoadable, Agreeing, Saving
<1> QED
  BY <1>1, <1>2, StartKeeps, StartFailsKeeps, CrashKeeps DEF Next
-------------------------------------------------------------------------------
(***************************************************************************)
(* The inductive invariant holds of every behaviour (config.go:206-315,    *)
(* 339-389, 597-743).                                                      *)
(***************************************************************************)
THEOREM StoreInvariance == SafetySpec => []IInv
  BY InitHolds, StepKeeps, PTL DEF SafetySpec

(***************************************************************************)
(* The built-in gateways are always there, what runs passed validation,    *)
(* and the mutex is the saver's (config.go:391-434, 713-727).              *)
(***************************************************************************)
THEOREM StoreTypeCorrect == SafetySpec => []TypeOK
<1>1. IInv => TypeOK
  BY DEF IInv
<1> QED
  BY <1>1, StoreInvariance, PTL

(***************************************************************************)
(* The program never writes a file it would refuse to start with           *)
(* (config.go:311-313).                                                    *)
(***************************************************************************)
THEOREM AlwaysLoadable == SafetySpec => []FileLoadable
<1>1. IInv => FileLoadable
  BY DEF IInv
<1> QED
  BY <1>1, StoreInvariance, PTL

(***************************************************************************)
(* Outside a commit a restart loads what runs but for the user agents and  *)
(* affinities that count as left out, and changes what requests are served *)
(* with only for a gateway that overrides the user agent by                *)
(* grok-gateway-proxy/dev (config.go:278-305, 404-406, 720-742).           *)
(***************************************************************************)
THEOREM RunningIsSaved == SafetySpec => []SavedIsRunning
<1>1. IInv => SavedIsRunning
  <2> SUFFICES ASSUME IInv, up, holder = NoOne
               PROVE  /\ LoadConfig(file) = Reloaded(mem)
                      /\ \A i \in DOMAIN mem.gateways :
                           \/ InForce(LoadConfig(file).gateways[i]) = InForce(mem.gateways[i])
                           \/ OverridesByDev(mem.gateways[i])
    BY DEF SavedIsRunning
  <2>1. LoadConfig(file) = Reloaded(mem) /\ mem \in Running
    BY DEF IInv, Agreeing, TypeOK
  <2> QED
    BY <2>1, ServedTheSame
<1> QED
  BY <1>1, StoreInvariance, PTL

(***************************************************************************)
(* Distinct client model keys stay distinct (config.go:501-511, 713-743).  *)
(***************************************************************************)
THEOREM KeysKept == SafetySpec => KeysStayDistinct
<1> DEFINE Keep == ValidateGatewayModelKeys(LoadConfig(file))
                     => ValidateGatewayModelKeys(LoadConfig(file'))
<1>1. IInv /\ [Next]_vars => [Keep]_vars
  <2> SUFFICES ASSUME IInv, Next, ValidateGatewayModelKeys(LoadConfig(file))
               PROVE  ValidateGatewayModelKeys(LoadConfig(file'))
    OBVIOUS
  <2>1. CASE Start \/ StartFails
    BY <2>1, SavedAsLoaded DEF Start, StartFails
  <2>2. ASSUME NEW h \in Handlers, Save(h)
        PROVE  ValidateGatewayModelKeys(LoadConfig(file'))
    <3>1. mem \in Running /\ old \in Running /\ op[h] \in Ops
      BY <2>2, StoreAssumption DEF Save, IInv, TypeOK
    <3>2. LoadConfig(file') = Reloaded(mem)
      BY <2>2, <3>1, LoadOfSaved DEF Save
    <3>3. /\ Accepts(op[h], old) /\ mem = Apply(op[h], old)
          /\ ValidateGatewayModelKeys(old)
      BY <2>2, <3>1, ReloadedKeys DEF Save, IInv, Saving
    \* Only a request for another proxy URL is not checked: it leaves the
    \* gateways as they are.
    <3>4. CASE op[h].kind = "proxy"
      <4>1. mem.gateways = old.gateways
        BY <3>1, <3>3, <3>4, RunningParts DEF Apply, SetProxyURL
      <4>2. ValidateGatewayModelKeys(mem)
        BY <3>3, <4>1 DEF ValidateGatewayModelKeys
      <4> QED
        BY <3>1, <3>2, <4>2, ReloadedKeys
    <3>5. CASE op[h].kind # "proxy"
      <4>1. ValidateGatewayModelKeys(mem)
        BY <3>3, <3>5 DEF Accepts
      <4> QED
        BY <3>1, <3>2, <4>1, ReloadedKeys
    <3> QED
      BY <3>4, <3>5
  <2>3. Start \/ StartFails \/ (\E h \in Handlers : Save(h)) \/ UNCHANGED file
    BY DEF Next, HandlerStep, Crash, Receive, Refuse, Commit, SaveFails,
           ReadProxyURL, Install
  <2> QED
    BY <2>1, <2>2, <2>3
<1> QED
  BY <1>1, StoreInvariance, PTL DEF SafetySpec, KeysStayDistinct

(***************************************************************************)
(* The register's operators are this module's own.                         *)
(***************************************************************************)
LEMMA SameLoadConfig == \A f : Register!LoadConfig(f) = LoadConfig(f)
  BY DEF Register!LoadConfig, Register!mergeGateways, Register!filledIn,
         Register!OrElse, Register!DefaultConfig, Register!NewGateway,
         Register!loadedAgent, Register!loadedAffinity, Register!Missing,
         LoadConfig, mergeGateways, filledIn, OrElse, DefaultConfig, NewGateway,
         loadedAgent, loadedAffinity, Missing

LEMMA SameReloaded == \A c : Register!Reloaded(c) = Reloaded(c)
  BY DEF Register!Reloaded, Register!reloaded, Register!loadedAgent,
         Register!loadedAffinity, Reloaded, reloaded, loadedAgent, loadedAffinity

LEMMA SameAdmissible == \A o : Register!Admissible(o) = Admissible(o)
  BY DEF Register!Admissible, Admissible

LEMMA SameApply == \A o, c : Register!Apply(o, c) = Apply(o, c)
  BY DEF Register!Apply, Register!AddGateway, Register!DeleteGateway,
         Register!PatchGateway, Register!patched, Register!SetProxyURL,
         Register!NewGateway, Register!OrElse, Register!Missing,
         Apply, AddGateway, DeleteGateway, PatchGateway, patched, SetProxyURL,
         NewGateway, OrElse, Missing

LEMMA SameAccepts == \A o, c : Register!Accepts(o, c) = Accepts(o, c)
  BY SameApply DEF Register!Accepts, Register!ValidateConfig,
         Register!ValidateGatewayModelKeys, Accepts, ValidateConfig,
         ValidateGatewayModelKeys

(***************************************************************************)
(* The store implements the register: only the rename of an accepted       *)
(* request changes what a restart would load (config.go:384, 597-743).     *)
(***************************************************************************)
THEOREM StoreRefinement == SafetySpec => ImplementsRegister
<1>1. Init => Register!Init
  BY SameLoadConfig DEF Init, Register!Init
<1>2. IInv /\ [Next]_vars => [Register!Update]_(LoadConfig(file))
  <2> SUFFICES ASSUME IInv, [Next]_vars
               PROVE  Register!Update \/ LoadConfig(file)' = LoadConfig(file)
    OBVIOUS
  <2>1. CASE Start \/ StartFails
    BY <2>1, SavedAsLoaded DEF Start, StartFails
  <2>2. ASSUME NEW h \in Handlers, Save(h) PROVE Register!Update
    <3>1. /\ mem \in Running /\ old \in Running
          /\ op[h] \in Ops /\ Admissible(op[h])
      BY <2>2, StoreAssumption DEF Save, IInv, TypeOK
    <3>2. LoadConfig(file)' = Reloaded(mem)
      BY <2>2, <3>1, LoadOfSaved DEF Save
    <3>3. /\ LoadConfig(file) = Reloaded(old)
          /\ Accepts(op[h], old) /\ mem = Apply(op[h], old)
      BY <2>2 DEF Save, IInv, Saving
    <3>4. /\ Accepts(op[h], LoadConfig(file))
          /\ LoadConfig(file)' = Reloaded(Apply(op[h], LoadConfig(file)))
      BY <3>1, <3>2, <3>3, RequestsAgree
    <3> QED
      BY <3>1, <3>4, SameAdmissible, SameAccepts, SameApply, SameReloaded
         DEF Register!Update
  <2>3. CASE UNCHANGED file
    BY <2>3
  <2>4. Start \/ StartFails \/ (\E h \in Handlers : Save(h)) \/ UNCHANGED file
    BY DEF Next, HandlerStep, Crash, Receive, Refuse, Commit, SaveFails,
           ReadProxyURL, Install, vars
  <2> QED
    BY <2>1, <2>2, <2>3, <2>4
<1> QED
  BY <1>1, <1>2, StoreInvariance, PTL DEF SafetySpec, ImplementsRegister, Register!SafetySpec
-------------------------------------------------------------------------------
(***************************************************************************)
(* ProxyInstall. A change of the proxy URL that met no other one installs  *)
(* what it read (InstallsRead); one that fails leaves what was installed   *)
(* before it (SavingAlone), unless it met another that has installed since *)
(* or still will (SavingShared).                                           *)
(***************************************************************************)
Meeting == /\ \A g, h \in Handlers : g # h /\ Changing(g) /\ Changing(h) => h \in shared
           /\ \A h \in shared : Changing(h)

OnlyProxiesRead == \A h \in Handlers : pc[h] \in {"read", "install"} => op[h].kind = "proxy"

InstallsRead == \A h \in Handlers \ shared : pc[h] = "install" => url[h] = mem.proxy

SavingAlone == \A h \in Handlers \ shared :
                 Changing(h) /\ pc[h] = "save" => installed = old.proxy \/ raced

SavingShared == \A h \in Handlers \cap shared :
                  Changing(h) /\ pc[h] = "save" =>
                    raced \/ \E g \in Handlers : pc[g] \in {"read", "install"}

InstallInv == /\ Meeting /\ OnlyProxiesRead /\ InstallsRead
              /\ SavingAlone /\ SavingShared /\ InstalledUnlessRaced

LEMMA ApplyKeepsProxy ==
  ASSUME NEW c \in Running, NEW o \in Ops, o.kind # "proxy"
  PROVE  Apply(o, c).proxy = c.proxy
<1>1. c = [gateways |-> c.gateways, proxy |-> c.proxy]
  BY RunningParts
<1>2. CASE o.kind = "add"
  BY <1>1, <1>2 DEF Apply, AddGateway
<1>3. CASE o.kind = "delete"
  BY <1>1, <1>3 DEF Apply, DeleteGateway
<1>4. CASE o.kind = "patch"
  BY <1>1, <1>4 DEF Apply, PatchGateway
<1> QED
  BY <1>2, <1>3, <1>4, RequestFields

\* What the histories say of a step, whichever it is.
LEMMA HistoryStep ==
  ASSUME InstallNext
  PROVE  /\ Meeting'
         /\ \A h \in Handlers : Changing(h)' /\ h \notin shared' =>
              h \notin shared /\ \A g \in Handlers : g # h => ~Changing(g)'
         /\ \A h \in shared : Changing(h)' => h \in shared'
  BY DEF InstallNext, Meeting, Met

LEMMA DownKeepsInstallInv ==
  ASSUME IInv, InstallInv, InstallNext, Start \/ StartFails \/ Crash
  PROVE  InstallInv'
<1>1. \A h \in Handlers : pc'[h] = "idle"
  BY DEF Start, StartFails, Crash, allIdle, IInv, TypeOK
<1>2. up' => installed' = mem'.proxy
  BY DEF Start, StartFails, Crash
<1> QED
  BY <1>1, <1>2, HistoryStep
     DEF InstallInv, OnlyProxiesRead, InstallsRead, SavingAlone, SavingShared,
         InstalledUnlessRaced, Changing

\* A step of k that neither changes a proxy URL nor ends such a change.
LEMMA QuietKeepsInstallInv ==
  ASSUME IInv, InstallInv, InstallNext,
         \A h \in Handlers : Changing(h)' <=> Changing(h),
         \A h \in Handlers :
           Changing(h) => pc'[h] = pc[h] /\ op'[h] = op[h] /\ url'[h] = url[h],
         \A h \in Handlers : pc'[h] \in {"read", "install"} => Changing(h),
         installed' = installed, up' = up,
         up => mem'.proxy = mem.proxy,
         \A h \in Handlers : Changing(h) /\ pc[h] = "save" => old' = old
  PROVE  InstallInv'
<1> USE DEF InstallInv
<1>1. OnlyProxiesRead'
  BY DEF Changing, OnlyProxiesRead
<1>2. raced' = (up /\ raced)
  BY DEF InstallNext, Installing, Changing, OnlyProxiesRead
<1>3. \A h \in Handlers : pc[h] # "idle" => up
  BY DEF IInv, TypeOK
<1>4. InstallsRead'
  BY <1>1, <1>3, HistoryStep DEF InstallsRead, Changing, OnlyProxiesRead
<1>5. SavingAlone'
  BY <1>2, <1>3, HistoryStep DEF SavingAlone, Changing
<1>6. SavingShared'
  <2> SUFFICES ASSUME NEW h \in Handlers, h \in shared', Changing(h)', pc'[h] = "save"
               PROVE  raced' \/ \E g \in Handlers : pc'[g] \in {"read", "install"}
    BY DEF SavingShared
  <2>1. Changing(h) /\ pc[h] = "save"
    BY DEF Changing
  <2>2. h \in shared
    BY <2>1, HistoryStep DEF InstallNext, Met, Meeting
  <2>3. raced \/ \E g \in Handlers : pc[g] \in {"read", "install"}
    BY <2>1, <2>2 DEF SavingShared
  <2> QED
    BY <1>2, <1>3, <2>1, <2>3 DEF Changing, OnlyProxiesRead
<1>7. InstalledUnlessRaced'
  BY <1>2 DEF InstalledUnlessRaced
<1> QED
  BY <1>1, <1>4, <1>5, <1>6, <1>7, HistoryStep

LEMMA CommitKeepsInstallInv ==
  ASSUME IInv, InstallInv, InstallNext, NEW k \in Handlers, Commit(k), op[k].kind = "proxy"
  PROVE  InstallInv'
<1> USE DEF InstallInv
<1>1. /\ up /\ ~Changing(k) /\ Changing(k)' /\ pc'[k] = "save"
      /\ \A h \in Handlers : pc[h] # "save"
      /\ \A h \in Handlers \ {k} : pc'[h] = pc[h] /\ (Changing(h)' <=> Changing(h))
  BY StoreAssumption DEF Commit, Changing, IInv, TypeOK
<1>2. Installing = {}
  BY <1>1 DEF Installing, Commit
<1>3. raced' = (up /\ raced)
  BY <1>2 DEF InstallNext, Commit
<1>4. OnlyProxiesRead' /\ InstalledUnlessRaced'
  BY <1>1 DEF OnlyProxiesRead, InstalledUnlessRaced, Commit
<1>5. InstallsRead'
  \* One that has read meets k.
  BY <1>1, HistoryStep DEF InstallsRead, OnlyProxiesRead, Changing
<1>6. SavingAlone'
  <2> SUFFICES ASSUME k \notin shared' PROVE installed' = old'.proxy \/ raced'
    BY <1>1 DEF SavingAlone
  <2>1. \A h \in Handlers : ~Changing(h)
    BY <1>1, HistoryStep
  <2> QED
    BY <1>1, <1>3, <2>1 DEF InstalledUnlessRaced, Commit
<1>7. SavingShared'
  <2> SUFFICES ASSUME k \in shared'
               PROVE  \E g \in Handlers : pc'[g] \in {"read", "install"}
    BY <1>1 DEF SavingShared
  <2>1. CASE k \in Met
    BY <1>1, <2>1 DEF Met, Changing
  <2> QED
    BY <1>1, <2>1 DEF InstallNext, Meeting
<1> QED
  BY <1>4, <1>5, <1>6, <1>7, HistoryStep

LEMMA SaveKeepsInstallInv ==
  ASSUME IInv, InstallInv, InstallNext, NEW k \in Handlers, Save(k), op[k].kind = "proxy",
         \A h \in Handlers : pc[h] = "save" <=> h = k
  PROVE  InstallInv'
<1> USE DEF InstallInv
<1>1. /\ Changing(k)' /\ pc'[k] = "read" /\ op' = op /\ url' = url
      /\ mem' = mem /\ installed' = installed
      /\ \A h \in Handlers \ {k} : pc'[h] = pc[h]
  BY DEF Save, Changing, IInv, TypeOK
<1>2. OnlyProxiesRead' /\ InstalledUnlessRaced'
  BY <1>1 DEF OnlyProxiesRead, InstalledUnlessRaced
<1>3. InstallsRead'
  BY <1>1, HistoryStep DEF InstallsRead, OnlyProxiesRead, Changing
<1>4. SavingAlone' /\ SavingShared'
  BY <1>1 DEF SavingAlone, SavingShared
<1> QED
  BY <1>2, <1>3, <1>4, HistoryStep

LEMMA SaveFailsKeepsInstallInv ==
  ASSUME IInv, InstallInv, InstallNext, NEW k \in Handlers, SaveFails(k), op[k].kind = "proxy"
  PROVE  InstallInv'
<1> USE DEF InstallInv
<1>1. /\ up /\ up' /\ Changing(k) /\ ~Changing(k)' /\ pc'[k] = "idle"
      /\ mem' = old /\ installed' = installed
      /\ \A h \in Handlers : pc[h] = "save" <=> h = k
      /\ \A h \in Handlers \ {k} : pc'[h] = pc[h] /\ url'[h] = url[h]
      /\ \A h \in Handlers \ {k} : Changing(h)' <=> Changing(h)
  BY StoreAssumption DEF SaveFails, finish, Changing, IInv, TypeOK
<1>2. Installing = {}
  BY <1>1 DEF Installing
<1>3. raced' = (up /\ raced)
  BY <1>1, <1>2 DEF InstallNext
<1>4. OnlyProxiesRead'
  BY <1>1 DEF OnlyProxiesRead, Changing
<1>5. InstallsRead'
  \* One that has read has met k.
  <2> SUFFICES ASSUME NEW h \in Handlers, pc'[h] = "install", h \notin shared'
               PROVE  FALSE
    BY DEF InstallsRead
  <2>1. h # k /\ Changing(h) /\ Changing(h)'
    BY <1>1 DEF OnlyProxiesRead, Changing
  <2> QED
    BY <1>1, <2>1, HistoryStep DEF Meeting
<1>6. SavingAlone' /\ SavingShared'
  BY <1>1 DEF SavingAlone, SavingShared
<1>7. InstalledUnlessRaced'
  <2> SUFFICES ASSUME \A h \in Handlers : ~Changing(h)'
               PROVE  installed' = mem'.proxy \/ raced'
    BY DEF InstalledUnlessRaced
  <2>1. CASE k \in shared
    BY <1>1, <1>3, <2>1 DEF SavingShared, OnlyProxiesRead, Changing
  <2>2. CASE k \notin shared
    BY <1>1, <1>3, <2>2 DEF SavingAlone
  <2> QED
    BY <2>1, <2>2
<1> QED
  BY <1>4, <1>5, <1>6, <1>7, HistoryStep

LEMMA ReadKeepsInstallInv ==
  ASSUME IInv, InstallInv, InstallNext, NEW k \in Handlers, ReadProxyURL(k)
  PROVE  InstallInv'
<1> USE DEF InstallInv
<1>1. /\ up /\ up' /\ Changing(k) /\ Changing(k)' /\ pc'[k] = "install"
      /\ url'[k] = mem.proxy /\ mem' = mem /\ installed' = installed /\ old' = old
      /\ \A h \in Handlers : pc[h] # "save" /\ pc'[h] # "save"
      /\ \A h \in Handlers \ {k} : pc'[h] = pc[h] /\ url'[h] = url[h] /\ op'[h] = op[h]
      /\ op'[k] = op[k]
  BY StoreAssumption DEF ReadProxyURL, Changing, OnlyProxiesRead, IInv, TypeOK
<1>2. OnlyProxiesRead'
  BY <1>1 DEF OnlyProxiesRead, Changing
<1>3. InstallsRead'
  BY <1>1, HistoryStep DEF InstallsRead, OnlyProxiesRead, Changing
<1>4. SavingAlone' /\ SavingShared' /\ InstalledUnlessRaced'
  BY <1>1 DEF SavingAlone, SavingShared, InstalledUnlessRaced
<1> QED
  BY <1>2, <1>3, <1>4, HistoryStep

LEMMA InstallKeepsInstallInv ==
  ASSUME IInv, InstallInv, InstallNext, NEW k \in Handlers, Install(k)
  PROVE  InstallInv'
<1> USE DEF InstallInv
<1>1. /\ up /\ up' /\ Changing(k) /\ ~Changing(k)' /\ pc[k] = "install" /\ pc'[k] = "idle"
      /\ installed' = url[k] /\ mem' = mem /\ old' = old
      /\ \A h \in Handlers \ {k} : pc'[h] = pc[h] /\ url'[h] = url[h] /\ op'[h] = op[h]
      /\ \A h \in Handlers \ {k} : Changing(h)' <=> Changing(h)
  BY DEF Install, finish, Changing, OnlyProxiesRead, IInv, TypeOK
<1>2. Installing = {k}
  BY <1>1 DEF Installing
<1>3. raced' <=> k \in shared
  BY <1>1, <1>2 DEF InstallNext
<1>4. OnlyProxiesRead'
  BY <1>1 DEF OnlyProxiesRead
<1>5. InstallsRead'
  BY <1>1, HistoryStep DEF InstallsRead, OnlyProxiesRead, Changing
<1>6. SavingAlone' /\ SavingShared'
  \* A change that is being saved has met k.
  BY <1>1, <1>3, HistoryStep DEF SavingAlone, SavingShared, Meeting
<1>7. InstalledUnlessRaced'
  BY <1>1, <1>3 DEF InstalledUnlessRaced, InstallsRead
<1> QED
  BY <1>4, <1>5, <1>6, <1>7, HistoryStep

LEMMA HandlerKeepsInstallInv ==
  ASSUME IInv, InstallInv, InstallNext, NEW k \in Handlers, HandlerStep(k)
  PROVE  InstallInv'
<1>1. CASE Receive(k)
  BY <1>1, QuietKeepsInstallInv DEF Receive, Changing, InstallInv, OnlyProxiesRead, IInv, TypeOK
<1>2. CASE Refuse(k)
  BY <1>2, QuietKeepsInstallInv
     DEF Refuse, finish, Changing, InstallInv, OnlyProxiesRead, IInv, TypeOK
<1>3. CASE Commit(k) /\ op[k].kind # "proxy"
  <2>1. mem \in Running /\ op[k] \in Ops
    BY <1>3 DEF Commit, IInv, TypeOK
  <2>2. mem'.proxy = mem.proxy
    BY <1>3, <2>1, ApplyKeepsProxy DEF Commit
  <2>3. \A h \in Handlers : pc[h] # "save"
    BY <1>3, StoreAssumption DEF Commit, IInv, TypeOK
  <2> QED
    BY <1>3, <2>2, <2>3, QuietKeepsInstallInv
       DEF Commit, Changing, InstallInv, OnlyProxiesRead, IInv, TypeOK
<1>4. CASE Save(k)
  <2>1. \A h \in Handlers : pc[h] = "save" <=> h = k
    BY <1>4 DEF Save, IInv, TypeOK
  <2>2. CASE op[k].kind # "proxy"
    BY <1>4, <2>1, <2>2, QuietKeepsInstallInv
       DEF Save, finish, Changing, InstallInv, OnlyProxiesRead, IInv, TypeOK
  <2>3. CASE op[k].kind = "proxy"
    BY <1>4, <2>1, <2>3, SaveKeepsInstallInv
  <2> QED
    BY <2>2, <2>3
<1>5. CASE SaveFails(k) /\ op[k].kind # "proxy"
  <2>1. /\ \A h \in Handlers : pc[h] = "save" <=> h = k
        /\ old \in Running /\ op[k] \in Ops
    BY <1>5, StoreAssumption DEF SaveFails, IInv, TypeOK
  <2>2. mem'.proxy = mem.proxy
    BY <1>5, <2>1, ApplyKeepsProxy DEF SaveFails, IInv, Saving
  <2> QED
    BY <1>5, <2>1, <2>2, QuietKeepsInstallInv
       DEF SaveFails, finish, Changing, InstallInv, OnlyProxiesRead, IInv, TypeOK
<1> QED
  BY <1>1, <1>2, <1>3, <1>4, <1>5, CommitKeepsInstallInv, SaveFailsKeepsInstallInv,
     ReadKeepsInstallInv, InstallKeepsInstallInv DEF HandlerStep

(***************************************************************************)
(* A change of the proxy URL that meets no other one always ends with the  *)
(* clients on the URL that is configured, for any number of requests,      *)
(* failed saves and crashes (app.go:424-432, config.go:729-743).           *)
(***************************************************************************)
THEOREM ClientsFollow == InstallSpec => []InstalledUnlessRaced
<1>1. InstallSpec => SafetySpec
  <2>1. [InstallNext]_<<vars, history>> => [Next]_vars
    BY DEF InstallNext
  <2> QED
    BY <2>1, PTL DEF InstallSpec, SafetySpec, InstallInit
<1>2. InstallInit => InstallInv
  BY DEF InstallInit, Init, allIdle, InstallInv, Meeting, OnlyProxiesRead, InstallsRead,
         SavingAlone, SavingShared, InstalledUnlessRaced, Changing
<1>3. IInv /\ InstallInv /\ [InstallNext]_<<vars, history>> => InstallInv'
  <2> SUFFICES ASSUME IInv, InstallInv, [InstallNext]_<<vars, history>> PROVE InstallInv'
    OBVIOUS
  <2>1. CASE InstallNext
    <3>1. Next
      BY <2>1 DEF InstallNext
    <3> QED
      BY <2>1, <3>1, DownKeepsInstallInv, HandlerKeepsInstallInv DEF Next
  <2>2. CASE UNCHANGED <<vars, history>>
    BY <2>2 DEF vars, history, InstallInv, Meeting, OnlyProxiesRead, InstallsRead,
            SavingAlone, SavingShared, InstalledUnlessRaced, Changing
  <2> QED
    BY <2>1, <2>2
<1>4. InstallInv => InstalledUnlessRaced
  BY DEF InstallInv
<1> QED
  BY <1>1, <1>2, <1>3, <1>4, StoreInvariance, PTL DEF InstallSpec
===============================================================================
