------------------------------ MODULE UpstreamProofs ------------------------------
(***************************************************************************)
(* What is sent upstream, for every value of the constants.                *)
(*                                                                         *)
(* To which gateway and through which proxy (Routing, with the health      *)
(* checks beside it): RoutingInv says what a request that is being served  *)
(* has met of the configuration, which is why the two lookups and the      *)
(* choice of the client agree with one that was in force.                  *)
(*                                                                         *)
(* With which headers (Exchange): the writes to the header map are         *)
(* followed one after the other: each lemma says which names one of them   *)
(* leaves alone, and buildUpstreamHeaders is their composition.            *)
(*                                                                         *)
(* With which document: it is followed through the edits of the adapter.   *)
(* Of a list or a document, entries are kept at some positions (Kept); the *)
(* rank of a position is the place of its entry in what is kept, so that   *)
(* the last occurrence of a key stays the last.                            *)
(*                                                                         *)
(* And what comes back: AnswerInv says of the chunks that have been passed *)
(* on what each of them is, and that the row has the last usage told.      *)
(***************************************************************************)
EXTENDS Exchange, HealthProbe, FiniteSetTheorems, WellFoundedInduction, TLAPS

-------------------------------------------------------------------------------
(***************************************************************************)
(* Routing: no gateway has a console path. The clients are those of the    *)
(* proxy URL in force, or of one that is being replaced, unless changes    *)
(* that met installed them. One that has met none is the only one, and     *)
(* what it has read is in force.                                           *)
(***************************************************************************)
IsConfig(c) == /\ {"gateways", "proxy"} \subseteq DOMAIN c
               /\ Reserved \cap DOMAIN c.gateways = {}
               /\ \A i \in DOMAIN c.gateways : c.gateways[i] \in Settings

PendingAlone == \A m \in Pending \ shared :
                  /\ Pending = {m}
                  /\ manager[m].at = "install" => manager[m].url = conf.proxy

ClientsInv == \/ raced
              \/ Pending = {} /\ installed = conf.proxy
              \/ \E m \in Pending : installed = manager[m].was

ManagerInv ==
  /\ DOMAIN manager = Managers
  /\ IsConfig(conf)
  /\ shared \subseteq Pending
  /\ PendingAlone
  /\ ClientsInv

(***************************************************************************)
(* A request q that has met the configurations F: while it is served it    *)
(* has met the one in force and, but for the exception, one whose proxy    *)
(* the clients are built with. What it has found is what one of them has.  *)
(***************************************************************************)
EndsAs(q, F) == \E c \in F : IF q.status = "sent"
                               THEN Sent(c, q) /\ q.found = c.gateways[q.to]
                               ELSE ~Sent(c, q) /\ q.status \in Refused(c, q)

GoesVia(q, F) == q.status = "sent" =>
                   IF q.found.useProxy THEN (\E c \in F : q.via = c.proxy) \/ q.raced
                                       ELSE q.via = Direct

ClientsMet(F) == raced \/ \E c \in F : installed = c.proxy

RoutedInv(q, F) ==
  /\ q.at \in {"none", "read", "send", "done"}
  /\ q.at \in {"read", "send"} => conf \in F /\ ClientsMet(F)
  /\ q.at = "read" => q.kind \in {"fits", "unfit"}
  /\ q.at = "send" => \E c \in F : Sent(c, q) /\ q.found = c.gateways[q.to]
  /\ q.at = "done" => EndsAs(q, F) /\ GoesVia(q, F)

RoutingInv == /\ ManagerInv
              /\ DOMAIN req = Requests /\ DOMAIN inForce = Requests
              /\ \A r \in Requests : RoutedInv(req[r], inForce[r])

\* The gateways of the first configuration are in place.
LEMMA RoutingInitInv == RoutingInit => RoutingInv
  BY RoutingAssumption DEF RoutingInit, RoutingInv, ManagerInv, IsConfig, PendingAlone,
                           ClientsInv, Pending, RoutedInv

\* A longer list of configurations met spoils nothing.
LEMMA MoreMet ==
  ASSUME NEW q, NEW F, NEW G, F \subseteq G
  PROVE  (EndsAs(q, F) => EndsAs(q, G)) /\ (GoesVia(q, F) => GoesVia(q, G))
  BY DEF EndsAs, GoesVia

\* What has been committed is in force and met by whoever is served.
LEMMA CommitMet ==
  ASSUME RoutingInv, NEW new, commit(new)
  PROVE  /\ conf' = new /\ installed' = installed /\ raced' = raced
         /\ DOMAIN req' = Requests /\ DOMAIN inForce' = Requests
         /\ \A r \in Requests : RoutedInv(req[r], inForce[r])'
<1>1. /\ conf' = new /\ installed' = installed /\ req' = req /\ raced' = raced
      /\ DOMAIN inForce' = Requests
      /\ \A r \in Requests :
           inForce'[r] = IF req[r].at \in {"read", "send"} THEN inForce[r] \cup {new}
                                                           ELSE inForce[r]
  BY DEF commit
<1>2. ASSUME NEW r \in Requests
      PROVE  RoutedInv(req[r], inForce[r])'
  BY <1>1, <1>2, MoreMet DEF RoutingInv, RoutedInv, ClientsMet
<1> QED
  BY <1>1, <1>2 DEF RoutingInv

\* A change of the gateways leaves the proxy alone.
LEMMA GatewaysKeep ==
  ASSUME RoutingInv, NEW new, IsConfig(new), new.proxy = conf.proxy, commit(new),
         UNCHANGED <<manager, shared>>
  PROVE  RoutingInv'
<1>1. ManagerInv'
  BY CommitMet DEF RoutingInv, ManagerInv, PendingAlone, ClientsInv, Pending, IsConfig
<1> QED
  BY <1>1, CommitMet DEF RoutingInv

\* A change of the proxy URL meets those that are still to be installed.
LEMMA PatchProxyKeeps ==
  ASSUME RoutingInv, NEW m \in Managers, PatchProxy(m)
  PROVE  RoutingInv'
<1>1. PICK u \in ProxyURLs : commit([conf EXCEPT !.proxy = u])
  BY DEF PatchProxy
<1> DEFINE new == [conf EXCEPT !.proxy = u]
<1>2. IsConfig(new)
  BY DEF IsConfig, RoutingInv, ManagerInv
<1>3. /\ DOMAIN manager' = Managers
      /\ manager'[m].at = "read" /\ manager'[m].was = conf.proxy
      /\ \A n \in Managers \ {m} : manager'[n] = manager[n]
      /\ manager[m].at = "idle"
      /\ shared' = IF Pending = {} THEN {} ELSE Pending \cup {m}
  BY DEF PatchProxy, RoutingInv, ManagerInv
<1>4. Pending' = Pending \cup {m} /\ m \notin Pending
  BY <1>3 DEF Pending
<1>5. PendingAlone'
  <2>1. CASE Pending = {}
    BY <1>3, <1>4, <2>1 DEF PendingAlone
  <2>2. CASE Pending # {}
    BY <1>3, <1>4, <2>2 DEF PendingAlone
  <2> QED
    BY <2>1, <2>2
<1>6. ClientsInv'
  <2>1. installed' = installed /\ raced' = raced
    BY <1>1, CommitMet
  <2>2. CASE raced
    BY <2>1, <2>2 DEF ClientsInv
  <2>3. CASE Pending = {} /\ installed = conf.proxy
    BY <1>3, <1>4, <2>1, <2>3 DEF ClientsInv
  <2>4. ASSUME NEW n \in Pending, installed = manager[n].was
        PROVE  ClientsInv'
    <3>1. n \in Managers \ {m}
      BY <1>4 DEF Pending
    <3> QED
      BY <1>3, <1>4, <2>1, <2>4, <3>1 DEF ClientsInv
  <2> QED
    BY <2>2, <2>3, <2>4 DEF RoutingInv, ManagerInv, ClientsInv
<1>7. ManagerInv'
  <2>1. shared' \subseteq Pending'
    BY <1>3, <1>4
  <2>2. IsConfig(conf')
    BY <1>1, <1>2, CommitMet
  <2> QED
    BY <1>3, <1>5, <1>6, <2>1, <2>2 DEF ManagerInv, IsConfig
<1> QED
  BY <1>1, <1>7, CommitMet DEF RoutingInv

\* A step of a manager that leaves what is in force and who is served.
LEMMA ManagerStep ==
  ASSUME RoutingInv, ManagerInv', UNCHANGED <<conf, req, inForce>>,
         \/ UNCHANGED <<installed, raced>>
         \/ raced'
         \/ installed' = conf.proxy
  PROVE  RoutingInv'
<1>1. ASSUME NEW r \in Requests PROVE RoutedInv(req[r], inForce[r])'
  BY <1>1 DEF RoutingInv, RoutedInv, EndsAs, GoesVia, ClientsMet
<1> QED
  BY <1>1 DEF RoutingInv

LEMMA ReadURLKeeps ==
  ASSUME RoutingInv, NEW m \in Managers, ReadURL(m)
  PROVE  RoutingInv'
<1>1. /\ DOMAIN manager' = Managers
      /\ manager'[m].at = "install" /\ manager'[m].was = manager[m].was
      /\ manager'[m].url = conf.proxy
      /\ \A n \in Managers \ {m} : manager'[n] = manager[n]
      /\ manager[m].at = "read"
      /\ UNCHANGED <<conf, installed, raced, shared, req, inForce>>
  BY DEF ReadURL, RoutingInv, ManagerInv
<1>2. Pending' = Pending
  BY <1>1 DEF Pending
<1>3. PendingAlone'
  BY <1>1, <1>2 DEF PendingAlone, RoutingInv, ManagerInv, Pending
<1>4. ClientsInv'
  BY <1>1, <1>2 DEF ClientsInv, RoutingInv, ManagerInv, Pending
<1>5. ManagerInv'
  BY <1>1, <1>2, <1>3, <1>4 DEF RoutingInv, ManagerInv, IsConfig
<1> QED
  BY <1>1, <1>5, ManagerStep

\* One that has met none installs what is in force.
LEMMA SetProxyURLKeeps ==
  ASSUME RoutingInv, NEW m \in Managers, SetProxyURL(m)
  PROVE  RoutingInv'
<1>1. /\ DOMAIN manager' = Managers
      /\ manager'[m].at = "answer"
      /\ \A n \in Managers \ {m} : manager'[n] = manager[n]
      /\ manager[m].at = "install" /\ installed' = manager[m].url
      /\ shared' = shared \ {m}
      /\ UNCHANGED <<conf, req, inForce>>
  BY DEF SetProxyURL, installs, RoutingInv, ManagerInv
<1>2. Pending' = Pending \ {m} /\ m \in Pending
  BY <1>1 DEF Pending
<1>3. PendingAlone'
  <2>1. \A n \in Pending' : manager'[n] = manager[n]
    BY <1>1, <1>2 DEF Pending
  <2>2. ASSUME NEW n \in Pending' \ shared' PROVE FALSE
    BY <1>1, <1>2, <2>2 DEF RoutingInv, ManagerInv, PendingAlone
  <2> QED
    BY <2>2 DEF PendingAlone
<1>4. raced' \/ (Pending' = {} /\ installed' = conf.proxy)
  <2>1. CASE m \in shared
    <3>1. raced'
      BY <2>1, Zenon DEF SetProxyURL
    <3> QED
      BY <3>1
  <2>2. CASE m \notin shared
    <3>1. Pending = {m} /\ manager[m].url = conf.proxy
      BY <1>1, <1>2, <2>2 DEF RoutingInv, ManagerInv, PendingAlone
    <3> QED
      BY <1>1, <1>2, <3>1
  <2> QED
    BY <2>1, <2>2
<1>5. ManagerInv'
  <2>1. ClientsInv'
    BY <1>1, <1>4 DEF ClientsInv
  <2>2. shared' \subseteq Pending'
    BY <1>1, <1>2 DEF RoutingInv, ManagerInv
  <2> QED
    BY <1>1, <1>3, <2>1, <2>2 DEF RoutingInv, ManagerInv, IsConfig
<1> QED
  BY <1>1, <1>4, <1>5, ManagerStep

LEMMA AnswerKeeps ==
  ASSUME RoutingInv, NEW m \in Managers, Answer(m)
  PROVE  RoutingInv'
<1>1. /\ DOMAIN manager' = Managers
      /\ manager'[m].at = "idle" /\ manager[m].at = "answer"
      /\ \A n \in Managers \ {m} : manager'[n] = manager[n]
      /\ UNCHANGED <<conf, installed, raced, shared, req, inForce>>
  BY DEF Answer, RoutingInv, ManagerInv
<1>2. Pending' = Pending /\ \A n \in Pending : manager'[n] = manager[n]
  BY <1>1 DEF Pending
<1>3. ManagerInv'
  BY <1>1, <1>2 DEF RoutingInv, ManagerInv, IsConfig, PendingAlone, ClientsInv
<1> QED
  BY <1>1, <1>3, ManagerStep

\* A step of one request.
LEMMA StepOf ==
  ASSUME RoutingInv, NEW r \in Requests, NEW q, NEW F,
         req' = [req EXCEPT ![r] = q], DOMAIN inForce' = Requests,
         \A p \in Requests : inForce'[p] = IF p = r THEN F ELSE inForce[p],
         UNCHANGED management, RoutedInv(q, F)
  PROVE  RoutingInv'
<1>1. ManagerInv'
  BY DEF RoutingInv, ManagerInv, IsConfig, PendingAlone, ClientsInv, Pending, management
<1>2. /\ DOMAIN req' = Requests /\ DOMAIN inForce' = Requests
      /\ \A p \in Requests : IF p = r THEN req'[p] = q /\ inForce'[p] = F
                                      ELSE req'[p] = req[p] /\ inForce'[p] = inForce[p]
  BY DEF RoutingInv
<1>3. \A p \in Requests : RoutedInv(req'[p], inForce'[p])
  BY <1>2 DEF RoutingInv
<1>4. \A p \in Requests : RoutedInv(req[p], inForce[p])'
  BY <1>3 DEF RoutedInv, EndsAs, GoesVia, ClientsMet, management
<1> QED
  BY <1>1, <1>2, <1>4 DEF RoutingInv

\* What may be met at the start: the clients are those of one of it.
LEMMA CurrentMet ==
  ASSUME RoutingInv
  PROVE  conf \in Current /\ ClientsMet(Current)
<1>1. ASSUME NEW m \in Pending, installed = manager[m].was
      PROVE  \E c \in Current : installed = c.proxy
  <2> DEFINE c == [conf EXCEPT !.proxy = manager[m].was]
  <2>1. m \in Managers /\ manager[m].at # "idle"
    BY DEF Pending
  <2>2. c \in Current
    BY <2>1 DEF Current
  <2>3. c.proxy = installed
    BY <1>1 DEF RoutingInv, ManagerInv, IsConfig
  <2> QED
    BY <2>2, <2>3
<1> QED
  BY <1>1 DEF RoutingInv, ManagerInv, ClientsInv, ClientsMet, Current

\* The request comes: it has met what is in force, and what was if that is not answered.
LEMMA ServeKeeps ==
  ASSUME RoutingInv, NEW r \in Requests, ServeHTTP(r)
  PROVE  RoutingInv'
<1> DEFINE F == Current
<1>1. PICK q \in [to : Ids, kind : {"crossSite", "fits", "unfit"}] :
        req' = [req EXCEPT ![r] =
                  CASE MatchGateway(q.to) = {} -> ended(q, "console")
                    [] MatchGateway(q.to) # {} /\ q.kind = "crossSite" -> ended(q, "forbidden")
                    [] OTHER -> [at |-> "read", to |-> q.to, kind |-> q.kind]]
  BY DEF ServeHTTP
<1>2. /\ DOMAIN inForce' = Requests
      /\ \A p \in Requests : inForce'[p] = IF p = r THEN F ELSE inForce[p]
      /\ UNCHANGED management
  BY DEF ServeHTTP, RoutingInv
<1>3. /\ conf \in F /\ ClientsMet(F)
      /\ Reserved \cap DOMAIN conf.gateways = {}
      /\ \A i \in DOMAIN conf.gateways : conf.gateways[i] \in Settings
  BY CurrentMet DEF RoutingInv, ManagerInv, IsConfig
<1> HIDE DEF F
<1>4. CASE MatchGateway(q.to) = {}
  <2> DEFINE e == ended(q, "console")
  <2>1. q.to \notin DOMAIN conf.gateways
    BY <1>3, <1>4 DEF MatchGateway
  <2>2. RoutedInv(e, F)
    BY <1>3, <2>1 DEF RoutedInv, ended, EndsAs, GoesVia, Sent, Refused
  <2>3. req' = [req EXCEPT ![r] = e]
    BY <1>1, <1>4
  <2> QED
    BY <1>2, <2>2, <2>3, StepOf
<1>5. CASE MatchGateway(q.to) # {} /\ q.kind = "crossSite"
  <2> DEFINE e == ended(q, "forbidden")
  <2>1. q.to \in DOMAIN conf.gateways \ Reserved
    BY <1>3, <1>5 DEF MatchGateway
  <2>2. ~Sent(conf, e) /\ e.status \in Refused(conf, e)
    BY <1>5, <2>1 DEF ended, Sent, Refused
  <2>4. RoutedInv(e, F)
    BY <1>3, <2>2 DEF RoutedInv, ended, EndsAs, GoesVia
  <2>3. req' = [req EXCEPT ![r] = e]
    BY <1>1, <1>5
  <2> QED
    BY <1>2, <2>4, <2>3, StepOf
<1>6. CASE MatchGateway(q.to) # {} /\ q.kind # "crossSite"
  <2> DEFINE e == [at |-> "read", to |-> q.to, kind |-> q.kind]
  <2>1. RoutedInv(e, F)
    BY <1>3, <1>6 DEF RoutedInv
  <2>2. req' = [req EXCEPT ![r] = e]
    BY <1>1, <1>6
  <2> QED
    BY <1>2, <2>1, <2>2, StepOf
<1> QED
  BY <1>4, <1>5, <1>6

LEMMA ResolveKeeps ==
  ASSUME RoutingInv, NEW r \in Requests, Resolve(r)
  PROVE  RoutingInv'
<1> DEFINE q == req[r]
           F == inForce[r]
<1>1. /\ q.at = "read" /\ q.kind \in {"fits", "unfit"} /\ conf \in F
      /\ ClientsMet(F)
      /\ Reserved \cap DOMAIN conf.gateways = {}
      /\ \A i \in DOMAIN conf.gateways : conf.gateways[i] \in Settings
  BY DEF Resolve, RoutingInv, RoutedInv, ManagerInv, IsConfig
<1>2. /\ DOMAIN inForce' = Requests
      /\ \A p \in Requests : inForce'[p] = IF p = r THEN F ELSE inForce[p]
      /\ UNCHANGED management
  BY DEF Resolve, RoutingInv
<1>3. ASSUME NEW status, end(r, status), status # "sent",
             ~Sent(conf, ended(q, status)), status \in Refused(conf, ended(q, status))
      PROVE  RoutingInv'
  <2> DEFINE e == ended(q, status)
  <2>1. req' = [req EXCEPT ![r] = e]
    BY <1>3 DEF end
  <2>2. e.at = "done" /\ e.status = status
    BY DEF ended
  <2>3. ~Sent(conf, e) /\ status \in Refused(conf, e)
    BY <1>3
  <2> HIDE DEF e
  <2>4. RoutedInv(e, F)
    BY <1>1, <1>3, <2>2, <2>3 DEF RoutedInv, EndsAs, GoesVia
  <2> QED
    BY <1>2, <2>1, <2>4, StepOf
<1>4. CASE MatchGateway(q.to) = {} /\ end(r, "unknown")
  <2>1. q.to \notin DOMAIN conf.gateways
    BY <1>1, <1>4 DEF MatchGateway
  <2> QED
    BY <1>3, <1>4, <2>1 DEF Sent, Refused, ended
<1>5. ASSUME NEW s \in MatchGateway(q.to)
      PROVE  /\ ~s.enabled /\ end(r, "disabled") => RoutingInv'
             /\ s.enabled /\ q.kind = "unfit" /\ end(r, "unfit") => RoutingInv'
             /\ s.enabled /\ q.kind = "fits" /\ s.base = NoBase /\ end(r, "unset")
                  => RoutingInv'
             /\ /\ s.enabled /\ q.kind = "fits" /\ s.base # NoBase
                /\ req' = [req EXCEPT ![r] = [at |-> "send", to |-> q.to,
                                              kind |-> q.kind, found |-> s]]
                => RoutingInv'
  <2>1. q.to \in DOMAIN conf.gateways \ Reserved /\ s = conf.gateways[q.to]
    BY <1>1, <1>5 DEF MatchGateway
  <2>2. ASSUME ~s.enabled, end(r, "disabled") PROVE RoutingInv'
    <3> DEFINE e == ended(q, "disabled")
    <3>1. ~Sent(conf, e) /\ "disabled" \in Refused(conf, e)
      BY <1>1, <2>1, <2>2 DEF Sent, Refused, ended
    <3> QED
      BY <1>3, <2>2, <3>1
  <2>3. ASSUME s.enabled, q.kind = "unfit", end(r, "unfit") PROVE RoutingInv'
    <3> DEFINE e == ended(q, "unfit")
    <3>1. ~Sent(conf, e) /\ "unfit" \in Refused(conf, e)
      BY <2>1, <2>3 DEF Sent, Refused, ended
    <3> QED
      BY <1>3, <2>3, <3>1
  <2>4. ASSUME s.enabled, q.kind = "fits", s.base = NoBase, end(r, "unset") PROVE RoutingInv'
    <3> DEFINE e == ended(q, "unset")
    <3>1. ~Sent(conf, e) /\ "unset" \in Refused(conf, e)
      BY <2>1, <2>4 DEF Sent, Refused, ended
    <3> QED
      BY <1>3, <2>4, <3>1
  <2> DEFINE e == [at |-> "send", to |-> q.to, kind |-> q.kind, found |-> s]
  <2>5. ASSUME s.enabled, q.kind = "fits", s.base # NoBase, req' = [req EXCEPT ![r] = e]
        PROVE  RoutingInv'
    <3>1. RoutedInv(e, F)
      BY <1>1, <2>1, <2>5 DEF RoutedInv, Sent
    <3> HIDE DEF e
    <3> QED
      BY <1>2, <2>5, <3>1, StepOf
  <2> QED
    BY <2>2, <2>3, <2>4, <2>5
<1> QED
  BY <1>4, <1>5 DEF Resolve

LEMMA SendKeeps ==
  ASSUME RoutingInv, NEW r \in Requests, Send(r)
  PROVE  RoutingInv'
<1> DEFINE q == req[r]
           F == inForce[r]
           e == [at |-> "done", to |-> q.to, kind |-> q.kind, status |-> "sent",
                 found |-> q.found, via |-> ClientFor(q.found), raced |-> raced]
<1>1. /\ \E c \in F : Sent(c, q) /\ q.found = c.gateways[q.to]
      /\ ClientsMet(F)
  BY DEF Send, RoutingInv, RoutedInv
<1>2. /\ DOMAIN inForce' = Requests
      /\ \A p \in Requests : inForce'[p] = IF p = r THEN F ELSE inForce[p]
      /\ req' = [req EXCEPT ![r] = e]
      /\ UNCHANGED management
  BY DEF Send, RoutingInv
<1>3. RoutedInv(e, F)
  <2>1. EndsAs(e, F)
    BY <1>1 DEF EndsAs, Sent
  <2>2. GoesVia(e, F)
    BY <1>1 DEF GoesVia, ClientFor, ClientsMet
  <2> QED
    BY <2>1, <2>2 DEF RoutedInv
<1> HIDE DEF e
<1> QED
  BY <1>2, <1>3, StepOf

\* A change of the gateways leaves each with settings there are.
LEMMA ChangedSettings ==
  ASSUME \A i \in DOMAIN conf.gateways : conf.gateways[i] \in Settings,
         NEW gateways \in Changed
  PROVE  \A i \in DOMAIN gateways : gateways[i] \in Settings
<1> DEFINE old == conf.gateways
<1>1. \/ \E i \in Ids \ DOMAIN old, s \in Added : gateways = AddGateway(old, i, s)
      \/ \E i \in DOMAIN old, s \in Settings : gateways = PatchGateway(old, i, s)
      \/ \E i \in DOMAIN old \ Builtins : gateways = DeleteGateway(old, i)
  BY DEF Changed
<1>2. ASSUME NEW i, NEW s \in Added, gateways = AddGateway(old, i, s)
      PROVE  \A j \in DOMAIN gateways : gateways[j] \in Settings
  BY <1>2, RoutingAssumption DEF AddGateway
<1>3. ASSUME NEW i, NEW s \in Settings, gateways = PatchGateway(old, i, s)
      PROVE  \A j \in DOMAIN gateways : gateways[j] \in Settings
  BY <1>3 DEF PatchGateway
<1>4. ASSUME NEW i, gateways = DeleteGateway(old, i)
      PROVE  \A j \in DOMAIN gateways : gateways[j] \in Settings
  BY <1>4 DEF DeleteGateway
<1> QED
  BY <1>1, <1>2, <1>3, <1>4

LEMMA RoutingStepKeeps ==
  ASSUME RoutingInv, RoutingNext
  PROVE  RoutingInv'
<1>1. CASE ChangeGateways
  <2>1. PICK gateways \in Changed :
          ValidateConfig(gateways) /\ commit([conf EXCEPT !.gateways = gateways])
    BY <1>1 DEF ChangeGateways
  <2> DEFINE new == [conf EXCEPT !.gateways = gateways]
  <2>2. IsConfig(new) /\ new.proxy = conf.proxy
    <3>1. \A i \in DOMAIN gateways : gateways[i] \in Settings
      BY ChangedSettings DEF RoutingInv, ManagerInv, IsConfig
    <3> QED
      BY <2>1, <3>1 DEF IsConfig, ValidateConfig, RoutingInv, ManagerInv
  <2>3. UNCHANGED <<manager, shared>> /\ commit(new)
    BY <1>1, <2>1 DEF ChangeGateways
  <2> QED
    BY <2>2, <2>3, GatewaysKeep
<1>2. ASSUME NEW m \in Managers, Manage(m) PROVE RoutingInv'
  BY <1>2, ReadURLKeeps, SetProxyURLKeeps, AnswerKeeps DEF Manage
<1> QED
  BY <1>1, <1>2, PatchProxyKeeps, ServeKeeps, ResolveKeeps, SendKeeps DEF RoutingNext, Serve

\* The health checks take no part in it: all they change is how many have come.
LEMMA ProbesLeaveRouting ==
  ASSUME RoutingInv, UNCHANGED <<management, req, inForce>>
  PROVE  RoutingInv'
<1>1. ManagerInv'
  BY DEF RoutingInv, ManagerInv, IsConfig, PendingAlone, ClientsInv, Pending, management
<1>2. \A r \in Requests : RoutedInv(req[r], inForce[r])'
  BY DEF RoutingInv, RoutedInv, EndsAs, GoesVia, ClientsMet, management
<1> QED
  BY <1>1, <1>2 DEF RoutingInv

LEMMA RoutingInvariant == HealthSafety => []RoutingInv
<1>1. HealthInit => RoutingInv
  BY RoutingInitInv DEF HealthInit
<1>2. RoutingInv /\ [HealthNext]_healthVars => RoutingInv'
  BY RoutingStepKeeps, ProbesLeaveRouting
     DEF HealthNext, Rounds, checkAll, NextOfRound, handleTestGateway, Probe, checkUpstream,
         setHealth, healthVars, routing
<1> QED
  BY <1>1, <1>2, PTL DEF HealthSafety

(***************************************************************************)
(* For any gateways, settings and number of requests and changes: each     *)
(* request ends as one single configuration has it that was in force while *)
(* it was served, although it looks its gateway up twice (app.go:195-230,  *)
(* proxy.go:193-222, config.go:423-427).                                   *)
(***************************************************************************)
THEOREM RequestsFollowConfig == HealthSpec => []AnsweredAsConfigured
<1>1. RoutingInv => AnsweredAsConfigured
  BY DEF RoutingInv, RoutedInv, EndsAs, AnsweredAsConfigured
<1> QED
  BY <1>1, RoutingInvariant, PTL DEF HealthSpec

(***************************************************************************)
(* And what is sent goes through a proxy that was configured meanwhile, or *)
(* through none if its gateway has it so, for any number of changes of the *)
(* proxy URL under way at once; only clients installed by a change that    *)
(* met another one are excepted (app.go:424-432, proxy.go:259-304).        *)
(***************************************************************************)
THEOREM RequestsFollowProxy == HealthSpec => []SentAsConfigured
<1>1. RoutingInv => SentAsConfigured
  BY DEF RoutingInv, RoutedInv, GoesVia, SentAsConfigured
<1> QED
  BY <1>1, RoutingInvariant, PTL DEF HealthSpec
-------------------------------------------------------------------------------
\* The names that no step may bring back once they were left out.
Connection == {"connection", "transfer-encoding"}

(***************************************************************************)
(* Default changes one name at most.                                       *)
(***************************************************************************)
LEMMA DefaultKeeps ==
  ASSUME NEW d, NEW n, NEW v, DOMAIN d = Names
  PROVE  /\ DOMAIN Default(d, n, v) = Names
         /\ \A m \in Names : m # n => Default(d, n, v)[m] = d[m]
         /\ n \in Names => Default(d, n, v)[n] = IF d[n] = None THEN v ELSE d[n]
  BY DEF Default

LEMMA SomeNames ==
  /\ Connection \subseteq Names
  /\ {"authorization", "x-api-key"} \subseteq Names
  /\ {"x-opencode-session", "x-opencode-client", "x-correlation-id", "x-request-id",
      "user-agent", "accept", "content-type", "content-length"} \subseteq Names
  /\ AnthropicNames \subseteq Names
  /\ alwaysStripRequestHeaders \subseteq Names
  BY DEF Connection, Names, SessionNames, AnthropicNames, defaultForwardHeaders, Credentials,
         alwaysStripRequestHeaders

(***************************************************************************)
(* What holds of the map from the copy on: no header of the connection, a  *)
(* credential only as the client sent it.                                  *)
(***************************************************************************)
Clean(d, c) ==
  /\ DOMAIN d = Names
  /\ \A name \in Connection : d[name] = None
  /\ \A name \in {"authorization", "x-api-key"} : d[name] \in {None, Get(c, name)}

LEMMA CopyIsClean ==
  ASSUME NEW c, NEW allowed
  PROVE  Clean(copyForwardHeaders(c, allowed), c)
  BY SomeNames DEF Clean, copyForwardHeaders, Connection, hopByHopHeaders,
                   alwaysStripRequestHeaders

LEMMA SessionsKeepClean ==
  ASSUME NEW c, NEW g \in GatewayHeaders, NEW d, Clean(d, c)
  PROVE  Clean(applySessions(d, c, g), c)
<1> DEFINE s == grokSessionID(c)
           a == applySessionAffinity(d, g, s)
<1>1. affinityHeaders(g) \cap (Connection \cup {"authorization", "x-api-key"}) = {}
  BY DEF affinityHeaders, GatewayHeaders, Protocols, Connection
<1>2. Clean(a, c)
  BY <1>1, SomeNames DEF Clean, applySessionAffinity
<1>3. Clean(applyOpenCodeSession(a, c), c)
  <2>1. CASE a["x-opencode-session"] # None
    BY <1>2, <2>1 DEF applyOpenCodeSession
  <2>2. CASE a["x-opencode-session"] = None
    <3> DEFINE b == Default(a, "x-opencode-session", resolveOpenCodeSessionID(c))
               e == Default(b, "x-opencode-client", Get(c, "x-grok-client-identifier"))
    <3>1. DOMAIN a = Names
      BY <1>2 DEF Clean
    <3>2. /\ DOMAIN b = Names
          /\ \A m \in Names : m # "x-opencode-session" => b[m] = a[m]
      BY <3>1, DefaultKeeps
    <3> HIDE DEF b
    <3>3. /\ DOMAIN e = Names
          /\ \A m \in Names : m # "x-opencode-client" => e[m] = b[m]
      BY <3>2, DefaultKeeps
    <3> HIDE DEF e
    <3>4. Clean(e, c)
      BY <1>2, <3>2, <3>3, SomeNames DEF Clean, Connection
    <3> QED
      BY <2>2, <3>4 DEF applyOpenCodeSession, b, e
  <2> QED
    BY <2>1, <2>2
<1> QED
  BY <1>2, <1>3 DEF applySessions

LEMMA IDsKeepClean ==
  ASSUME NEW c, NEW d, Clean(d, c)
  PROVE  Clean(applyRequestIDs(d, c), c)
<1> DEFINE a == Default(d, "x-correlation-id", Get(c, "x-grok-req-id"))
           b == Default(a, "x-request-id", RequestID)
<1>1. DOMAIN d = Names
  BY DEF Clean
<1>2. /\ DOMAIN a = Names
      /\ \A m \in Names : m # "x-correlation-id" => a[m] = d[m]
  BY <1>1, DefaultKeeps
<1> HIDE DEF a
<1>3. /\ DOMAIN b = Names
      /\ \A m \in Names : m # "x-request-id" => b[m] = a[m]
  BY <1>2, DefaultKeeps
<1> HIDE DEF b
<1>4. Clean(b, c)
  BY <1>2, <1>3, SomeNames DEF Clean, Connection
<1> QED
  BY <1>4 DEF applyRequestIDs, a, b
-------------------------------------------------------------------------------
(***************************************************************************)
(* What holds from the credentials on.                                     *)
(***************************************************************************)
Keyed(d, c, g) ==
  /\ DOMAIN d = Names
  /\ \A name \in Connection : d[name] = None
  /\ \A name \in {"authorization", "x-api-key"} \cap c.names : d[name] = name
  /\ g.protocol = "anthropic" /\ c.bearer => d["x-api-key"] # None

LEMMA CredentialsAreKept ==
  ASSUME NEW c, NEW g, NEW d, Clean(d, c), c.bearer => "authorization" \in c.names
  PROVE  Keyed(applyCredentials(d, c, g), c, g)
<1> DEFINE a == Default(d, "authorization", Get(c, "authorization"))
           b == Default(a, "x-api-key", Get(c, "x-api-key"))
           e == Default(b, "x-api-key", BearerToken)
<1>1. DOMAIN d = Names
  BY DEF Clean
<1>2. /\ DOMAIN a = Names
      /\ \A m \in Names : m # "authorization" => a[m] = d[m]
      /\ a["authorization"] = IF d["authorization"] = None THEN Get(c, "authorization")
                              ELSE d["authorization"]
  BY <1>1, DefaultKeeps, SomeNames
<1> HIDE DEF a
<1>3. /\ DOMAIN b = Names
      /\ \A m \in Names : m # "x-api-key" => b[m] = a[m]
      /\ b["x-api-key"] = IF a["x-api-key"] = None THEN Get(c, "x-api-key") ELSE a["x-api-key"]
  BY <1>2, DefaultKeeps, SomeNames
<1> HIDE DEF b
<1>4. /\ DOMAIN e = Names
      /\ \A m \in Names : m # "x-api-key" => e[m] = b[m]
      /\ e["x-api-key"] = IF b["x-api-key"] = None THEN BearerToken ELSE b["x-api-key"]
  BY <1>3, DefaultKeeps, SomeNames
<1> HIDE DEF e
<1>5. /\ b["authorization"] = Get(c, "authorization")
      /\ b["x-api-key"] = Get(c, "x-api-key")
  BY <1>2, <1>3, SomeNames DEF Clean, None
<1>6. \A name \in Connection : b[name] = None /\ e[name] = None
  BY <1>2, <1>3, <1>4, SomeNames DEF Clean, Connection
<1>7. CASE g.protocol = "anthropic" /\ b["authorization"] # None /\ c.bearer
  <2>1. Keyed(e, c, g)
    BY <1>4, <1>5, <1>6, SomeNames DEF Keyed, Get, None, BearerToken
  <2> QED
    BY <1>7, <2>1 DEF applyCredentials, a, b, e
<1>8. CASE ~ (g.protocol = "anthropic" /\ b["authorization"] # None /\ c.bearer)
  <2>1. Keyed(b, c, g)
    BY <1>3, <1>5, <1>6, <1>8 DEF Keyed, Get, None
  <2> QED
    BY <1>8, <2>1 DEF applyCredentials, a, b
<1> QED
  BY <1>7, <1>8

LEMMA AgentAndAcceptKeepKeys ==
  ASSUME NEW c, NEW g, NEW d, Keyed(d, c, g)
  PROVE  Keyed(applyAccept(applyUserAgent(d, c), c, g), c, g)
<1> DEFINE a == applyUserAgent(d, c)
           b == applyAccept(a, c, g)
<1>1. /\ DOMAIN a = Names
      /\ \A m \in Names : m # "user-agent" => a[m] = d[m]
  BY DefaultKeeps DEF applyUserAgent, Keyed
<1> HIDE DEF a
<1>2. /\ DOMAIN b = Names
      /\ \A m \in Names : m # "accept" => b[m] = a[m]
  BY <1>1, DefaultKeeps DEF applyAccept
<1> HIDE DEF b
<1>3. Keyed(b, c, g)
  BY <1>1, <1>2, SomeNames DEF Keyed, Connection
<1> QED
  BY <1>3 DEF a, b

LEMMA AnthropicKeepsKeys ==
  ASSUME NEW c, NEW g, NEW d, Keyed(d, c, g)
  PROVE  /\ Keyed(applyAnthropic(d, c, g), c, g)
         /\ g.protocol # "anthropic"
              => \A name \in AnthropicNames : applyAnthropic(d, c, g)[name] = None
<1>1. (Connection \cup {"authorization", "x-api-key"}) \cap AnthropicNames = {}
  BY DEF Connection, AnthropicNames
<1>2. CASE g.protocol # "anthropic"
  BY <1>1, <1>2, SomeNames DEF Keyed, applyAnthropic
<1>3. CASE g.protocol = "anthropic"
  <2> DEFINE f == [name \in Names |-> IF name \in AnthropicNames /\ d[name] = None
                                        THEN Get(c, name) ELSE d[name]]
             a == Default(f, "anthropic-version", "2023-06-01")
             b == Default(a, "anthropic-dangerous-direct-browser-access", "true")
  <2>1. Keyed(f, c, g)
    BY <1>1, SomeNames DEF Keyed
  <2>2. DOMAIN f = Names
    OBVIOUS
  <2> HIDE DEF f
  <2>3. /\ DOMAIN a = Names
        /\ \A m \in Names : m # "anthropic-version" => a[m] = f[m]
    BY <2>2, DefaultKeeps
  <2> HIDE DEF a
  <2>4. /\ DOMAIN b = Names
        /\ \A m \in Names : m # "anthropic-dangerous-direct-browser-access" => b[m] = a[m]
    BY <2>3, DefaultKeeps
  <2> HIDE DEF b
  <2>5. Keyed(b, c, g)
    BY <2>1, <2>3, <2>4, SomeNames DEF Keyed, Connection
  <2> QED
    BY <1>3, <2>5 DEF applyAnthropic, f, a, b
<1> QED
  BY <1>2, <1>3
-------------------------------------------------------------------------------
(***************************************************************************)
(* The headers of the upstream request.                                    *)
(***************************************************************************)
LEMMA BuiltHeaders ==
  ASSUME NEW c, NEW g \in GatewayHeaders, c.bearer => "authorization" \in c.names
  PROVE  LET h == buildUpstreamHeaders(c, g)
         IN /\ DOMAIN h = Names
            /\ \A name \in {"accept-encoding", "content-encoding", "content-length", "host",
                            "connection", "transfer-encoding"} : h[name] = None
            /\ \A name \in {"authorization", "x-api-key"} \cap c.names : h[name] = name
            /\ g.protocol = "anthropic" /\ c.bearer => h["x-api-key"] # None
            /\ g.protocol # "anthropic" => \A name \in AnthropicNames : h[name] = None
<1> DEFINE allowed == IF g.forward = {} THEN defaultForwardHeaders ELSE g.forward
           copied == copyForwardHeaders(c, allowed)
           identified == applyRequestIDs(applySessions(copied, c, g), c)
           keyed == applyCredentials(identified, c, g)
           accepting == applyAccept(applyUserAgent(keyed, c), c, g)
           translated == applyAnthropic(accepting, c, g)
           stripped == stripUnforwardableRequestHeaders(translated)
<1>1. Clean(identified, c)
  BY CopyIsClean, SessionsKeepClean, IDsKeepClean
<1> HIDE DEF identified
<1>2. Keyed(keyed, c, g)
  BY <1>1, CredentialsAreKept
<1> HIDE DEF keyed
<1>3. Keyed(accepting, c, g)
  BY <1>2, AgentAndAcceptKeepKeys
<1> HIDE DEF accepting
<1>4. /\ Keyed(translated, c, g)
      /\ g.protocol # "anthropic" => \A name \in AnthropicNames : translated[name] = None
  BY <1>3, AnthropicKeepsKeys
<1> HIDE DEF translated
<1>5. /\ DOMAIN stripped = Names
      /\ \A name \in Names :
           stripped[name] = IF name \in alwaysStripRequestHeaders THEN None ELSE translated[name]
  BY DEF stripUnforwardableRequestHeaders
<1> HIDE DEF stripped
<1>6. applyGrokHeaderTranslations(copied, c, g) = translated
  BY DEF applyGrokHeaderTranslations, translated, accepting, keyed, identified
<1> DEFINE h == buildUpstreamHeaders(c, g)
<1>7. h = [stripped EXCEPT !["content-type"] = "application/json", !["content-length"] = None,
                           !["user-agent"] = IF g.override THEN Override ELSE @]
  BY <1>6 DEF buildUpstreamHeaders, stripped
<1>8. /\ DOMAIN h = Names
      /\ h["content-length"] = None
      /\ \A name \in Names \ {"content-type", "content-length", "user-agent"} :
           h[name] = stripped[name]
  BY <1>5, <1>7, SomeNames
<1> HIDE DEF h
<1>9. \A name \in {"accept-encoding", "content-encoding", "content-length", "host",
                   "connection", "transfer-encoding"} : h[name] = None
  BY <1>4, <1>5, <1>8, SomeNames DEF Keyed, Connection, alwaysStripRequestHeaders
<1>10. \A name \in {"authorization", "x-api-key"} : h[name] = translated[name]
  BY <1>5, <1>8, SomeNames DEF alwaysStripRequestHeaders
<1>11. g.protocol # "anthropic" => \A name \in AnthropicNames : h[name] = None
  BY <1>4, <1>5, <1>8, SomeNames DEF AnthropicNames
<1> QED
  BY <1>4, <1>8, <1>9, <1>10, <1>11 DEF Keyed, h
-------------------------------------------------------------------------------
(***************************************************************************)
(* Least and greatest numbers.                                             *)
(***************************************************************************)
LEMMA LeastIs == ASSUME NEW S \in SUBSET Nat, NEW m \in S, \A y \in S : m <= y
                 PROVE Min(S) = m
<1>1. \A x \in S : (\A y \in S : x <= y) => x = m
  OBVIOUS
<1> QED
  BY <1>1 DEF Min

\* (by the well-foundedness of < on the natural numbers)
LEMMA LeastExists == ASSUME NEW S \in SUBSET Nat, S # {}
                     PROVE  \E m \in S : \A y \in S : m <= y
<1>1. PICK x \in S : \A y \in S : <<y, x>> \notin OpToRel(<, Nat)
  BY NatLessThanWellFounded, WFMin
<1>2. ASSUME NEW y \in S
      PROVE  x <= y
  <2>1. <<y, x>> \in Nat \X Nat /\ <<y, x>>[1] = y /\ <<y, x>>[2] = x
    OBVIOUS
  <2>2. y < x => <<y, x>> \in OpToRel(<, Nat)
    BY <2>1 DEF OpToRel
  <2>3. ~(y < x)
    BY <1>1, <2>2, Zenon
  <2> QED
    BY <2>3
<1> QED
  BY <1>2

\* (the largest of a finite set of numbers)
LEMMA GreatestIs == ASSUME NEW S \in SUBSET Nat, NEW m \in S, \A y \in S : y <= m
                    PROVE Max(S) = m
<1>1. \A x \in S : (\A y \in S : x >= y) => x = m
  OBVIOUS
<1> QED
  BY <1>1 DEF Max

\* A nonempty set of indices has a greatest: the least of those that no member exceeds.
LEMMA HasGreatest ==
  ASSUME NEW k \in Nat, NEW I \in SUBSET (1..k), I # {}
  PROVE  Max(I) \in I /\ \A y \in I : y <= Max(I)
<1> DEFINE B == {b \in Nat : \A y \in I : y <= b}
<1>1. k \in B
  OBVIOUS
<1>2. PICK m \in B : \A b \in B : m <= b
  <2>1. B \in SUBSET Nat /\ B # {}
    BY <1>1
  <2> QED
    BY <2>1, LeastExists
<1>3. m \in I
  <2> SUFFICES ASSUME m \notin I
               PROVE  FALSE
    OBVIOUS
  <2>1. PICK y \in I : TRUE
    OBVIOUS
  <2>2. m - 1 \in B
    BY <2>1
  <2> QED
    BY <1>2, <2>2
<1> QED
  BY <1>2, <1>3, GreatestIs

-------------------------------------------------------------------------------
(***************************************************************************)
(* The sessions in the headers.                                            *)
(***************************************************************************)
\* FirstOf finds the first name listed that the client sent.
LEMMA FirstSent ==
  ASSUME NEW c, NEW listed, Len(listed) \in Nat, NEW i \in 1..Len(listed), listed[i] \in c.names,
         \A j \in 1..i - 1 : listed[j] \notin c.names
  PROVE  FirstOf(c, listed) = listed[i]
<1> DEFINE I == {j \in 1..Len(listed) : listed[j] \in c.names}
<1>1. I \in SUBSET Nat /\ i \in I /\ \A j \in I : i <= j
  OBVIOUS
<1>2. Min(I) = i
  <2> HIDE DEF I
  <2> QED
    BY <1>1, LeastIs
<1>3. SelectInSeq(listed, LAMBDA name : name \in c.names) = i
  BY <1>1, <1>2 DEF SelectInSeq
<1> QED
  BY <1>3 DEF FirstOf

\* ...and none if the client sent none of them.
LEMMA NoneSent ==
  ASSUME NEW c, NEW listed, \A j \in 1..Len(listed) : listed[j] \notin c.names
  PROVE  FirstOf(c, listed) = None
<1>1. SelectInSeq(listed, LAMBDA name : name \in c.names) = 0
  BY DEF SelectInSeq
<1> QED
  BY <1>1 DEF FirstOf

(***************************************************************************)
(* The session of an OpenCode upstream: the client's own header, else the  *)
(* session the client is in; never none, and invented only for a client    *)
(* that names none.                                                        *)
(***************************************************************************)
LEMMA OpenCodeSession ==
  ASSUME NEW c
  PROVE  /\ grokSessionID(c) # None =>
              resolveOpenCodeSessionID(c) = IF "x-opencode-session" \in c.names
                                              THEN "x-opencode-session" ELSE grokSessionID(c)
         /\ resolveOpenCodeSessionID(c) # None
         /\ resolveOpenCodeSessionID(c) = FreshSession => c.names \cap SessionSources = {}
         /\ grokSessionID(c) # FreshSession
<1> DEFINE grok == <<"x-grok-session-id", "x-grok-conv-id">>
           listed == <<"x-opencode-session", "x-grok-session-id", "x-grok-conv-id",
                       "x-session-id", "session_id", "x-client-request-id">>
<1>1. resolveOpenCodeSessionID(c) # None
  BY DEF resolveOpenCodeSessionID, None, FreshSession
<1>2. CASE "x-grok-session-id" \in c.names
  <2>1. FirstOf(c, grok) = "x-grok-session-id"
    BY <1>2, FirstSent
  <2>2. CASE "x-opencode-session" \in c.names
    <3>1. FirstOf(c, listed) = "x-opencode-session"
      BY <2>2, FirstSent
    <3> QED
      BY <2>1, <2>2, <3>1 DEF resolveOpenCodeSessionID, grokSessionID, None, FreshSession
  <2>3. CASE "x-opencode-session" \notin c.names
    <3>1. FirstOf(c, listed) = "x-grok-session-id"
      BY <1>2, <2>3, FirstSent
    <3> QED
      BY <2>1, <2>3, <3>1 DEF resolveOpenCodeSessionID, grokSessionID, None, FreshSession
  <2> QED
    BY <2>2, <2>3
<1>3. CASE "x-grok-session-id" \notin c.names /\ "x-grok-conv-id" \in c.names
  <2>1. FirstOf(c, grok) = "x-grok-conv-id"
    BY <1>3, FirstSent
  <2>2. CASE "x-opencode-session" \in c.names
    <3>1. FirstOf(c, listed) = "x-opencode-session"
      BY <2>2, FirstSent
    <3> QED
      BY <2>1, <2>2, <3>1 DEF resolveOpenCodeSessionID, grokSessionID, None, FreshSession
  <2>3. CASE "x-opencode-session" \notin c.names
    <3>1. FirstOf(c, listed) = "x-grok-conv-id"
      BY <1>3, <2>3, FirstSent
    <3> QED
      BY <2>1, <2>3, <3>1 DEF resolveOpenCodeSessionID, grokSessionID, None, FreshSession
  <2> QED
    BY <2>2, <2>3
<1>4. CASE "x-grok-session-id" \notin c.names /\ "x-grok-conv-id" \notin c.names
  <2>1. grokSessionID(c) = None
    BY <1>4, NoneSent DEF grokSessionID
  <2>2. ASSUME c.names \cap SessionSources # {}
        PROVE  resolveOpenCodeSessionID(c) # FreshSession
    <3>1. FirstOf(c, listed) \in {"x-opencode-session", "x-session-id", "session_id",
                                  "x-client-request-id"}
      <4>1. CASE "x-opencode-session" \in c.names
        <5>1. FirstOf(c, listed) = "x-opencode-session"
          BY <4>1, FirstSent
        <5> QED
          BY <5>1
      <4>2. CASE "x-opencode-session" \notin c.names /\ "x-session-id" \in c.names
        <5>1. FirstOf(c, listed) = "x-session-id"
          BY <1>4, <4>2, FirstSent
        <5> QED
          BY <5>1
      <4>3. CASE /\ "x-opencode-session" \notin c.names /\ "x-session-id" \notin c.names
                 /\ "session_id" \in c.names
        <5>1. FirstOf(c, listed) = "session_id"
          BY <1>4, <4>3, FirstSent
        <5> QED
          BY <5>1
      <4>4. CASE /\ "x-opencode-session" \notin c.names /\ "x-session-id" \notin c.names
                 /\ "session_id" \notin c.names /\ "x-client-request-id" \in c.names
        <5>1. FirstOf(c, listed) = "x-client-request-id"
          BY <1>4, <4>4, FirstSent
        <5> QED
          BY <5>1
      <4> QED
        BY <1>4, <2>2, <4>1, <4>2, <4>3, <4>4 DEF SessionSources
    <3>2. FirstOf(c, listed) \notin {None, FreshSession}
      BY <3>1 DEF None, FreshSession
    <3> QED
      BY <3>2 DEF resolveOpenCodeSessionID
  <2> QED
    BY <1>1, <2>1, <2>2 DEF None, FreshSession
<1> QED
  BY <1>1, <1>2, <1>3, <1>4

\* What a client says of a session itself, in the header name.
Own(c, name) == IF name \in c.names THEN {name} ELSE {}

(***************************************************************************)
(* The session headers when the sessions have been applied.                *)
(***************************************************************************)
SessionsTell(d, c, g) ==
  LET session == grokSessionID(c)
  IN /\ session # None =>
          /\ \A name \in affinityHeaders(g) : d[name] \in {session} \cup Own(c, name)
          /\ \A name \in SessionNames : d[name] \in {None, session} \cup Own(c, name)
     /\ g.opencode \/ g.affinity = "opencode" => d["x-opencode-session"] # None
     /\ d["x-opencode-session"] = FreshSession => c.names \cap SessionSources = {}

\* After applySessions, which is the last to write these headers but for the strip.
LEMMA SessionsAreTold ==
  ASSUME NEW c, NEW g \in GatewayHeaders, NEW allowed
  PROVE  LET d == applySessions(copyForwardHeaders(c, allowed), c, g)
         IN DOMAIN d = Names /\ SessionsTell(d, c, g)
<1> DEFINE copied == copyForwardHeaders(c, allowed)
           session == grokSessionID(c)
           a == applySessionAffinity(copied, g, session)
           b == Default(a, "x-opencode-session", resolveOpenCodeSessionID(c))
           e == Default(b, "x-opencode-client", Get(c, "x-grok-client-identifier"))
           d == applySessions(copied, c, g)
<1>1. affinityHeaders(g) \subseteq SessionNames /\ SessionNames \subseteq Names
  BY DEF affinityHeaders, GatewayHeaders, Protocols, SessionNames, Names
<1>2. "x-opencode-session" \in SessionNames /\ "x-opencode-client" \notin SessionNames
  BY DEF SessionNames
<1>3. \A name \in SessionNames : copied[name] \in {None} \cup Own(c, name)
  BY <1>1 DEF copyForwardHeaders, Get, Own
<1>4. /\ DOMAIN a = Names
      /\ \A name \in Names : a[name] = IF name \in affinityHeaders(g) /\ copied[name] = None
                                         THEN session ELSE copied[name]
  BY DEF applySessionAffinity
<1> HIDE DEF copied, a
<1>5. session # None =>
        /\ \A name \in affinityHeaders(g) : a[name] \in {session} \cup Own(c, name)
        /\ \A name \in SessionNames : a[name] \in {None, session} \cup Own(c, name)
  BY <1>1, <1>3, <1>4
<1>9. a["x-opencode-session"] # FreshSession
  <2>1. session # FreshSession
    BY OpenCodeSession
  <2>2. copied["x-opencode-session"] \in {None, "x-opencode-session"}
    BY <1>2, <1>3 DEF Own
  <2> HIDE DEF session
  <2> QED
    BY <1>1, <1>2, <1>4, <2>1, <2>2 DEF None, FreshSession
<1>6. CASE ~ (g.opencode \/ g.affinity = "opencode")
  <2>1. d = a
    BY <1>6 DEF applySessions, a
  <2> QED
    BY <1>4, <1>5, <1>6, <1>9, <2>1 DEF SessionsTell, copied
<1>7. CASE (g.opencode \/ g.affinity = "opencode") /\ a["x-opencode-session"] # None
  <2>1. d = a
    BY <1>7 DEF applySessions, applyOpenCodeSession, a
  <2> QED
    BY <1>4, <1>5, <1>7, <1>9, <2>1 DEF SessionsTell, copied
<1>8. CASE (g.opencode \/ g.affinity = "opencode") /\ a["x-opencode-session"] = None
  <2>1. d = e
    BY <1>8 DEF applySessions, applyOpenCodeSession, a
  <2>2. /\ DOMAIN b = Names
        /\ \A m \in Names : m # "x-opencode-session" => b[m] = a[m]
        /\ b["x-opencode-session"] = resolveOpenCodeSessionID(c)
    BY <1>1, <1>2, <1>4, <1>8, DefaultKeeps
  <2> HIDE DEF b
  <2>3. /\ DOMAIN e = Names
        /\ \A m \in Names : m # "x-opencode-client" => e[m] = b[m]
    BY <2>2, DefaultKeeps
  <2> HIDE DEF e
  <2>4. /\ \A m \in SessionNames : m # "x-opencode-session" => e[m] = a[m]
        /\ e["x-opencode-session"] = resolveOpenCodeSessionID(c)
    BY <1>1, <1>2, <2>2, <2>3
  <2>5. /\ resolveOpenCodeSessionID(c) # None
        /\ resolveOpenCodeSessionID(c) = FreshSession => c.names \cap SessionSources = {}
    BY OpenCodeSession
  <2>6. session # None =>
          resolveOpenCodeSessionID(c) \in {session} \cup Own(c, "x-opencode-session")
    BY OpenCodeSession DEF Own
  <2>7. ASSUME session # None
        PROVE  /\ \A name \in affinityHeaders(g) : e[name] \in {session} \cup Own(c, name)
               /\ \A name \in SessionNames : e[name] \in {None, session} \cup Own(c, name)
    BY <1>1, <1>5, <2>4, <2>6, <2>7
  <2> QED
    BY <2>1, <2>3, <2>4, <2>5, <2>7 DEF SessionsTell, copied
<1> QED
  BY <1>6, <1>7, <1>8

(***************************************************************************)
(* The writes that follow do not touch the headers of a session.           *)
(***************************************************************************)
Keeps(d, e) == DOMAIN e = Names /\ \A name \in SessionNames : e[name] = d[name]

\* Keeps is transitive.
LEMMA KeepsOn ==
  ASSUME NEW d, NEW e, NEW f, Keeps(d, e), Keeps(e, f)
  PROVE  Keeps(d, f)
  BY DEF Keeps

\* A default for another header keeps the sessions.
LEMMA DefaultKeepsSessions ==
  ASSUME NEW d, NEW name, NEW value, DOMAIN d = Names, name \notin SessionNames
  PROVE  Keeps(d, Default(d, name, value))
  BY DefaultKeeps DEF Keeps, SessionNames, Names

\* None of the writes that follow touches a session header.
LEMMA LaterWritesKeepSessions ==
  ASSUME NEW c, NEW g, NEW d, DOMAIN d = Names
  PROVE  /\ Keeps(d, applyRequestIDs(d, c))
         /\ Keeps(d, applyCredentials(d, c, g))
         /\ Keeps(d, applyUserAgent(d, c))
         /\ Keeps(d, applyAccept(d, c, g))
         /\ Keeps(d, applyAnthropic(d, c, g))
<1>1. {"x-correlation-id", "x-request-id", "x-api-key", "authorization", "user-agent",
       "accept"} \cap SessionNames = {}
  BY DEF SessionNames
<1>2. AnthropicNames \cap SessionNames = {} /\ SessionNames \subseteq Names
  BY DEF SessionNames, AnthropicNames, Names
<1>3. Keeps(d, applyRequestIDs(d, c))
  <2> DEFINE a == Default(d, "x-correlation-id", Get(c, "x-grok-req-id"))
  <2>1. Keeps(d, a) /\ DOMAIN a = Names
    BY <1>1, DefaultKeepsSessions DEF Keeps
  <2>2. Keeps(a, Default(a, "x-request-id", RequestID))
    BY <1>1, <2>1, DefaultKeepsSessions
  <2> QED
    BY <2>1, <2>2, KeepsOn DEF applyRequestIDs
<1>4. Keeps(d, applyCredentials(d, c, g))
  <2> DEFINE a == Default(d, "authorization", Get(c, "authorization"))
             b == Default(a, "x-api-key", Get(c, "x-api-key"))
             e == Default(b, "x-api-key", BearerToken)
  <2>1. Keeps(d, a) /\ DOMAIN a = Names
    BY <1>1, DefaultKeepsSessions DEF Keeps
  <2>2. Keeps(a, b) /\ DOMAIN b = Names
    BY <1>1, <2>1, DefaultKeepsSessions DEF Keeps
  <2>3. Keeps(b, e)
    BY <1>1, <2>2, DefaultKeepsSessions
  <2>4. Keeps(d, b) /\ Keeps(d, e)
    BY <2>1, <2>2, <2>3, KeepsOn
  <2>5. applyCredentials(d, c, g) \in {b, e}
    BY DEF applyCredentials
  <2> QED
    BY <2>4, <2>5
<1>5. Keeps(d, applyUserAgent(d, c))
  BY <1>1, DefaultKeepsSessions DEF applyUserAgent
<1>6. Keeps(d, applyAccept(d, c, g))
  <2>1. Keeps(d, [d EXCEPT !["accept"] = "application/json"])
    BY <1>1 DEF Keeps
  <2> QED
    BY <1>1, <2>1, DefaultKeepsSessions DEF applyAccept
<1>7. Keeps(d, applyAnthropic(d, c, g))
  <2> DEFINE f == [name \in Names |-> IF name \in AnthropicNames /\ d[name] = None
                                        THEN Get(c, name) ELSE d[name]]
             a == Default(f, "anthropic-version", "2023-06-01")
             b == Default(a, "anthropic-dangerous-direct-browser-access", "true")
             e == [name \in Names |-> IF name \in AnthropicNames THEN None ELSE d[name]]
  <2>1. {"anthropic-version", "anthropic-dangerous-direct-browser-access"} \cap SessionNames = {}
    BY DEF SessionNames
  <2>2. Keeps(d, f) /\ DOMAIN f = Names /\ Keeps(d, e)
    BY <1>2 DEF Keeps
  <2>3. Keeps(f, a) /\ DOMAIN a = Names
    <3> HIDE DEF f
    <3> QED
      BY <2>1, <2>2, DefaultKeepsSessions DEF Keeps
  <2>4. Keeps(a, b)
    <3> HIDE DEF a
    <3> QED
      BY <2>1, <2>3, DefaultKeepsSessions
  <2>5. Keeps(d, b)
    BY <2>2, <2>3, <2>4, KeepsOn
  <2>6. applyAnthropic(d, c, g) \in {b, e}
    BY DEF applyAnthropic
  <2> QED
    BY <2>2, <2>5, <2>6
<1> QED
  BY <1>3, <1>4, <1>5, <1>6, <1>7

\* So that buildUpstreamHeaders tells the sessions.
LEMMA BuiltSessions ==
  ASSUME NEW c, NEW g \in GatewayHeaders
  PROVE  SessionsTell(buildUpstreamHeaders(c, g), c, g)
<1> DEFINE allowed == IF g.forward = {} THEN defaultForwardHeaders ELSE g.forward
           copied == copyForwardHeaders(c, allowed)
           sessions == applySessions(copied, c, g)
           identified == applyRequestIDs(sessions, c)
           keyed == applyCredentials(identified, c, g)
           agent == applyUserAgent(keyed, c)
           accepting == applyAccept(agent, c, g)
           translated == applyAnthropic(accepting, c, g)
           stripped == stripUnforwardableRequestHeaders(translated)
           h == buildUpstreamHeaders(c, g)
<1>1. DOMAIN sessions = Names /\ SessionsTell(sessions, c, g)
  BY SessionsAreTold
<1> HIDE DEF sessions
<1>2. Keeps(sessions, identified)
  BY <1>1, LaterWritesKeepSessions
<1>3. Keeps(identified, keyed)
  <2> HIDE DEF identified
  <2> QED
    BY <1>2, LaterWritesKeepSessions DEF Keeps
<1>4. Keeps(keyed, agent)
  <2> HIDE DEF keyed
  <2>1. DOMAIN keyed = Names
    BY <1>3 DEF Keeps
  <2>2. Keeps(keyed, agent) /\ Keeps(keyed, applyAccept(keyed, c, g))
    BY <2>1, LaterWritesKeepSessions
  <2> QED
    BY <2>2
<1>5. Keeps(agent, accepting)
  <2> HIDE DEF agent
  <2> QED
    BY <1>4, LaterWritesKeepSessions DEF Keeps
<1>6. Keeps(accepting, translated)
  <2> HIDE DEF accepting
  <2> QED
    BY <1>5, LaterWritesKeepSessions DEF Keeps
<1>7. Keeps(sessions, translated)
  BY <1>2, <1>3, <1>4, <1>5, <1>6 DEF Keeps
<1>8. applyGrokHeaderTranslations(copied, c, g) = translated
  BY DEF applyGrokHeaderTranslations, sessions
<1> HIDE DEF translated
<1>9. SessionNames \cap (alwaysStripRequestHeaders \cup {"content-type", "content-length",
                                                          "user-agent"}) = {}
  BY DEF SessionNames, alwaysStripRequestHeaders
<1>10. SessionNames \subseteq Names
  BY DEF Names
<1>11. \A name \in SessionNames : stripped[name] = translated[name]
  BY <1>9, <1>10 DEF stripUnforwardableRequestHeaders
<1>12. h = [stripped EXCEPT !["content-type"] = "application/json", !["content-length"] = None,
                            !["user-agent"] = IF g.override THEN Override ELSE @]
  BY <1>8 DEF buildUpstreamHeaders
<1>13. DOMAIN stripped = Names
  BY DEF stripUnforwardableRequestHeaders
<1> HIDE DEF stripped, h
<1>14. \A name \in SessionNames : h[name] = sessions[name]
  BY <1>7, <1>9, <1>10, <1>11, <1>12, <1>13 DEF Keeps
<1>15. affinityHeaders(g) \subseteq SessionNames /\ "x-opencode-session" \in SessionNames
  BY DEF affinityHeaders, GatewayHeaders, Protocols, SessionNames
<1>16. SessionsTell(h, c, g)
  BY <1>1, <1>14, <1>15 DEF SessionsTell
<1> QED
  BY <1>16 DEF h

-------------------------------------------------------------------------------
(***************************************************************************)
(* Usage: every dialect of the upstreams is understood.                    *)
(***************************************************************************)
LEMMA FirstGiven ==
  ASSUME NEW usage, NEW keys, Len(keys) \in Nat, NEW i \in 1..Len(keys), keys[i] \in DOMAIN usage,
         \A j \in 1..i - 1 : keys[j] \notin DOMAIN usage
  PROVE  firstNumber(usage, keys) = usage[keys[i]]
<1> DEFINE I == {j \in 1..Len(keys) : keys[j] \in DOMAIN usage}
<1>1. I \in SUBSET Nat /\ i \in I /\ \A j \in I : i <= j
  OBVIOUS
<1>2. Min(I) = i
  <2> HIDE DEF I
  <2> QED
    BY <1>1, LeastIs
<1>3. SelectInSeq(keys, LAMBDA key : key \in DOMAIN usage) = i
  BY <1>1, <1>2 DEF SelectInSeq
<1> QED
  BY <1>3 DEF firstNumber

\* ...and 0 if none of them is given.
LEMMA NoneGiven ==
  ASSUME NEW usage, NEW keys, \A j \in 1..Len(keys) : keys[j] \notin DOMAIN usage
  PROVE  firstNumber(usage, keys) = 0
<1>1. SelectInSeq(keys, LAMBDA key : key \in DOMAIN usage) = 0
  BY DEF SelectInSeq
<1> QED
  BY <1>1 DEF firstNumber

\* The usage u of the row says what the upstream meant by n.
Truth(u, n) ==
  /\ u.PromptTokens = n.input + n.read + n.write
  /\ u.counts.CacheReadTokens = n.read
  /\ u.counts.CacheWriteTokens = n.write
  /\ u.counts.InputTokens = n.input
  /\ u.OutputTokens = n.output
  /\ u.ReasoningTokens = n.reasoning

\* The reasoning tokens are told in one of three places, or not at all.
LEMMA ReasoningTold ==
  ASSUME NEW usage, NEW k,
         \A key \in DOMAIN usage \cap {"output_tokens_details.reasoning_tokens", "reasoning_tokens",
                                       "completion_tokens_details.reasoning_tokens"} : usage[key] = k,
         DOMAIN usage \cap {"output_tokens_details.reasoning_tokens", "reasoning_tokens",
                                       "completion_tokens_details.reasoning_tokens"} = {} => k = 0
  PROVE  reasoningTokens(usage) = k
<1> DEFINE places == <<"output_tokens_details.reasoning_tokens", "reasoning_tokens",
                  "completion_tokens_details.reasoning_tokens">>
           I == {j \in 1..Len(places) : places[j] \in DOMAIN usage /\ usage[places[j]] # 0}
           i == SelectInSeq(places, LAMBDA key : key \in DOMAIN usage /\ usage[key] # 0)
<1>1. i = IF I # {} THEN Min(I) ELSE 0
  BY DEF SelectInSeq
<1>2. I # {} => Min(I) \in I
  <2>1. I \in SUBSET (1..3)
    OBVIOUS
  <2> HIDE DEF I
  <2>2. I # {} => \E x \in I : \A y \in I : x <= y
    BY <2>1, LeastExists
  <2> QED
    BY <2>2 DEF Min
<1>3. \A j \in 1..3 : places[j] \in {"output_tokens_details.reasoning_tokens", "reasoning_tokens",
                  "completion_tokens_details.reasoning_tokens"}
  OBVIOUS
<1>4. Len(places) = 3
  OBVIOUS
<1>5. reasoningTokens(usage) = IF i = 0 THEN 0 ELSE usage[places[i]]
  BY DEF reasoningTokens
<1>6. I = {} => k = 0
  OBVIOUS
<1>7. \A j \in I : j # 0 /\ usage[places[j]] = k
  BY <1>3, <1>4
<1> HIDE DEF I, i, places
<1> QED
  BY <1>1, <1>2, <1>5, <1>6, <1>7

\* DeepSeek: hits and misses, which add up to the prompt.
LEMMA HitMissTold ==
  ASSUME NEW n \in Tellable("chat_hit_miss"),
         NEW p \in {"chat_completions", "openai_compatible"}
  PROVE  Truth(extractUsageFromRoot(Event("chat_hit_miss", n), p), n)
<1> DEFINE u == Reported("chat_hit_miss", n)
           e == Event("chat_hit_miss", n)
<1>1. /\ DOMAIN u = {"prompt_tokens", "prompt_cache_hit_tokens", "prompt_cache_miss_tokens",
                     "completion_tokens"}
      /\ u["prompt_tokens"] = n.input + n.read
      /\ u["prompt_cache_hit_tokens"] = n.read
      /\ u["prompt_cache_miss_tokens"] = n.input
      /\ u["completion_tokens"] = n.output
  BY DEF Reported
<1>2. e = [usage |-> u, response |-> <<>>]
  BY DEF Event
<1>3. n.input \in Nat /\ n.read \in Nat /\ n.write = 0 /\ n.output \in Nat /\ n.reasoning = 0
  BY DEF Tellable
<1> HIDE DEF u, e
<1>4. /\ Given(u, hitKeys) /\ firstNumber(u, hitKeys) = n.read
      /\ Given(u, missKeys) /\ firstNumber(u, missKeys) = n.input
      /\ firstNumber(u, <<"cache_write_input_tokens", "cache_write_tokens",
                          "prompt_tokens_details.cache_write_tokens">>) = 0
      /\ firstNumber(u, <<"output_tokens", "completion_tokens">>) = n.output
      /\ firstNumber(u, <<"prompt_tokens", "input_tokens">>) = n.input + n.read
  <2>1. Given(u, hitKeys)
    BY <1>1 DEF Given, hitKeys
  <2>2. Given(u, missKeys)
    BY <1>1 DEF Given, missKeys
  <2>3. firstNumber(u, hitKeys) = n.read
    BY <1>1, FirstGiven DEF hitKeys
  <2>4. firstNumber(u, missKeys) = n.input
    BY <1>1, FirstGiven DEF missKeys
  <2>5. firstNumber(u, <<"cache_write_input_tokens", "cache_write_tokens",
                          "prompt_tokens_details.cache_write_tokens">>) = 0
    BY <1>1, NoneGiven
  <2>6. firstNumber(u, <<"output_tokens", "completion_tokens">>) = n.output
    BY <1>1, FirstGiven
  <2>7. firstNumber(u, <<"prompt_tokens", "input_tokens">>) = n.input + n.read
    BY <1>1, FirstGiven
  <2> QED
    BY <2>1, <2>2, <2>3, <2>4, <2>5, <2>6, <2>7
<1>5. reasoningTokens(u) = 0
  BY <1>1, ReasoningTold
<1>6. extractChatUsage(u) = Metrics(n.input, n.read, 0, TRUE)
  BY <1>4 DEF extractChatUsage
<1> DEFINE x == extractUsageFromRoot(e, p)
<1>7. /\ x.counts = extractChatUsage(u)
      /\ x.OutputTokens = n.output
      /\ x.ReasoningTokens = 0
  BY <1>2, <1>4, <1>5 DEF extractUsageFromRoot
<1>8. x.PromptTokens = n.input + n.read
  BY <1>2, <1>3, <1>4, <1>6 DEF extractUsageFromRoot, Metrics
<1> QED
  BY <1>3, <1>6, <1>7, <1>8 DEF Truth, Metrics, e

\* The details of a chat answer: cached and written tokens are part of the prompt.
LEMMA ChatDetailsTold ==
  ASSUME NEW n \in Tellable("chat_details"),
         NEW p \in {"chat_completions", "openai_compatible"}
  PROVE  Truth(extractUsageFromRoot(Event("chat_details", n), p), n)
<1> DEFINE u == Reported("chat_details", n)
           e == Event("chat_details", n)
           x == extractUsageFromRoot(e, p)
           writeKeys == <<"cache_write_input_tokens", "cache_write_tokens",
                          "prompt_tokens_details.cache_write_tokens">>
<1>1. /\ DOMAIN u = {"prompt_tokens", "completion_tokens", "prompt_tokens_details.cached_tokens",
                     "prompt_tokens_details.cache_write_tokens",
                     "completion_tokens_details.reasoning_tokens"}
      /\ u["prompt_tokens"] = n.input + n.read + n.write
      /\ u["completion_tokens"] = n.output
      /\ u["prompt_tokens_details.cached_tokens"] = n.read
      /\ u["prompt_tokens_details.cache_write_tokens"] = n.write
      /\ u["completion_tokens_details.reasoning_tokens"] = n.reasoning
  BY DEF Reported
<1>2. e = [usage |-> u, response |-> <<>>]
  BY DEF Event
<1>3. n.input \in Nat /\ n.read \in Nat /\ n.write \in Nat
  BY DEF Tellable
<1> HIDE DEF u, e
<1>4. Given(u, hitKeys)
  <2>1. Len(hitKeys) = 5 /\ hitKeys[4] = "prompt_tokens_details.cached_tokens"
    BY DEF hitKeys
  <2> QED
    BY <1>1, <2>1 DEF Given, hitKeys
<1>5. ~ Given(u, missKeys)
  BY <1>1 DEF Given, missKeys
<1>6. Given(u, <<"prompt_tokens">>)
  BY <1>1 DEF Given
<1>7. firstNumber(u, hitKeys) = n.read
  BY <1>1, FirstGiven DEF hitKeys
<1>8. firstNumber(u, writeKeys) = n.write
  BY <1>1, FirstGiven
<1>9. firstNumber(u, <<"prompt_tokens">>) = n.input + n.read + n.write
  BY <1>1, FirstGiven
<1>10. firstNumber(u, <<"output_tokens", "completion_tokens">>) = n.output
  BY <1>1, FirstGiven
<1>11. firstNumber(u, <<"prompt_tokens", "input_tokens">>) = n.input + n.read + n.write
  BY <1>1, FirstGiven
<1>12. reasoningTokens(u) = n.reasoning
  BY <1>1, ReasoningTold
<1>13. extractChatUsage(u) = Metrics(n.input, n.read, n.write, TRUE)
  <2>1. Less(n.input + n.read + n.write, n.read, n.write) = n.input
    BY <1>3 DEF Less
  <2> QED
    BY <1>4, <1>5, <1>6, <1>7, <1>8, <1>9, <2>1 DEF extractChatUsage
<1>14. x.counts = extractChatUsage(u) /\ x.OutputTokens = n.output /\ x.ReasoningTokens = n.reasoning
  BY <1>2, <1>10, <1>12 DEF extractUsageFromRoot
<1>15. x.PromptTokens = n.input + n.read + n.write
  BY <1>2, <1>3, <1>11, <1>13 DEF extractUsageFromRoot, Metrics
<1> QED
  BY <1>13, <1>14, <1>15 DEF Truth, Metrics, e

\* A chat answer without details.
LEMMA ChatPlainTold ==
  ASSUME NEW n \in Tellable("chat_plain"),
         NEW p \in {"chat_completions", "openai_compatible"}
  PROVE  Truth(extractUsageFromRoot(Event("chat_plain", n), p), n)
<1> DEFINE u == Reported("chat_plain", n)
           e == Event("chat_plain", n)
           x == extractUsageFromRoot(e, p)
<1>1. /\ DOMAIN u = {"prompt_tokens", "completion_tokens"}
      /\ u["prompt_tokens"] = n.input
      /\ u["completion_tokens"] = n.output
  BY DEF Reported
<1>2. e = [usage |-> u, response |-> <<>>]
  BY DEF Event
<1>3. n.input \in Nat /\ n.read = 0 /\ n.write = 0 /\ n.reasoning = 0
  BY DEF Tellable
<1> HIDE DEF u, e
<1>4. ~ Given(u, hitKeys)
  BY <1>1 DEF Given, hitKeys
<1>5. firstNumber(u, <<"prompt_tokens">>) = n.input
  BY <1>1, FirstGiven
<1>6. firstNumber(u, <<"output_tokens", "completion_tokens">>) = n.output
  BY <1>1, FirstGiven
<1>7. firstNumber(u, <<"prompt_tokens", "input_tokens">>) = n.input
  BY <1>1, FirstGiven
<1>8. reasoningTokens(u) = 0
  BY <1>1, ReasoningTold
<1>9. extractChatUsage(u) = Metrics(n.input, 0, 0, FALSE)
  BY <1>4, <1>5 DEF extractChatUsage
<1>10. x.counts = extractChatUsage(u) /\ x.OutputTokens = n.output /\ x.ReasoningTokens = 0
  BY <1>2, <1>6, <1>8 DEF extractUsageFromRoot
<1>11. x.PromptTokens = n.input
  BY <1>2, <1>3, <1>7, <1>9 DEF extractUsageFromRoot, Metrics
<1> QED
  BY <1>3, <1>9, <1>10, <1>11 DEF Truth, Metrics, e

\* The details of a Responses answer: the total includes them.
LEMMA ResponsesDetailsTold ==
  ASSUME NEW n \in Tellable("responses_details")
  PROVE  Truth(extractUsageFromRoot(Event("responses_details", n), "responses"), n)
<1> DEFINE u == Reported("responses_details", n)
           e == Event("responses_details", n)
           x == extractUsageFromRoot(e, "responses")
           totals == <<"input_tokens", "prompt_tokens">>
           hits == <<"cache_read_input_tokens", "cache_read_tokens",
                     "input_tokens_details.cached_tokens", "input_tokens_details.cache_read_tokens">>
           writeKeys == <<"cache_write_input_tokens", "cache_write_tokens",
                          "input_tokens_details.cache_write_tokens">>
<1>1. /\ DOMAIN u = {"input_tokens", "output_tokens", "input_tokens_details.cached_tokens",
                     "input_tokens_details.cache_write_tokens",
                     "output_tokens_details.reasoning_tokens"}
      /\ u["input_tokens"] = n.input + n.read + n.write
      /\ u["output_tokens"] = n.output
      /\ u["input_tokens_details.cached_tokens"] = n.read
      /\ u["input_tokens_details.cache_write_tokens"] = n.write
      /\ u["output_tokens_details.reasoning_tokens"] = n.reasoning
  BY DEF Reported
<1>2. e = [usage |-> <<>>, response |-> u] /\ u # <<>>
  <2>1. DOMAIN <<>> = {}
    OBVIOUS
  <2> QED
    BY <1>1, <2>1 DEF Event
<1>3. n.input \in Nat /\ n.read \in Nat /\ n.write \in Nat
  BY DEF Tellable
<1> HIDE DEF u, e
<1>4. Given(u, totals) /\ firstNumber(u, totals) = n.input + n.read + n.write
  <2>1. Given(u, totals)
    BY <1>1 DEF Given
  <2> QED
    BY <1>1, <2>1, FirstGiven
<1>5. Given(u, hits) /\ firstNumber(u, hits) = n.read
  <2>1. Len(hits) = 4 /\ hits[3] = "input_tokens_details.cached_tokens"
    OBVIOUS
  <2>2. Given(u, hits)
    BY <1>1, <2>1 DEF Given
  <2> QED
    BY <1>1, <2>2, FirstGiven
<1>6. firstNumber(u, writeKeys) = n.write
  BY <1>1, FirstGiven
<1>7. firstNumber(u, <<"output_tokens", "completion_tokens">>) = n.output
  BY <1>1, FirstGiven
<1>8. firstNumber(u, <<"prompt_tokens", "input_tokens">>) = n.input + n.read + n.write
  BY <1>1, FirstGiven
<1>9. reasoningTokens(u) = n.reasoning
  BY <1>1, ReasoningTold
<1>10. extractResponsesUsage(u) = Metrics(n.input, n.read, n.write, TRUE)
  <2>1. Less(n.input + n.read + n.write, n.read, n.write) = n.input
    BY <1>3 DEF Less
  <2> QED
    BY <1>4, <1>5, <1>6, <2>1 DEF extractResponsesUsage
<1>11. /\ x.counts = extractResponsesUsage(u)
       /\ x.OutputTokens = n.output /\ x.ReasoningTokens = n.reasoning
  BY <1>2, <1>7, <1>9 DEF extractUsageFromRoot
<1>12. x.PromptTokens = n.input + n.read + n.write
  BY <1>2, <1>3, <1>8, <1>10 DEF extractUsageFromRoot, Metrics
<1> QED
  BY <1>10, <1>11, <1>12 DEF Truth, Metrics, e

\* A Responses answer without details.
LEMMA ResponsesPlainTold ==
  ASSUME NEW n \in Tellable("responses_plain")
  PROVE  Truth(extractUsageFromRoot(Event("responses_plain", n), "responses"), n)
<1> DEFINE u == Reported("responses_plain", n)
           e == Event("responses_plain", n)
           x == extractUsageFromRoot(e, "responses")
           totals == <<"input_tokens", "prompt_tokens">>
           hits == <<"cache_read_input_tokens", "cache_read_tokens",
                     "input_tokens_details.cached_tokens", "input_tokens_details.cache_read_tokens">>
           writeKeys == <<"cache_write_input_tokens", "cache_write_tokens",
                          "input_tokens_details.cache_write_tokens">>
<1>1. /\ DOMAIN u = {"input_tokens", "output_tokens"}
      /\ u["input_tokens"] = n.input
      /\ u["output_tokens"] = n.output
  BY DEF Reported
<1>2. e = [usage |-> <<>>, response |-> u] /\ u # <<>>
  <2>1. DOMAIN <<>> = {}
    OBVIOUS
  <2> QED
    BY <1>1, <2>1 DEF Event
<1>3. n.input \in Nat /\ n.read = 0 /\ n.write = 0 /\ n.reasoning = 0
  BY DEF Tellable
<1> HIDE DEF u, e
<1>4. firstNumber(u, totals) = n.input
  BY <1>1, FirstGiven
<1>5. ~ Given(u, hits) /\ firstNumber(u, hits) = 0
  BY <1>1, NoneGiven DEF Given
<1>6. firstNumber(u, writeKeys) = 0
  BY <1>1, NoneGiven
<1>7. firstNumber(u, <<"output_tokens", "completion_tokens">>) = n.output
  BY <1>1, FirstGiven
<1>8. firstNumber(u, <<"prompt_tokens", "input_tokens">>) = n.input
  BY <1>1, FirstGiven
<1>9. reasoningTokens(u) = 0
  BY <1>1, ReasoningTold
<1>10. extractResponsesUsage(u) = Metrics(n.input, 0, 0, FALSE)
  BY <1>4, <1>5, <1>6 DEF extractResponsesUsage
<1>11. x.counts = extractResponsesUsage(u) /\ x.OutputTokens = n.output /\ x.ReasoningTokens = 0
  BY <1>2, <1>7, <1>9 DEF extractUsageFromRoot
<1>12. x.PromptTokens = n.input
  BY <1>2, <1>3, <1>8, <1>10 DEF extractUsageFromRoot, Metrics
<1> QED
  BY <1>3, <1>10, <1>11, <1>12 DEF Truth, Metrics, e

\* Anthropic: the input does not include what was read from the cache or written to it.
LEMMA AnthropicTold ==
  ASSUME NEW n \in Tellable("anthropic")
  PROVE  Truth(extractUsageFromRoot(Event("anthropic", n), "anthropic"), n)
<1> DEFINE u == Reported("anthropic", n)
           e == Event("anthropic", n)
           x == extractUsageFromRoot(e, "anthropic")
           totals == <<"input_tokens", "prompt_tokens">>
           hits == <<"cache_read_input_tokens", "cache_read_tokens", "cached_tokens">>
           writes == <<"cache_creation_input_tokens", "cache_write_tokens">>
<1>1. /\ DOMAIN u = {"input_tokens", "cache_read_input_tokens", "cache_creation_input_tokens",
                     "output_tokens"}
      /\ u["input_tokens"] = n.input
      /\ u["cache_read_input_tokens"] = n.read
      /\ u["cache_creation_input_tokens"] = n.write
      /\ u["output_tokens"] = n.output
  BY DEF Reported
<1>2. e = [usage |-> u, response |-> <<>>]
  BY DEF Event
<1>3. n.input \in Nat /\ n.read \in Nat /\ n.write \in Nat /\ n.reasoning = 0
  BY DEF Tellable
<1> HIDE DEF u, e
<1>4. /\ firstNumber(u, totals) = n.input
      /\ firstNumber(u, hits) = n.read
      /\ firstNumber(u, writes) = n.write
  BY <1>1, FirstGiven
<1>5. firstNumber(u, <<"output_tokens", "completion_tokens">>) = n.output
  BY <1>1, FirstGiven
<1>6. firstNumber(u, <<"prompt_tokens", "input_tokens">>) = n.input
  BY <1>1, FirstGiven
<1>7. reasoningTokens(u) = 0
  BY <1>1, ReasoningTold
<1> DEFINE m == extractAnthropicUsage(u)
<1>8. m.InputTokens = n.input /\ m.CacheReadTokens = n.read /\ m.CacheWriteTokens = n.write
  BY <1>4 DEF extractAnthropicUsage, Metrics
<1>9. x.counts = m /\ x.OutputTokens = n.output /\ x.ReasoningTokens = 0
  BY <1>2, <1>5, <1>7 DEF extractUsageFromRoot
<1>10. x.PromptTokens = n.input + n.read + n.write
  <2> HIDE DEF m
  <2>1. x.PromptTokens = LET prompt == m.InputTokens + m.CacheReadTokens + m.CacheWriteTokens
                         IN IF prompt # 0 THEN prompt
                            ELSE firstNumber(u, <<"prompt_tokens", "input_tokens">>)
    BY <1>2 DEF extractUsageFromRoot, m
  <2> QED
    BY <1>3, <1>6, <1>8, <2>1
<1> QED
  BY <1>3, <1>8, <1>9, <1>10 DEF Truth, e

(***************************************************************************)
(* Whatever an upstream tells in a dialect of its protocol is understood.  *)
(***************************************************************************)
LEMMA EveryDialectIsUnderstood ==
  ASSUME NEW g \in GatewayHeaders, NEW dialect \in DialectsOf(g.protocol),
         NEW n \in Tellable(dialect)
  PROVE  Truth(extractUsageFromRoot(Event(dialect, n), g.protocol), n)
<1>1. CASE g.protocol = "responses"
  BY <1>1, ResponsesDetailsTold, ResponsesPlainTold DEF DialectsOf
<1>2. CASE g.protocol = "anthropic"
  BY <1>2, AnthropicTold DEF DialectsOf
<1>3. CASE g.protocol \in {"chat_completions", "openai_compatible"}
  BY <1>3, HitMissTold, ChatDetailsTold, ChatPlainTold DEF DialectsOf
<1> QED
  BY <1>1, <1>2, <1>3 DEF GatewayHeaders, Protocols

-------------------------------------------------------------------------------
(***************************************************************************)
(* The answer, chunk by chunk.                                             *)
(***************************************************************************)
\* The chunk that arrives as the i-th.
Passed(i) ==
  TransformChunk(exchange.gateway.adapter, exchange.client.stream, exchange.answer[i].call)

AnswerInv ==
  /\ exchange \in Exchanges
  /\ stage \in {"idle", "received", "sent", "done"}
  /\ relayed \in Seq({Passed(i) : i \in DOMAIN exchange.answer})
  /\ Len(relayed) <= Len(exchange.answer)
  /\ \A i \in 1..Len(relayed) : relayed[i] = Passed(i)
  /\ stage = "done" => Len(relayed) = Len(exchange.answer)
  /\ DOMAIN row = {"client", "upstream", "usage"}
  /\ \A i \in 1..Len(relayed) :
       /\ exchange.answer[i].dialect # "none"
       /\ \A j \in i + 1..Len(relayed) : exchange.answer[j].dialect = "none"
       => row.usage = extractUsageFromRoot(
                        Event(exchange.answer[i].dialect, exchange.answer[i].counts),
                        exchange.gateway.headers.protocol)

\* The chunks of an answer, by their number.
LEMMA AnswerIsSequence ==
  ASSUME NEW x \in Exchanges
  PROVE  /\ Len(x.answer) \in Nat /\ DOMAIN x.answer = 1..Len(x.answer)
         /\ \A i \in 1..Len(x.answer) : x.answer[i] \in Range(x.answer)
  BY ExchangesAssumption DEF AnswerAssumption, Range

\* Nothing has arrived yet.
LEMMA InitAnswerInv == Init => AnswerInv
<1> SUFFICES ASSUME Init
             PROVE  AnswerInv
  OBVIOUS
<1>1. exchange \in Exchanges /\ Len(exchange.answer) \in Nat
  BY AnswerIsSequence DEF Init
<1>2. relayed = <<>> /\ Len(relayed) = 0 /\ stage = "idle"
  BY DEF Init
<1> QED
  BY <1>1, <1>2 DEF Init, AnswerInv

\* A chunk is passed on as the next one, and its usage replaces what was told before.
LEMMA NextAnswerInv == AnswerInv /\ [Next]_vars => AnswerInv'
<1> SUFFICES ASSUME AnswerInv, [Next]_vars
             PROVE  AnswerInv'
  OBVIOUS
<1>1. /\ Len(exchange.answer) \in Nat /\ DOMAIN exchange.answer = 1..Len(exchange.answer)
      /\ Len(relayed) \in Nat
  BY AnswerIsSequence DEF AnswerInv
<1>2. CASE Receive
  BY <1>1, <1>2 DEF Receive, AnswerInv, Passed
<1>3. CASE buildUpstreamRequest
  BY <1>1, <1>3 DEF buildUpstreamRequest, AnswerInv, Passed
<1>4. CASE RelayChunk
  <2> DEFINE S == {Passed(i) : i \in DOMAIN exchange.answer}
             n == Len(relayed) + 1
             told(i) == extractUsageFromRoot(
                          Event(exchange.answer[i].dialect, exchange.answer[i].counts),
                          exchange.gateway.headers.protocol)
  <2>1. /\ relayed' = Append(relayed, Passed(n))
        /\ stage = "sent" /\ stage' = stage /\ exchange' = exchange
        /\ n \in 1..Len(exchange.answer)
        /\ DOMAIN row' = DOMAIN row
        /\ row'.usage = IF exchange.answer[n].dialect = "none" THEN row.usage ELSE told(n)
    BY <1>1, <1>4 DEF RelayChunk, AnswerInv, Passed, UsageAfter
  <2>2. Passed(n) \in S
    BY <1>1, <2>1
  <2>3. relayed \in Seq(S)
    BY DEF AnswerInv
  <2> HIDE DEF S
  <2>4. /\ relayed' \in Seq(S)
        /\ Len(relayed') = n
        /\ relayed'[n] = Passed(n)
        /\ \A i \in 1..Len(relayed) : relayed'[i] = relayed[i]
    BY <2>1, <2>2, <2>3
  <2>5. \A i \in 1..Len(relayed)' : relayed'[i] = Passed(i)
    BY <1>1, <2>1, <2>4 DEF AnswerInv
  <2>6. ASSUME NEW i \in 1..n, exchange.answer[i].dialect # "none",
               \A j \in i + 1..n : exchange.answer[j].dialect = "none"
        PROVE  row'.usage = told(i)
    <3>1. CASE i = n
      BY <2>1, <2>6, <3>1
    <3>2. CASE i \in 1..Len(relayed)
      <4>1. n \in i + 1..n /\ \A j \in i + 1..Len(relayed) : j \in i + 1..n
        BY <1>1, <3>2
      <4>2. row'.usage = row.usage
        BY <2>1, <2>6, <4>1
      <4>3. row.usage = told(i)
        BY <2>6, <3>2, <4>1 DEF AnswerInv
      <4> QED
        BY <4>2, <4>3
    <3> QED
      BY <1>1, <3>1, <3>2
  <2>7. S' = S /\ \A i : Passed(i)' = Passed(i)
    BY <2>1 DEF S, Passed
  <2>8. /\ relayed' \in Seq({Passed(i) : i \in DOMAIN exchange.answer})'
        /\ Len(relayed') <= Len(exchange'.answer)
        /\ \A i \in 1..Len(relayed') : relayed'[i] = Passed(i)'
    BY <1>1, <2>1, <2>4, <2>5, <2>7 DEF S
  <2>9. \A i \in 1..Len(relayed') :
          /\ exchange'.answer[i].dialect # "none"
          /\ \A j \in i + 1..Len(relayed') : exchange'.answer[j].dialect = "none"
          => row'.usage = told(i)
    BY <2>1, <2>4, <2>6
  <2> QED
    BY <2>1, <2>8, <2>9 DEF AnswerInv
<1>5. CASE Finish
  BY <1>1, <1>5 DEF Finish, AnswerInv, Passed
<1>6. CASE UNCHANGED vars
  BY <1>1, <1>6 DEF vars, AnswerInv, Passed
<1> QED
  BY <1>2, <1>3, <1>4, <1>5, <1>6 DEF Next

(***************************************************************************)
(* A field of the chunks put together is that of the last that has it.     *)
(***************************************************************************)
LEMMA MergedIsLast ==
  ASSUME NEW chunks, Len(chunks) \in Nat, DOMAIN chunks = 1..Len(chunks),
         NEW field, NEW m \in 1..Len(chunks), field \in DOMAIN chunks[m],
         \A j \in 1..Len(chunks) : field \in DOMAIN chunks[j] => j <= m
  PROVE  field \in DOMAIN Merged(chunks) /\ Merged(chunks)[field] = chunks[m][field]
<1> DEFINE I == {i \in 1..Len(chunks) : field \in DOMAIN chunks[i]}
<1>1. I \in SUBSET Nat /\ m \in I /\ \A i \in I : i <= m
  OBVIOUS
<1>2. Max(I) = m
  <2> HIDE DEF I
  <2> QED
    BY <1>1, GreatestIs
<1>3. SelectLastInSeq(chunks, LAMBDA chunk : field \in DOMAIN chunk) = m
  BY <1>1, <1>2 DEF SelectLastInSeq
<1>4. field \in UNION {DOMAIN chunk : chunk \in Range(chunks)}
  BY DEF Range
<1> QED
  BY <1>3, <1>4 DEF Merged

\* Of a chunk SenseNova sent, the empty identifier and the empty name are dropped.
LEMMA SenseNovaChunk ==
  ASSUME NEW stream, NEW call, ~ stream => \A f \in {"id", "name"} \cap DOMAIN call : Tells(call, f)
  PROVE  LET chunk == TransformChunk("st", stream, call)
         IN /\ \A field \in {"id", "name"} :
                 /\ field \in DOMAIN chunk <=> Tells(call, field)
                 /\ field \in DOMAIN chunk => chunk[field] = call[field]
            /\ "type" \in DOMAIN chunk => chunk["type"] # "function_call"
            /\ "finish_reason" \in DOMAIN chunk => chunk["finish_reason"] # ""
<1> DEFINE body == transformSenseNovaResponseBody(call)
           kept == {field \in DOMAIN body : ~ (field \in {"id", "name"} /\ body[field] = "")}
           chunk == TransformChunk("st", stream, call)
<1>1. /\ DOMAIN body = DOMAIN call
      /\ \A field \in {"id", "name"} \cap DOMAIN call : body[field] = call[field]
      /\ "type" \in DOMAIN body => body["type"] # "function_call"
      /\ "finish_reason" \in DOMAIN body => body["finish_reason"] # ""
  BY DEF transformSenseNovaResponseBody
<1>2. chunk = IF stream THEN [field \in kept |-> body[field]] ELSE body
  BY DEF TransformChunk, transformSenseNovaPayload, stripEmptySenseNovaToolCallDeltaFields, Restrict
<1> HIDE DEF body, chunk
<1>3. \A field \in {"id", "name"} :
        /\ field \in DOMAIN chunk <=> Tells(call, field)
        /\ field \in DOMAIN chunk => chunk[field] = call[field]
  <2>1. CASE stream
    BY <1>1, <1>2, <2>1 DEF Tells
  <2>2. CASE ~ stream
    BY <1>1, <1>2, <2>2 DEF Tells
  <2> QED
    BY <2>1, <2>2
<1>4. \A field \in DOMAIN chunk : field \in DOMAIN body /\ chunk[field] = body[field]
  BY <1>2
<1> QED
  BY <1>1, <1>3, <1>4 DEF chunk

\* The last chunk to tell a field is the last relayed one that has it.
LEMMA AnswerInvKeepsIdentity == AnswerInv => ToolCallKeepsIdentity
<1> SUFFICES ASSUME AnswerInv, stage = "done"
             PROVE  ToolCallKeepsIdentity
  BY DEF ToolCallKeepsIdentity
<1> DEFINE a == exchange.answer
           calls == [i \in DOMAIN a |-> a[i].call]
           read == Merged(relayed)
           stream == exchange.client.stream
<1>1. /\ exchange \in Exchanges /\ Len(a) \in Nat /\ Len(relayed) = Len(a)
      /\ DOMAIN a = 1..Len(a) /\ DOMAIN relayed = 1..Len(a)
      /\ \A i \in 1..Len(a) : a[i] \in Range(a)
      /\ \A i \in 1..Len(a) : relayed[i] = TransformChunk(adapter, stream, calls[i])
  BY AnswerIsSequence DEF AnswerInv, Passed, adapter
<1>2. CASE adapter # "st"
  <2>1. relayed = [i \in 1..Len(a) |-> relayed[i]]
    BY <1>1 DEF AnswerInv
  <2>2. \A i \in 1..Len(a) : relayed[i] = calls[i]
    BY <1>1, <1>2 DEF TransformChunk
  <2>3. relayed = calls
    BY <1>1, <2>1, <2>2
  <2> QED
    BY <1>2, <2>3 DEF ToolCallKeepsIdentity
<1>3. CASE adapter = "st"
  <2>1. \A i \in 1..Len(a) : ~ stream =>
          \A field \in {"id", "name"} \cap DOMAIN calls[i] : Tells(calls[i], field)
    BY <1>1, <1>3, ExchangesAssumption DEF AnswerAssumption, adapter
  <2> DEFINE Faithful(chunk, call) ==
        /\ \A field \in {"id", "name"} :
             /\ field \in DOMAIN chunk <=> Tells(call, field)
             /\ field \in DOMAIN chunk => chunk[field] = call[field]
        /\ "type" \in DOMAIN chunk => chunk["type"] # "function_call"
        /\ "finish_reason" \in DOMAIN chunk => chunk["finish_reason"] # ""
  <2>2. ASSUME NEW i \in 1..Len(a)
        PROVE  Faithful(relayed[i], calls[i])
    <3>1. ~ stream => \A f \in {"id", "name"} \cap DOMAIN calls[i] : Tells(calls[i], f)
      BY <2>1
    <3>2. relayed[i] = TransformChunk("st", stream, calls[i])
      BY <1>1, <1>3
    <3> HIDE DEF calls
    <3>3. Faithful(TransformChunk("st", stream, calls[i]), calls[i])
      BY <3>1, SenseNovaChunk
    <3> QED
      BY <3>2, <3>3
  <2>3. ASSUME NEW field \in {"id", "name"}, NEW i \in DOMAIN calls, Tells(calls[i], field),
               \A j \in DOMAIN calls : Tells(calls[j], field) => j <= i
        PROVE  field \in DOMAIN read /\ read[field] = calls[i][field]
    <3>1. i \in 1..Len(a) /\ field \in DOMAIN relayed[i] /\ relayed[i][field] = calls[i][field]
      BY <1>1, <2>2, <2>3
    <3>2. \A j \in 1..Len(a) : field \in DOMAIN relayed[j] => j <= i
      BY <1>1, <2>2, <2>3
    <3> HIDE DEF calls
    <3> QED
      BY <1>1, <3>1, <3>2, MergedIsLast
  <2>4. \A i \in DOMAIN relayed :
          /\ "type" \in DOMAIN relayed[i] => relayed[i]["type"] # "function_call"
          /\ "finish_reason" \in DOMAIN relayed[i] => relayed[i]["finish_reason"] # ""
    BY <1>1, <2>2
  <2> HIDE DEF Faithful, read
  <2> QED
    BY <1>3, <2>3, <2>4 DEF ToolCallKeepsIdentity, read
<1> QED
  BY <1>2, <1>3

\* When the answer is over, the last usage told is the one of the last chunk that tells any.
LEMMA AnswerInvIsTruth == AnswerInv => UsageIsTruth
<1> DEFINE a == exchange.answer
           I == {i \in 1..Len(a) : a[i].dialect # "none"}
           last == SelectLastInSeq(a, LAMBDA chunk : chunk.dialect # "none")
           n == a[last].counts
<1> SUFFICES ASSUME AnswerInv, stage = "done", last # 0
             PROVE  Truth(row.usage, n)
  BY DEF UsageIsTruth, Truth
<1>1. /\ exchange \in Exchanges /\ Len(a) \in Nat /\ Len(relayed) = Len(a)
      /\ \A i \in 1..Len(a) : a[i] \in Range(a)
  BY AnswerIsSequence DEF AnswerInv
<1>2. last = IF I # {} THEN Max(I) ELSE 0
  BY DEF SelectLastInSeq
<1>3. last \in I /\ \A i \in I : i <= last
  <2> HIDE DEF last
  <2>1. I \in SUBSET (1..Len(a)) /\ I # {}
    BY <1>2
  <2> HIDE DEF I
  <2> QED
    BY <1>1, <1>2, <2>1, HasGreatest
<1> HIDE DEF last
<1>4. /\ last \in 1..Len(relayed) /\ a[last].dialect # "none"
      /\ \A j \in last + 1..Len(relayed) : a[j].dialect = "none"
  BY <1>1, <1>3
<1>5. row.usage = extractUsageFromRoot(Event(a[last].dialect, n), exchange.gateway.headers.protocol)
  BY <1>4 DEF AnswerInv
<1>6. /\ exchange.gateway.headers \in GatewayHeaders
      /\ a[last].dialect \in DialectsOf(exchange.gateway.headers.protocol)
      /\ n \in Tellable(a[last].dialect)
  BY <1>1, <1>4, ExchangesAssumption DEF AnswerAssumption
<1> QED
  BY <1>5, <1>6, EveryDialectIsUnderstood

-------------------------------------------------------------------------------
(***************************************************************************)
(* The entries of a list that are kept.                                    *)
(***************************************************************************)
Rank(P, i) == Cardinality({j \in P : j <= i})

\* Ranks are numbers from 1 to the number of positions, in the order of the positions.
LEMMA RanksAreOrdered ==
  ASSUME NEW k \in Nat, NEW P \in SUBSET (1..k)
  PROVE  /\ IsFiniteSet(P) /\ Cardinality(P) \in Nat
         /\ \A i \in P : Rank(P, i) \in 1..Cardinality(P)
         /\ \A i, j \in P : i < j => Rank(P, i) < Rank(P, j)
<1>1. IsFiniteSet(1..k)
  BY FS_Interval
<1>2. IsFiniteSet(P) /\ Cardinality(P) \in Nat
  BY <1>1, FS_Subset, FS_CardinalityType
<1> DEFINE upTo(i) == {j \in P : j <= i}
<1>3. \A i \in P : /\ IsFiniteSet(upTo(i)) /\ Cardinality(upTo(i)) \in Nat
                   /\ Cardinality(upTo(i)) <= Cardinality(P)
  <2> TAKE i \in P
  <2>1. upTo(i) \in SUBSET P
    OBVIOUS
  <2> HIDE DEF upTo
  <2> QED
    BY <1>2, <2>1, FS_Subset, FS_CardinalityType
<1>4. \A i \in P : Rank(P, i) = Cardinality(upTo(i))
  BY DEF Rank
<1>5. ASSUME NEW i \in P
      PROVE  Rank(P, i) # 0
  <2>1. i \in upTo(i)
    OBVIOUS
  <2>2. upTo(i) # {}
    BY <2>1
  <2> HIDE DEF upTo
  <2> QED
    BY <1>3, <1>4, <2>2, FS_EmptySet
<1>6. ASSUME NEW i \in P, NEW j \in P, i < j
      PROVE  Rank(P, i) < Rank(P, j)
  <2>0. \A x \in P : x \in Nat
    OBVIOUS
  <2>1. upTo(i) \in SUBSET upTo(j) /\ j \in upTo(j) /\ j \notin upTo(i)
    <3>1. \A x \in P : x <= i => x <= j
      BY <1>6, <2>0
    <3>2. j <= j /\ ~ (j <= i)
      BY <1>6, <2>0
    <3> QED
      BY <3>1, <3>2
  <2>2. upTo(i) # upTo(j)
    BY <2>1
  <2> HIDE DEF upTo
  <2>3. Cardinality(upTo(i)) <= Cardinality(upTo(j)) /\ Cardinality(upTo(i)) # Cardinality(upTo(j))
    BY <1>3, <2>1, <2>2, FS_Subset
  <2> QED
    BY <1>3, <1>4, <2>3
<1> HIDE DEF upTo
<1>7. \A i \in P : Rank(P, i) \in 1..Cardinality(P)
  BY <1>2, <1>3, <1>4, <1>5
<1> QED
  BY <1>2, <1>6, <1>7

\* The n-th position has rank n: Rank is a bijection, of which Nth is the inverse.
LEMMA NthIsThere ==
  ASSUME NEW k \in Nat, NEW P \in SUBSET (1..k)
  PROVE  /\ Cardinality(P) \in Nat
         /\ \A n \in 1..Cardinality(P) : Nth(P, n) \in P
         /\ \A i \in P : Rank(P, i) \in 1..Cardinality(P) /\ Nth(P, Rank(P, i)) = i
         /\ \A m, n \in 1..Cardinality(P) : m < n => Nth(P, m) < Nth(P, n)
<1> DEFINE N == Cardinality(P)
           f == [i \in P |-> Rank(P, i)]
<1>1. /\ IsFiniteSet(P) /\ N \in Nat
      /\ \A i \in P : Rank(P, i) \in 1..N
      /\ \A i, j \in P : i < j => Rank(P, i) < Rank(P, j)
  BY RanksAreOrdered
<1>2. \A i, j \in P : Rank(P, i) = Rank(P, j) => i = j
  <2>1. \A i, j \in P : i < j \/ j < i \/ i = j
    OBVIOUS
  <2> QED
    BY <1>1, <2>1
<1>3. f \in Injection(P, 1..N)
  BY <1>1, <1>2 DEF Injection, IsInjective
<1>4. IsFiniteSet(1..N) /\ Cardinality(1..N) = N
  BY <1>1, FS_Interval
<1>5. f \in Surjection(P, 1..N)
  <2> HIDE DEF f
  <2> QED
    BY <1>1, <1>3, <1>4, FS_Injection
<1>6. \A n \in 1..N : \E i \in P : Rank(P, i) = n
  BY <1>5 DEF Surjection
<1>7. \A n : Nth(P, n) = CHOOSE i \in P : Rank(P, i) = n
  BY DEF Nth, Rank
<1>8. \A n \in 1..N : Nth(P, n) \in P /\ Rank(P, Nth(P, n)) = n
  BY <1>6, <1>7
<1>9. \A i \in P : Nth(P, Rank(P, i)) = i
  BY <1>1, <1>2, <1>8
<1>10. \A m, n \in 1..N : m < n => Nth(P, m) < Nth(P, n)
  <2> SUFFICES ASSUME NEW m \in 1..N, NEW n \in 1..N, m < n, ~ (Nth(P, m) < Nth(P, n))
               PROVE  FALSE
    OBVIOUS
  <2>1. Nth(P, m) \in Nat /\ Nth(P, n) \in Nat
    <3> HIDE DEF N
    <3>1. Nth(P, m) \in P /\ Nth(P, n) \in P
      BY <1>8
    <3>2. \A x \in P : x \in Nat
      OBVIOUS
    <3> QED
      BY <3>1, <3>2
  <2>2. Nth(P, n) < Nth(P, m) \/ Nth(P, n) = Nth(P, m)
    BY <2>1
  <2>3. /\ Nth(P, m) \in P /\ Rank(P, Nth(P, m)) = m
        /\ Nth(P, n) \in P /\ Rank(P, Nth(P, n)) = n
    BY <1>8
  <2>4. Rank(P, Nth(P, n)) < Rank(P, Nth(P, m)) \/ Rank(P, Nth(P, n)) = Rank(P, Nth(P, m))
    BY <1>1, <2>2, <2>3
  <2>5. n < m \/ n = m
    BY <2>3, <2>4
  <2> QED
    BY <1>1, <2>5
<1> QED
  BY <1>1, <1>8, <1>9, <1>10

\* A list, as the sequences of a document are.
IsList(s) == Len(s) \in Nat /\ DOMAIN s = 1..Len(s)

\* Of a list, the entries at the positions are kept, all of them, in order.
LEMMA KeptInOrder ==
  ASSUME NEW s, IsList(s), NEW P \in SUBSET DOMAIN s
  PROVE  LET kept == Kept(s, P)
         IN /\ IsList(kept) /\ Len(kept) = Cardinality(P)
            /\ \A n \in DOMAIN kept : Nth(P, n) \in P /\ kept[n] = s[Nth(P, n)]
            /\ \A i \in P : \E n \in DOMAIN kept : Nth(P, n) = i /\ kept[n] = s[i]
            /\ \A m, n \in DOMAIN kept : m < n => Nth(P, m) < Nth(P, n)
<1>1. Len(s) \in Nat /\ P \in SUBSET (1..Len(s))
  BY DEF IsList
<1> DEFINE N == Cardinality(P)
           kept == Kept(s, P)
<1>2. /\ N \in Nat
      /\ \A n \in 1..N : Nth(P, n) \in P
      /\ \A i \in P : Rank(P, i) \in 1..N /\ Nth(P, Rank(P, i)) = i
      /\ \A m, n \in 1..N : m < n => Nth(P, m) < Nth(P, n)
  BY <1>1, NthIsThere
<1>3. Len(kept) = N /\ DOMAIN kept = 1..N /\ \A n \in 1..N : kept[n] = s[Nth(P, n)]
  BY <1>2 DEF Kept
<1> HIDE DEF kept
<1> QED
  BY <1>2, <1>3 DEF kept, IsList

-------------------------------------------------------------------------------
(***************************************************************************)
(* Documents: what a parser sees of the members.                           *)
(***************************************************************************)
\* The last occurrence of a key, which is the one a parser sees.
LastAt(members, key, m) ==
  /\ m \in DOMAIN members /\ members[m].key = key
  /\ \A j \in DOMAIN members : members[j].key = key => j <= m

\* The value of a key is that of its last occurrence...
LEMMA ItemsOfLast ==
  ASSUME NEW members, IsList(members), NEW key, NEW m, LastAt(members, key, m)
  PROVE  HasKey(members, key) /\ ItemsOf(members, key) = members[m].items
<1> DEFINE I == {i \in 1..Len(members) : members[i].key = key}
<1>1. I \in SUBSET Nat /\ m \in I /\ \A i \in I : i <= m
  BY DEF IsList, LastAt
<1>2. I # {} /\ Max(I) = m
  <2> HIDE DEF I
  <2> QED
    BY <1>1, GreatestIs
<1>3. SelectLastInSeq(members, LAMBDA member : member.key = key) = m
  BY <1>2 DEF SelectLastInSeq
<1>4. HasKey(members, key)
  BY DEF HasKey, Range, LastAt
<1> QED
  BY <1>3, <1>4 DEF ItemsOf, LastValue

\* ...which exists.
LEMMA HasLast ==
  ASSUME NEW members, IsList(members), NEW key, HasKey(members, key)
  PROVE  \E m \in DOMAIN members : LastAt(members, key, m)
<1> DEFINE I == {i \in 1..Len(members) : members[i].key = key}
<1>1. Len(members) \in Nat /\ I \in SUBSET (1..Len(members)) /\ I # {}
  BY DEF IsList, HasKey, Range
<1>2. Max(I) \in I /\ \A i \in I : i <= Max(I)
  <2> HIDE DEF I
  <2> QED
    BY <1>1, HasGreatest
<1>3. LastAt(members, key, Max(I))
  BY <1>2 DEF LastAt, IsList
<1> QED
  BY <1>3 DEF LastAt

\* A key occurs at some position.
LEMMA KeyOccurs ==
  ASSUME NEW members, NEW key
  PROVE  HasKey(members, key) <=> \E i \in DOMAIN members : members[i].key = key
  BY DEF HasKey, Range

(***************************************************************************)
(* What a parser sees of an edited document.                               *)
(***************************************************************************)
LEMMA EditsApplied ==
  ASSUME NEW members, IsList(members), NEW edits
  PROVE  LET edited == applyTopLevelMemberEdits(members, edits)
             deleted(key) == key \in DOMAIN edits /\ edits[key] = <<>>
         IN /\ IsList(edited)
            /\ \A key : HasKey(edited, key) <=> HasKey(members, key) /\ ~ deleted(key)
            /\ \A key : HasKey(edited, key) =>
                 ItemsOf(edited, key) = IF key \in DOMAIN edits THEN edits[key]
                                        ELSE ItemsOf(members, key)
<1> DEFINE edited == applyTopLevelMemberEdits(members, edits)
           deleted(key) == key \in DOMAIN edits /\ edits[key] = <<>>
           P == {i \in DOMAIN members : ~ deleted(members[i].key)}
           kept == Kept(members, P)
<1>1. P \in SUBSET DOMAIN members /\ \A i \in DOMAIN members : i \in P <=> ~ deleted(members[i].key)
  OBVIOUS
<1>2. edited = [i \in DOMAIN kept |-> IF kept[i].key \in DOMAIN edits
                                        THEN Member(kept[i].key, edits[kept[i].key]) ELSE kept[i]]
  BY DEF applyTopLevelMemberEdits
<1> HIDE DEF P
<1>3. /\ IsList(kept)
      /\ \A n \in DOMAIN kept : Nth(P, n) \in P /\ kept[n] = members[Nth(P, n)]
      /\ \A i \in P : \E n \in DOMAIN kept : Nth(P, n) = i /\ kept[n] = members[i]
      /\ \A m, n \in DOMAIN kept : m < n => Nth(P, m) < Nth(P, n)
  BY <1>1, KeptInOrder
<1> HIDE DEF kept, edited
<1>4. IsList(edited) /\ DOMAIN edited = DOMAIN kept
  BY <1>2, <1>3 DEF IsList
<1>5. \A n \in DOMAIN kept :
        /\ edited[n].key = members[Nth(P, n)].key
        /\ edited[n].items = LET key == members[Nth(P, n)].key
                             IN IF key \in DOMAIN edits THEN edits[key] ELSE members[Nth(P, n)].items
  BY <1>2, <1>3 DEF Member
<1>6. ASSUME NEW key, HasKey(edited, key)
      PROVE  HasKey(members, key) /\ ~ deleted(key)
  <2>1. PICK n \in DOMAIN kept : edited[n].key = key
    BY <1>4, <1>6, KeyOccurs
  <2>2. Nth(P, n) \in P /\ members[Nth(P, n)].key = key
    BY <1>3, <1>5, <2>1
  <2> HIDE DEF deleted
  <2> QED
    BY <1>1, <2>2, KeyOccurs
<1>7. ASSUME NEW key, HasKey(members, key), ~ deleted(key)
      PROVE  /\ HasKey(edited, key)
             /\ ItemsOf(edited, key) = IF key \in DOMAIN edits THEN edits[key]
                                       ELSE ItemsOf(members, key)
  <2>1. PICK m \in DOMAIN members : LastAt(members, key, m)
    BY <1>7, HasLast
  <2>2. ItemsOf(members, key) = members[m].items /\ members[m].key = key
    BY <2>1, ItemsOfLast DEF LastAt
  <2>3. m \in P
    <3> HIDE DEF deleted
    <3> QED
      BY <1>1, <1>7, <2>2
  <2>4. PICK n \in DOMAIN kept : Nth(P, n) = m
    BY <1>3, <2>3
  <2>5. edited[n].key = key
    BY <1>5, <2>2, <2>4
  <2>6. edited[n].items = IF key \in DOMAIN edits THEN edits[key] ELSE ItemsOf(members, key)
    BY <1>5, <2>2, <2>4
  <2>7. ASSUME NEW j \in DOMAIN kept, edited[j].key = key
        PROVE  j <= n
    <3>1. Nth(P, j) \in DOMAIN members /\ members[Nth(P, j)].key = key
      BY <1>1, <1>3, <1>5, <2>7
    <3>2. Nth(P, j) <= m
      BY <2>1, <3>1 DEF LastAt
    <3>3. m \in Nat /\ Nth(P, j) \in Nat /\ j \in Nat /\ n \in Nat
      BY <1>3, <2>4, <3>1 DEF IsList
    <3>4. ~ (n < j)
      BY <1>3, <2>4, <3>2, <3>3
    <3> QED
      BY <3>3, <3>4
  <2>8. LastAt(edited, key, n)
    BY <1>4, <2>5, <2>7 DEF LastAt
  <2> QED
    BY <1>4, <2>6, <2>8, ItemsOfLast
<1>8. \A key : HasKey(edited, key) <=> HasKey(members, key) /\ ~ deleted(key)
  <2> HIDE DEF deleted
  <2> QED
    BY <1>6, <1>7
<1>9. \A key : HasKey(edited, key) =>
        ItemsOf(edited, key) = IF key \in DOMAIN edits THEN edits[key] ELSE ItemsOf(members, key)
  <2> HIDE DEF deleted
  <2> QED
    BY <1>6, <1>7
<1> QED
  BY <1>4, <1>8, <1>9 DEF edited

(***************************************************************************)
(* What an adapter's edits come to.                                        *)
(***************************************************************************)
LEMMA EditsAsAsked ==
  ASSUME NEW members, IsList(members), NEW gone, NEW cleaned, gone \cap DOMAIN cleaned = {}
  PROVE  LET edited == applyTopLevelMemberEdits(members, EditsOf(members, gone, cleaned))
         IN /\ IsList(edited)
            /\ \A key \in gone : ~ HasKey(edited, key)
            /\ \A key \in DOMAIN cleaned :
                 /\ HasKey(edited, key) <=> /\ HasKey(members, key)
                                            /\ cleaned[key] = <<>> => ItemsOf(members, key) = <<>>
                 /\ HasKey(members, key) => ItemsOf(edited, key) = cleaned[key]
            /\ \A key : key \notin gone \cup DOMAIN cleaned =>
                 /\ HasKey(edited, key) <=> HasKey(members, key)
                 /\ ItemsOf(edited, key) = ItemsOf(members, key)
<1> DEFINE edits == EditsOf(members, gone, cleaned)
           edited == applyTopLevelMemberEdits(members, edits)
<1>1. /\ DOMAIN edits = {k \in gone \cup DOMAIN cleaned :
                           HasKey(members, k) /\ (k \in gone \/ cleaned[k] # ItemsOf(members, k))}
      /\ \A key \in DOMAIN edits : edits[key] = IF key \in gone THEN <<>> ELSE cleaned[key]
  BY DEF EditsOf
<1> HIDE DEF edits
<1>2. /\ IsList(edited)
      /\ \A key : HasKey(edited, key) <=>
           HasKey(members, key) /\ ~ (key \in DOMAIN edits /\ edits[key] = <<>>)
      /\ \A key : HasKey(edited, key) =>
           ItemsOf(edited, key) = IF key \in DOMAIN edits THEN edits[key]
                                  ELSE ItemsOf(members, key)
  BY EditsApplied
<1> HIDE DEF edited
<1>3. \A key : ~ HasKey(edited, key) => ItemsOf(edited, key) = <<>>
  BY DEF ItemsOf
<1>4. \A key : ~ HasKey(members, key) => ItemsOf(members, key) = <<>>
  BY DEF ItemsOf
<1>5. ASSUME NEW key \in gone
      PROVE  ~ HasKey(edited, key)
  BY <1>1, <1>2
<1>6. ASSUME NEW key \in DOMAIN cleaned
      PROVE  /\ HasKey(edited, key) <=> /\ HasKey(members, key)
                                        /\ cleaned[key] = <<>> => ItemsOf(members, key) = <<>>
             /\ HasKey(members, key) => ItemsOf(edited, key) = cleaned[key]
  <2>1. key \notin gone
    OBVIOUS
  <2> QED
    BY <1>1, <1>2, <1>3, <2>1
<1>7. ASSUME NEW key, key \notin gone \cup DOMAIN cleaned
      PROVE  /\ HasKey(edited, key) <=> HasKey(members, key)
             /\ ItemsOf(edited, key) = ItemsOf(members, key)
  <2>1. key \notin DOMAIN edits
    BY <1>1, <1>7
  <2> QED
    BY <1>2, <1>3, <1>4, <2>1
<1> QED
  BY <1>2, <1>5, <1>6, <1>7 DEF edited, edits

\* A member that was not there is added at the end.
LEMMA MemberInserted ==
  ASSUME NEW members, IsList(members), NEW S, members \in Seq(S), NEW key, NEW items
  PROVE  LET more == insertTopLevelJSONMember(members, key, items)
         IN /\ HasKey(more, key)
            /\ ItemsOf(more, key) = IF HasKey(members, key) THEN ItemsOf(members, key) ELSE items
            /\ \A k : k # key => /\ HasKey(more, k) <=> HasKey(members, k)
                                 /\ ItemsOf(more, k) = ItemsOf(members, k)
<1> DEFINE more == insertTopLevelJSONMember(members, key, items)
           n == Len(members) + 1
<1>1. CASE HasKey(members, key)
  BY <1>1 DEF insertTopLevelJSONMember
<1>2. CASE ~ HasKey(members, key)
  <2>1. more = Append(members, Member(key, items))
    BY <1>2 DEF insertTopLevelJSONMember
  <2>2. /\ DOMAIN more = 1..n /\ Len(more) = n /\ n \in Nat
        /\ more[n].key = key /\ more[n].items = items
        /\ \A i \in 1..Len(members) : more[i] = members[i]
    BY <2>1 DEF IsList, Member
  <2> HIDE DEF more
  <2>3. IsList(more) /\ DOMAIN members = 1..Len(members) /\ n \in DOMAIN more
    BY <2>2 DEF IsList
  <2>4. LastAt(more, key, n)
    BY <2>2, <2>3 DEF LastAt
  <2>5. HasKey(more, key) /\ ItemsOf(more, key) = items
    BY <2>2, <2>3, <2>4, ItemsOfLast
  <2>6. ASSUME NEW k, k # key
        PROVE  /\ HasKey(more, k) <=> HasKey(members, k)
               /\ ItemsOf(more, k) = ItemsOf(members, k)
    <3>1. CASE HasKey(members, k)
      <4>1. PICK m \in DOMAIN members : LastAt(members, k, m)
        BY <3>1, HasLast
      <4>2. LastAt(more, k, m)
        BY <2>2, <2>3, <2>6, <4>1 DEF LastAt
      <4> QED
        BY <2>2, <2>3, <3>1, <4>1, <4>2, ItemsOfLast
    <3>2. CASE ~ HasKey(members, k)
      <4>1. ~ HasKey(more, k)
        BY <2>2, <2>3, <2>6, <3>2, KeyOccurs
      <4> QED
        BY <3>2, <4>1 DEF ItemsOf
    <3> QED
      BY <3>1, <3>2
  <2> QED
    BY <1>2, <2>5, <2>6 DEF more
<1> QED
  BY <1>1, <1>2

\* Functions on 1 .. n are sequences.
LEMMA FunctionIsSequence ==
  ASSUME NEW n \in Nat, NEW T, NEW f \in [1..n -> T]
  PROVE  f \in Seq(T) /\ Len(f) = n
  OBVIOUS

\* The only sequence without elements.
LEMMA EmptyIsEmpty ==
  ASSUME NEW s, NEW T, s \in Seq(T), Len(s) = 0
  PROVE  s = <<>>
  OBVIOUS

IsSequence(s) == \E T : s \in Seq(T)

\* What is kept of a list is a sequence, whatever its entries are.
LEMMA KeptIsSequence ==
  ASSUME NEW s, IsList(s), NEW P \in SUBSET DOMAIN s
  PROVE  IsSequence(Kept(s, P))
<1> DEFINE N == Cardinality(P)
           T == {s[Nth(P, n)] : n \in 1..N}
<1>1. N \in Nat
  BY KeptInOrder DEF IsList
<1>2. Kept(s, P) \in [1..N -> T]
  BY DEF Kept
<1> HIDE DEF T, N
<1>3. Kept(s, P) \in Seq(T)
  BY <1>1, <1>2, FunctionIsSequence
<1> QED
  BY <1>3 DEF IsSequence

\* Sequences are lists.
LEMMA SequenceIsList ==
  ASSUME NEW s, IsSequence(s)
  PROVE  IsList(s)
  BY DEF IsSequence, IsList

\* An edited document is a sequence of members.
LEMMA EditedIsSequence ==
  ASSUME NEW members, IsList(members), NEW edits
  PROVE  IsSequence(applyTopLevelMemberEdits(members, edits))
<1> DEFINE deleted(key) == key \in DOMAIN edits /\ edits[key] = <<>>
           P == {i \in DOMAIN members : ~ deleted(members[i].key)}
           kept == Kept(members, P)
           at(i) == IF kept[i].key \in DOMAIN edits
                      THEN Member(kept[i].key, edits[kept[i].key]) ELSE kept[i]
           edited == applyTopLevelMemberEdits(members, edits)
           T == {at(i) : i \in 1..Len(kept)}
<1>1. edited = [i \in DOMAIN kept |-> at(i)]
  BY DEF applyTopLevelMemberEdits
<1>2. IsList(kept)
  <2>1. P \in SUBSET DOMAIN members
    OBVIOUS
  <2> HIDE DEF P
  <2> QED
    BY <2>1, KeptInOrder
<1> HIDE DEF kept
<1>3. Len(kept) \in Nat /\ edited \in [1..Len(kept) -> T]
  BY <1>1, <1>2 DEF IsList
<1> HIDE DEF T, edited
<1>4. edited \in Seq(T)
  BY <1>3, FunctionIsSequence
<1> QED
  BY <1>4 DEF IsSequence, edited

(***************************************************************************)
(* What a parser sees of a standard request: SameBut the keys K.           *)
(***************************************************************************)
SameBut(K, old, new) ==
  \A key : key \notin K => /\ HasKey(new, key) <=> HasKey(old, key)
                           /\ ItemsOf(new, key) = ItemsOf(old, key)

ToolsSeen(old, new) ==
  LET items == ItemsOf(old, "tools")
  IN /\ HasKey(old, "tools") => ItemsOf(new, "tools") = IF items = Scalar THEN items
                                                        ELSE sanitizeResponsesTools(items)
     /\ HasKey(new, "tools") <=> /\ HasKey(old, "tools")
                                 /\ ItemsOf(new, "tools") = <<>> => items = <<>>

LEMMA StandardMembers ==
  ASSUME NEW members, IsList(members)
  PROVE  LET new == sanitizeResponsesRequest(members)
             includes == ItemsOf(members, "include")
         IN /\ IsList(new) /\ IsSequence(new)
            /\ SameBut({"stream_tool_calls", "tools", "include"}, members, new)
            /\ ~ HasKey(new, "stream_tool_calls")
            /\ ToolsSeen(members, new)
            /\ HasKey(members, "include") =>
                 ItemsOf(new, "include") = IF includes = Scalar THEN includes
                                           ELSE sanitizeResponsesInclude(includes)
            /\ HasKey(new, "include") <=> /\ HasKey(members, "include")
                                          /\ ItemsOf(new, "include") = <<>> => includes = <<>>
<1> DEFINE new == sanitizeResponsesRequest(members)
           cleaned == [tools |-> CleanedOf(members, "tools", sanitizeResponsesTools),
                       include |-> CleanedOf(members, "include", sanitizeResponsesInclude)]
           edits == EditsOf(members, {"stream_tool_calls"}, cleaned)
<1>1. new = applyTopLevelMemberEdits(members, edits)
  BY DEF sanitizeResponsesRequest
<1>2. DOMAIN cleaned = {"tools", "include"}
  OBVIOUS
<1>3. /\ cleaned["tools"] = LET items == ItemsOf(members, "tools")
                            IN IF items = Scalar THEN items ELSE sanitizeResponsesTools(items)
      /\ cleaned["include"] = LET items == ItemsOf(members, "include")
                              IN IF items = Scalar THEN items ELSE sanitizeResponsesInclude(items)
  BY DEF CleanedOf
<1> HIDE DEF cleaned
<1>4. IsSequence(new)
  BY <1>1, EditedIsSequence
<1>5. /\ IsList(new)
      /\ \A key \in {"stream_tool_calls"} : ~ HasKey(new, key)
      /\ \A key \in DOMAIN cleaned :
           /\ HasKey(new, key) <=> /\ HasKey(members, key)
                                   /\ cleaned[key] = <<>> => ItemsOf(members, key) = <<>>
           /\ HasKey(members, key) => ItemsOf(new, key) = cleaned[key]
      /\ \A key : key \notin {"stream_tool_calls"} \cup DOMAIN cleaned =>
           /\ HasKey(new, key) <=> HasKey(members, key)
           /\ ItemsOf(new, key) = ItemsOf(members, key)
  BY <1>1, <1>2, EditsAsAsked
<1> HIDE DEF new, edits
<1>6. ~ HasKey(new, "stream_tool_calls")
  BY <1>5
<1>7. SameBut({"stream_tool_calls", "tools", "include"}, members, new)
  BY <1>2, <1>5 DEF SameBut
<1>8. ToolsSeen(members, new)
  BY <1>2, <1>3, <1>5 DEF ToolsSeen
<1>9. /\ HasKey(members, "include") => ItemsOf(new, "include") = cleaned["include"]
      /\ HasKey(new, "include") <=> /\ HasKey(members, "include")
                                    /\ ItemsOf(new, "include") = <<>> =>
                                         ItemsOf(members, "include") = <<>>
  BY <1>2, <1>5
<1> QED
  BY <1>3, <1>4, <1>5, <1>6, <1>7, <1>8, <1>9 DEF new

\* What a parser sees of a request to DeepSeek.
LEMMA DeepSeekMembers ==
  ASSUME NEW members, IsList(members)
  PROVE  LET new == adaptResponsesRequestForDeepSeek(members)
             reasoning == ItemsOf(members, "reasoning")
             input == ItemsOf(members, "input")
         IN /\ IsList(new) /\ IsSequence(new)
            /\ SameBut({"include", "reasoning", "input"}, members, new)
            /\ ~ HasKey(new, "include")
            /\ HasKey(members, "reasoning") =>
                 ItemsOf(new, "reasoning") = IF reasoning = Scalar THEN reasoning
                                             ELSE mapDeepSeekReasoningEffort(reasoning)
            /\ HasKey(members, "input") =>
                 ItemsOf(new, "input") = IF input = Scalar THEN input
                                         ELSE stripUnsupportedReasoningFields(input)
            /\ HasKey(new, "reasoning") => HasKey(members, "reasoning")
            /\ HasKey(new, "input") => HasKey(members, "input")
<1> DEFINE new == adaptResponsesRequestForDeepSeek(members)
           cleaned == [reasoning |-> CleanedOf(members, "reasoning", mapDeepSeekReasoningEffort),
                       input |-> CleanedOf(members, "input", stripUnsupportedReasoningFields)]
           edits == EditsOf(members, {"include"}, cleaned)
<1>1. new = applyTopLevelMemberEdits(members, edits)
  BY DEF adaptResponsesRequestForDeepSeek
<1>2. DOMAIN cleaned = {"reasoning", "input"}
  OBVIOUS
<1>3. /\ cleaned["reasoning"] = LET items == ItemsOf(members, "reasoning")
                                IN IF items = Scalar THEN items
                                   ELSE mapDeepSeekReasoningEffort(items)
      /\ cleaned["input"] = LET items == ItemsOf(members, "input")
                            IN IF items = Scalar THEN items
                               ELSE stripUnsupportedReasoningFields(items)
  BY DEF CleanedOf
<1> HIDE DEF cleaned
<1>4. IsSequence(new)
  BY <1>1, EditedIsSequence
<1>5. /\ IsList(new)
      /\ \A key \in {"include"} : ~ HasKey(new, key)
      /\ \A key \in DOMAIN cleaned :
           /\ HasKey(new, key) <=> /\ HasKey(members, key)
                                   /\ cleaned[key] = <<>> => ItemsOf(members, key) = <<>>
           /\ HasKey(members, key) => ItemsOf(new, key) = cleaned[key]
      /\ \A key : key \notin {"include"} \cup DOMAIN cleaned =>
           /\ HasKey(new, key) <=> HasKey(members, key)
           /\ ItemsOf(new, key) = ItemsOf(members, key)
  BY <1>1, <1>2, EditsAsAsked
<1> HIDE DEF new, edits
<1>6. ~ HasKey(new, "include")
  BY <1>5
<1>7. SameBut({"include", "reasoning", "input"}, members, new)
  BY <1>2, <1>5 DEF SameBut
<1>8. /\ HasKey(members, "reasoning") => ItemsOf(new, "reasoning") = cleaned["reasoning"]
      /\ HasKey(members, "input") => ItemsOf(new, "input") = cleaned["input"]
      /\ HasKey(new, "reasoning") => HasKey(members, "reasoning")
      /\ HasKey(new, "input") => HasKey(members, "input")
  BY <1>2, <1>5
<1> QED
  BY <1>3, <1>4, <1>5, <1>6, <1>7, <1>8 DEF new

(***************************************************************************)
(* Reading numbers as float64 changes neither how many entries a list has  *)
(* nor their types, and of a list without entries nothing.                 *)
(***************************************************************************)
LEMMA RoundedIsList ==
  ASSUME NEW items, IsList(items)
  PROVE  IsList(rounded(items)) /\ DOMAIN rounded(items) = DOMAIN items
  BY DEF rounded, IsList

LEMMA RoundedNothing == rounded(<<>>) = <<>>
<1> DEFINE f == rounded(<<>>)
           at(i) == IF Precise \in <<>>[i].fields
                      THEN [<<>>[i] EXCEPT !.fields = (@ \ {Precise}) \cup {Rounded}] ELSE <<>>[i]
<1>1. f = [i \in 1..0 |-> at(i)]
  BY DEF rounded
<1> HIDE DEF f, at
<1>2. f \in [1..0 -> {}]
  BY <1>1
<1>3. f \in Seq({}) /\ Len(f) = 0
  BY <1>2, FunctionIsSequence
<1> QED
  BY <1>3, EmptyIsEmpty DEF f

(***************************************************************************)
(* A document written anew has of every key the last value, once, with its *)
(* numbers read as float64.                                                *)
(***************************************************************************)
RoundedAs(old, new) ==
  \A key : /\ HasKey(new, key) <=> HasKey(old, key)
           /\ ItemsOf(new, key) = rounded(ItemsOf(old, key))

LEMMA RemarshalKeepsValues ==
  ASSUME NEW members, IsList(members)
  PROVE  LET again == remarshal(members)
         IN IsList(again) /\ RoundedAs(members, again)
<1> DEFINE P == {i \in DOMAIN members :
                   \A j \in DOMAIN members : members[j].key = members[i].key => j <= i}
           kept == Kept(members, P)
           again == remarshal(members)
<1>1. P \in SUBSET DOMAIN members /\ \A key, m : LastAt(members, key, m) => m \in P
  BY DEF LastAt
<1>2. again = [i \in DOMAIN kept |-> Member(kept[i].key, rounded(kept[i].items))]
  BY DEF remarshal
<1> HIDE DEF P, again
<1>3. /\ IsList(kept)
      /\ \A n \in DOMAIN kept : Nth(P, n) \in P /\ kept[n] = members[Nth(P, n)]
      /\ \A i \in P : \E n \in DOMAIN kept : Nth(P, n) = i /\ kept[n] = members[i]
      /\ \A m, n \in DOMAIN kept : m < n => Nth(P, m) < Nth(P, n)
  BY <1>1, KeptInOrder
<1> HIDE DEF kept
<1>4. /\ IsList(again) /\ DOMAIN again = DOMAIN kept
      /\ \A n \in DOMAIN again : /\ again[n].key = members[Nth(P, n)].key
                                 /\ again[n].items = rounded(members[Nth(P, n)].items)
  BY <1>2, <1>3 DEF IsList, Member
<1>5. ASSUME NEW key, HasKey(members, key)
      PROVE  HasKey(again, key) /\ ItemsOf(again, key) = rounded(ItemsOf(members, key))
  <2>1. PICK m \in DOMAIN members : LastAt(members, key, m)
    BY <1>5, HasLast
  <2>2. PICK n \in DOMAIN again : Nth(P, n) = m
    BY <1>1, <1>3, <1>4, <2>1
  <2>3. ASSUME NEW j \in DOMAIN again, again[j].key = key
        PROVE  j <= n
    <3>1. Nth(P, j) \in DOMAIN members /\ members[Nth(P, j)].key = key
      BY <1>1, <1>3, <1>4, <2>3
    <3>2. Nth(P, j) <= m
      BY <2>1, <3>1 DEF LastAt
    <3>3. m \in Nat /\ Nth(P, j) \in Nat /\ j \in Nat /\ n \in Nat
      BY <1>3, <1>4, <2>2, <3>1 DEF IsList
    <3>4. ~ (n < j)
      BY <1>3, <1>4, <2>2, <3>2, <3>3
    <3> QED
      BY <3>3, <3>4
  <2>4. again[n].key = key /\ again[n].items = rounded(members[m].items)
    BY <1>4, <2>1, <2>2 DEF LastAt
  <2>5. LastAt(again, key, n)
    BY <2>3, <2>4 DEF LastAt
  <2> QED
    BY <1>4, <2>1, <2>4, <2>5, ItemsOfLast
<1>6. ASSUME NEW key, HasKey(again, key)
      PROVE  HasKey(members, key)
  BY <1>1, <1>3, <1>4, <1>6, KeyOccurs
<1>7. ASSUME NEW key
      PROVE  /\ HasKey(again, key) <=> HasKey(members, key)
             /\ ItemsOf(again, key) = rounded(ItemsOf(members, key))
  <2>1. CASE HasKey(members, key)
    BY <1>5, <2>1
  <2>2. CASE ~ HasKey(members, key)
    <3>1. ~ HasKey(again, key)
      BY <1>6, <2>2
    <3>2. ItemsOf(again, key) = <<>> /\ ItemsOf(members, key) = <<>>
      BY <2>2, <3>1 DEF ItemsOf
    <3> QED
      BY <2>2, <3>1, <3>2, RoundedNothing
  <2> QED
    BY <2>1, <2>2
<1> QED
  BY <1>4, <1>7 DEF RoundedAs, again

(***************************************************************************)
(* What a parser sees of a request to Anthropic: as it was if every tool   *)
(* has a name, and otherwise written anew.                                 *)
(***************************************************************************)
AnthropicTools(old) ==
  LET tools == ItemsOf(old, "tools")
  IN IF tools = Scalar THEN tools ELSE dropUnnamedTools(tools)

AnthropicReads(old, new) ==
  LET dropped == AnthropicTools(old) # ItemsOf(old, "tools")
  IN /\ \A key : /\ HasKey(new, key) <=> HasKey(old, key)
                 /\ HasKey(old, key) /\ key # "tools" =>
                      ItemsOf(new, key) = IF dropped THEN rounded(ItemsOf(old, key))
                                          ELSE ItemsOf(old, key)
     /\ HasKey(old, "tools") =>
          ItemsOf(new, "tools") = IF dropped THEN rounded(AnthropicTools(old))
                                  ELSE AnthropicTools(old)

LEMMA AnthropicMembers ==
  ASSUME NEW members, IsList(members), IsSequence(members), HasKey(members, "messages")
  PROVE  LET new == sanitizeAnthropicRequest(members)
         IN IsList(new) /\ IsSequence(new) /\ AnthropicReads(members, new)
<1> DEFINE new == sanitizeAnthropicRequest(members)
           tools == ItemsOf(members, "tools")
           named == AnthropicTools(members)
           written == rounded(named)
           again == remarshal(members)
           at(i) == IF again[i].key = "tools" THEN Member("tools", written) ELSE again[i]
           T == {at(i) : i \in 1..Len(again)}
<1>1. new = IF named = tools THEN members ELSE [i \in DOMAIN again |-> at(i)]
  BY DEF sanitizeAnthropicRequest, CleanedOf, AnthropicTools
<1>2. IsList(again) /\ RoundedAs(members, again)
  BY RemarshalKeepsValues
<1> HIDE DEF again
<1>3. CASE named = tools
  <2>1. new = members
    BY <1>1, <1>3
  <2> HIDE DEF new
  <2>2. AnthropicReads(members, new)
    BY <1>3, <2>1 DEF AnthropicReads
  <2> QED
    BY <2>1, <2>2 DEF new
<1>4. CASE named # tools
  <2>1. new = [i \in DOMAIN again |-> at(i)]
    BY <1>1, <1>4
  <2> HIDE DEF written
  <2>2. /\ IsList(new) /\ DOMAIN new = DOMAIN again
        /\ \A i \in DOMAIN again :
             /\ new[i].key = again[i].key
             /\ new[i].items = IF again[i].key = "tools" THEN written ELSE again[i].items
    BY <1>2, <2>1 DEF IsList, Member
  <2>3. IsSequence(new)
    <3>1. Len(again) \in Nat /\ new \in [1..Len(again) -> T]
      BY <1>2, <2>1 DEF IsList
    <3> HIDE DEF new, T
    <3>2. new \in Seq(T)
      BY <3>1, FunctionIsSequence
    <3> QED
      BY <3>2 DEF IsSequence
  <2> HIDE DEF new, named, tools
  <2>4. \A key, m : LastAt(new, key, m) <=> LastAt(again, key, m)
    BY <2>2 DEF LastAt
  <2>5. ASSUME NEW key, HasKey(again, key)
        PROVE  /\ HasKey(new, key)
               /\ ItemsOf(new, key) = IF key = "tools" THEN written ELSE ItemsOf(again, key)
    <3>1. PICK m \in DOMAIN again : LastAt(again, key, m)
      BY <1>2, <2>5, HasLast
    <3>2. LastAt(new, key, m) /\ again[m].key = key
      BY <2>4, <3>1 DEF LastAt
    <3>3. ItemsOf(again, key) = again[m].items
      BY <1>2, <3>1, ItemsOfLast
    <3>4. HasKey(new, key) /\ ItemsOf(new, key) = new[m].items
      BY <2>2, <3>2, ItemsOfLast
    <3> QED
      BY <2>2, <3>2, <3>3, <3>4
  <2>6. \A key : ~ HasKey(again, key) => ~ HasKey(new, key)
    BY <2>2, KeyOccurs
  <2>7. \A key : HasKey(new, key) <=> HasKey(members, key)
    BY <1>2, <2>5, <2>6 DEF RoundedAs
  <2>8. \A key : HasKey(members, key) /\ key # "tools" =>
          ItemsOf(new, key) = rounded(ItemsOf(members, key))
    BY <1>2, <2>5 DEF RoundedAs
  <2>9. HasKey(members, "tools") => ItemsOf(new, "tools") = written
    BY <1>2, <2>5 DEF RoundedAs
  <2>10. AnthropicReads(members, new)
    BY <1>4, <2>7, <2>8, <2>9 DEF AnthropicReads, named, tools, written
  <2> QED
    BY <2>2, <2>3, <2>10 DEF new
<1> QED
  BY <1>3, <1>4

BuiltDocument(x) ==
  LET rewritten == TransformRequestBody(x.gateway.adapter, x.document)
  IN IF x.gateway.headers.protocol = "responses"
       THEN [rewritten EXCEPT !.members = injectPromptCacheKey(@, grokSessionID(x.client))]
       ELSE rewritten

\* The shape of a client's document.
LEMMA DocumentIsRead ==
  ASSUME NEW x \in Exchanges
  PROVE  /\ DOMAIN x.document = {"members", "messages"}
         /\ IsSequence(x.document.members) /\ IsList(x.document.members)
         /\ \A i \in DOMAIN x.document.members :
              x.document.members[i].items \in Seq(ListEntries) \cup {Scalar}
         /\ IsList(x.document.messages)
         /\ \A i \in DOMAIN x.document.messages : IsList(x.document.messages[i].calls)
<1>1. x.document \in RequestDocuments
  BY ExchangesAssumption DEF DocumentAssumption
<1>2. /\ DOMAIN x.document = {"members", "messages"}
      /\ x.document.members \in Seq([key : STRING, items : Seq(ListEntries) \cup {Scalar}])
      /\ x.document.messages \in Seq(ChatMessages)
  BY <1>1 DEF RequestDocuments
<1>3. IsSequence(x.document.members) /\ IsSequence(x.document.messages)
  BY <1>2 DEF IsSequence
<1>4. IsList(x.document.members) /\ IsList(x.document.messages)
  BY <1>3, SequenceIsList
<1>5. \A i \in DOMAIN x.document.members :
        x.document.members[i].items \in Seq(ListEntries) \cup {Scalar}
  <2> DEFINE S == Seq(ListEntries) \cup {Scalar}
  <2>1. x.document.members \in Seq([key : STRING, items : S])
    BY <1>2
  <2> HIDE DEF S
  <2> DEFINE R == [key : STRING, items : S]
             m == x.document.members
  <2>2. \A e \in R : e.items \in S
    OBVIOUS
  <2> HIDE DEF R, m
  <2>3. m \in Seq(R) /\ IsList(m)
    BY <1>4, <2>1 DEF R, m
  <2>4. \A i \in DOMAIN m : m[i] \in R
    BY <2>3 DEF IsList
  <2> QED
    BY <2>2, <2>4 DEF S, m
<1>6. \A i \in DOMAIN x.document.messages : IsList(x.document.messages[i].calls)
  BY <1>2 DEF ChatMessages, IsList
<1> QED
  BY <1>2, <1>3, <1>4, <1>5, <1>6

\* The prompt cache key is the only member the session adds.
LEMMA SessionInjected ==
  ASSUME NEW members, IsList(members), IsSequence(members), NEW session
  PROVE  LET new == injectPromptCacheKey(members, session)
         IN /\ SameBut({"prompt_cache_key"}, members, new)
            /\ session # None =>
                 ItemsOf(new, "prompt_cache_key")
                   = IF HasKey(members, "prompt_cache_key")
                       THEN ItemsOf(members, "prompt_cache_key") ELSE <<Item(session, {})>>
<1>1. PICK S : members \in Seq(S)
  BY DEF IsSequence
<1> DEFINE new == insertTopLevelJSONMember(members, "prompt_cache_key", <<Item(session, {})>>)
<1>2. /\ ItemsOf(new, "prompt_cache_key")
           = IF HasKey(members, "prompt_cache_key")
               THEN ItemsOf(members, "prompt_cache_key") ELSE <<Item(session, {})>>
      /\ \A k : k # "prompt_cache_key" => /\ HasKey(new, k) <=> HasKey(members, k)
                                          /\ ItemsOf(new, k) = ItemsOf(members, k)
  BY <1>1, MemberInserted
<1>3. SameBut({"prompt_cache_key"}, members, members)
  BY DEF SameBut
<1>4. SameBut({"prompt_cache_key"}, members, new)
  BY <1>2 DEF SameBut
<1>5. injectPromptCacheKey(members, session) = IF session = None THEN members ELSE new
  BY DEF injectPromptCacheKey, None
<1> HIDE DEF new
<1> QED
  BY <1>2, <1>3, <1>4, <1>5

\* The document that is sent, member by member as a parser sees it.
LEMMA DocumentIsBuilt ==
  ASSUME NEW x \in Exchanges
  PROVE  LET old == x.document
             rewritten == TransformRequestBody(x.gateway.adapter, old)
             new == BuiltDocument(x)
             session == grokSessionID(x.client)
         IN /\ new.messages = rewritten.messages
            /\ SameBut({"prompt_cache_key"}, rewritten.members, new.members)
            /\ x.gateway.adapter # "anth" =>
                 SameBut({"stream_tool_calls", "tools", "include", "reasoning", "input"},
                         old.members, rewritten.members)
            /\ session # None /\ x.gateway.headers.protocol = "responses" =>
                 ItemsOf(new.members, "prompt_cache_key")
                   = IF HasKey(old.members, "prompt_cache_key")
                       THEN ItemsOf(old.members, "prompt_cache_key") ELSE <<Item(session, {})>>
<1> DEFINE old == x.document
           rewritten == TransformRequestBody(x.gateway.adapter, old)
           new == BuiltDocument(x)
           session == grokSessionID(x.client)
           K == {"stream_tool_calls", "tools", "include", "reasoning", "input"}
<1>1. /\ DOMAIN old = {"members", "messages"}
      /\ IsSequence(old.members) /\ IsList(old.members)
  BY DocumentIsRead
<1>2. /\ x.gateway.adapter \in {"std", "ds", "anth", "st", "oaic"}
      /\ x.gateway.headers.protocol = "responses" => x.gateway.adapter # "anth"
  BY ExchangesAssumption
<1>3. /\ DOMAIN rewritten = {"members", "messages"}
      /\ IsSequence(rewritten.members) /\ IsList(rewritten.members)
      /\ x.gateway.adapter # "anth" => SameBut(K, old.members, rewritten.members)
  <2>1. CASE x.gateway.adapter = "std"
    <3>1. rewritten = [old EXCEPT !.members = sanitizeResponsesRequest(@)]
      BY <2>1 DEF TransformRequestBody
    <3>2. DOMAIN rewritten = DOMAIN old /\ rewritten.members = sanitizeResponsesRequest(old.members)
      BY <1>1, <3>1
    <3> HIDE DEF rewritten
    <3> QED
      BY <1>1, <3>2, StandardMembers DEF SameBut
  <2>2. CASE x.gateway.adapter = "ds"
    <3> DEFINE middle == sanitizeResponsesRequest(old.members)
    <3>1. rewritten = [old EXCEPT !.members = adaptResponsesRequestForDeepSeek(
                                                sanitizeResponsesRequest(@))]
      BY <2>2 DEF TransformRequestBody
    <3>2. DOMAIN rewritten = DOMAIN old
          /\ rewritten.members = adaptResponsesRequestForDeepSeek(middle)
      BY <1>1, <3>1
    <3> HIDE DEF rewritten
    <3>3. IsList(middle) /\ SameBut({"stream_tool_calls", "tools", "include"}, old.members, middle)
      BY <1>1, StandardMembers
    <3> HIDE DEF middle
    <3>4. /\ IsList(rewritten.members) /\ IsSequence(rewritten.members)
          /\ SameBut({"include", "reasoning", "input"}, middle, rewritten.members)
      BY <3>2, <3>3, DeepSeekMembers
    <3> QED
      BY <1>1, <3>2, <3>3, <3>4 DEF SameBut
  <2>3. CASE x.gateway.adapter = "anth"
    <3>1. rewritten = [old EXCEPT !.members = sanitizeAnthropicRequest(@)]
      BY <2>3 DEF TransformRequestBody
    <3>2. DOMAIN rewritten = DOMAIN old /\ rewritten.members = sanitizeAnthropicRequest(old.members)
      BY <1>1, <3>1
    <3>3. HasKey(old.members, "messages")
      BY <2>3, ExchangesAssumption DEF DocumentAssumption
    <3> HIDE DEF rewritten
    <3> QED
      BY <1>1, <2>3, <3>2, <3>3, AnthropicMembers
  <2>4. CASE x.gateway.adapter \in {"st", "oaic"}
    <3>1. DOMAIN rewritten = DOMAIN old /\ rewritten.members = old.members
      BY <1>1, <2>4 DEF TransformRequestBody
    <3> HIDE DEF rewritten
    <3> QED
      BY <1>1, <3>1 DEF SameBut
  <2> QED
    BY <1>2, <2>1, <2>2, <2>3, <2>4
<1> HIDE DEF rewritten
<1>4. new = IF x.gateway.headers.protocol = "responses"
              THEN [rewritten EXCEPT !.members = injectPromptCacheKey(@, session)] ELSE rewritten
  BY DEF BuiltDocument, rewritten
<1>5. new.messages = rewritten.messages
  BY <1>3, <1>4
<1>6. new.members = IF x.gateway.headers.protocol = "responses"
                      THEN injectPromptCacheKey(rewritten.members, session) ELSE rewritten.members
  BY <1>3, <1>4
<1> HIDE DEF new, session
<1>7. SameBut({"prompt_cache_key"}, rewritten.members, new.members)
  BY <1>3, <1>6, SessionInjected DEF SameBut
<1>8. x.gateway.adapter # "anth" =>
        /\ HasKey(rewritten.members, "prompt_cache_key") <=> HasKey(old.members, "prompt_cache_key")
        /\ ItemsOf(rewritten.members, "prompt_cache_key") = ItemsOf(old.members, "prompt_cache_key")
  BY <1>3 DEF SameBut
<1>9. session # None /\ x.gateway.headers.protocol = "responses" =>
        ItemsOf(new.members, "prompt_cache_key")
          = IF HasKey(old.members, "prompt_cache_key")
              THEN ItemsOf(old.members, "prompt_cache_key") ELSE <<Item(session, {})>>
  BY <1>2, <1>3, <1>6, <1>8, SessionInjected
<1> QED
  BY <1>3, <1>5, <1>7, <1>9 DEF rewritten, new, session
-------------------------------------------------------------------------------
(***************************************************************************)
(* The history of a chat request.                                          *)
(***************************************************************************)
\* T is B with other types of the calls.
Retyped(B, T) ==
  /\ DOMAIN T = DOMAIN B /\ IsList(T)
  /\ \A i \in DOMAIN B :
       /\ T[i].role = B[i].role /\ T[i].answers = B[i].answers
       /\ {"role", "calls", "answers"} \subseteq DOMAIN T[i]
       /\ IsList(T[i].calls) /\ DOMAIN T[i].calls = DOMAIN B[i].calls
       /\ \A j \in DOMAIN B[i].calls :
            /\ T[i].calls[j].id = B[i].calls[j].id
            /\ validSenseNovaToolCall(T[i].calls[j]) <=> validSenseNovaToolCall(B[i].calls[j])

IsCalled(messages, id) ==
  \E i \in DOMAIN messages : \E j \in DOMAIN messages[i].calls :
    validSenseNovaToolCall(messages[i].calls[j]) /\ id = messages[i].calls[j].id

AnswersDoNotCall(messages) ==
  \A i \in DOMAIN messages : messages[i].role = "tool" => messages[i].calls = <<>>

\* The calls of a history, by their positions.
LEMMA CallIsIn ==
  ASSUME NEW messages, NEW call
  PROVE  call \in CallsIn(messages) <=>
           \E i \in DOMAIN messages : \E j \in DOMAIN messages[i].calls : call = messages[i].calls[j]
  BY DEF CallsIn, Range

\* Of the calls of a message the whole ones are kept.
LEMMA CallsAreKept ==
  ASSUME NEW c, IsList(c)
  PROVE  /\ \A j \in DOMAIN keepValidCalls(c) : \E k \in DOMAIN c :
              keepValidCalls(c)[j] = c[k] /\ validSenseNovaToolCall(c[k])
         /\ \A k \in DOMAIN c : validSenseNovaToolCall(c[k]) =>
              \E j \in DOMAIN keepValidCalls(c) : keepValidCalls(c)[j] = c[k]
<1> DEFINE V == {k \in DOMAIN c : validSenseNovaToolCall(c[k])}
<1>1. V \in SUBSET DOMAIN c /\ \A k \in DOMAIN c : k \in V <=> validSenseNovaToolCall(c[k])
  OBVIOUS
<1>2. keepValidCalls(c) = Kept(c, V)
  BY DEF keepValidCalls
<1> HIDE DEF V
<1> QED
  BY <1>1, <1>2, KeptInOrder

\* The messages with their whole calls only.
Filtered(T) == [i \in DOMAIN T |-> [T[i] EXCEPT !.calls = keepValidCalls(@)]]

\* A message with its whole calls only, and the message the client sent.
LEMMA FilteredCalls ==
  ASSUME NEW B, NEW T, Retyped(B, T), NEW i \in DOMAIN B
  PROVE  LET F == Filtered(T)
         IN /\ F[i].role = B[i].role /\ F[i].answers = B[i].answers
            /\ \A j \in DOMAIN F[i].calls : \E k \in DOMAIN B[i].calls :
                 /\ F[i].calls[j] = T[i].calls[k] /\ validSenseNovaToolCall(T[i].calls[k])
                 /\ F[i].calls[j].id = B[i].calls[k].id /\ validSenseNovaToolCall(B[i].calls[k])
            /\ \A k \in DOMAIN B[i].calls : validSenseNovaToolCall(B[i].calls[k]) =>
                 \E j \in DOMAIN F[i].calls : F[i].calls[j].id = B[i].calls[k].id
<1> DEFINE F == Filtered(T)
           c == T[i].calls
           b == B[i].calls
           f == F[i].calls
<1>1. F[i].role = B[i].role /\ F[i].answers = B[i].answers /\ f = keepValidCalls(c)
  BY DEF Filtered, Retyped
<1>2. /\ IsList(c) /\ DOMAIN c = DOMAIN b
      /\ \A k \in DOMAIN b : /\ c[k].id = b[k].id
                             /\ validSenseNovaToolCall(c[k]) <=> validSenseNovaToolCall(b[k])
  BY DEF Retyped
<1> HIDE DEF c, b, f
<1>3. /\ \A j \in DOMAIN f : \E k \in DOMAIN c : f[j] = c[k] /\ validSenseNovaToolCall(c[k])
      /\ \A k \in DOMAIN c : validSenseNovaToolCall(c[k]) => \E j \in DOMAIN f : f[j] = c[k]
  BY <1>1, <1>2, CallsAreKept
<1>4. \A j \in DOMAIN f : \E k \in DOMAIN b :
        /\ f[j] = c[k] /\ validSenseNovaToolCall(c[k])
        /\ f[j].id = b[k].id /\ validSenseNovaToolCall(b[k])
  BY <1>2, <1>3
<1>5. \A k \in DOMAIN b : validSenseNovaToolCall(b[k]) => \E j \in DOMAIN f : f[j].id = b[k].id
  BY <1>2, <1>3
<1> HIDE DEF F
<1> QED
  BY <1>1, <1>4, <1>5 DEF c, b, f, F

CallIDs(messages) == {call.id : call \in UNION {Range(messages[i].calls) : i \in DOMAIN messages}}

\* The identifiers of the calls of a history.
LEMMA IDsCalled ==
  ASSUME NEW M, NEW id
  PROVE  id \in CallIDs(M) <=>
           \E i \in DOMAIN M : \E j \in DOMAIN M[i].calls : id = M[i].calls[j].id
<1>1. id \in CallIDs(M) <=> \E i \in DOMAIN M : \E call \in Range(M[i].calls) : id = call.id
  BY DEF CallIDs
<1> QED
  BY <1>1 DEF Range

(***************************************************************************)
(* What is known of a history once it is sanitized: exactly the whole      *)
(* calls are left, and the answers to them.                                *)
(***************************************************************************)
IsClosedHistory(new, B, T, ids) ==
  LET told == Kept(B, {i \in DOMAIN B : B[i].role = "tool" => B[i].answers \in ids})
  IN /\ \A call \in CallsIn(new) :
          call \in CallsIn(T) /\ validSenseNovaToolCall(call) /\ call.id \in ids
     /\ \A id \in ids : \E call \in CallsIn(new) : call.id = id
     /\ DOMAIN new = DOMAIN told
     /\ \A i \in DOMAIN new : new[i].role = told[i].role /\ new[i].answers = told[i].answers

\* sanitizeSenseNovaToolCallHistory closes a history.
LEMMA HistoryIsClosed ==
  ASSUME NEW B, IsList(B), AnswersDoNotCall(B), NEW T, Retyped(B, T),
         NEW ids, \A id : id \in ids <=> IsCalled(B, id)
  PROVE  IsClosedHistory(sanitizeSenseNovaToolCallHistory(T), B, T, ids)
<1> DEFINE new == sanitizeSenseNovaToolCallHistory(T)
           F == Filtered(T)
           Q == {i \in DOMAIN F : F[i].role = "tool" => F[i].answers \in CallIDs(F)}
           R == {i \in DOMAIN B : B[i].role = "tool" => B[i].answers \in ids}
           told == Kept(B, R)
<1>1. new = Kept(F, Q)
  BY DEF sanitizeSenseNovaToolCallHistory, Filtered, CallIDs
<1>2. DOMAIN F = DOMAIN B /\ IsList(F) /\ DOMAIN T = DOMAIN B
  BY DEF Filtered, Retyped, IsList
<1>3. \A i \in DOMAIN B : F[i].role = B[i].role /\ F[i].answers = B[i].answers
  BY FilteredCalls
<1>4. \A i \in DOMAIN B : \A j \in DOMAIN F[i].calls : \E k \in DOMAIN B[i].calls :
        /\ F[i].calls[j] = T[i].calls[k] /\ validSenseNovaToolCall(T[i].calls[k])
        /\ F[i].calls[j].id = B[i].calls[k].id /\ validSenseNovaToolCall(B[i].calls[k])
  BY FilteredCalls
<1>5. \A i \in DOMAIN B : \A k \in DOMAIN B[i].calls : validSenseNovaToolCall(B[i].calls[k]) =>
        \E j \in DOMAIN F[i].calls : F[i].calls[j].id = B[i].calls[k].id
  BY FilteredCalls
<1> HIDE DEF F
<1>6. Q \in SUBSET DOMAIN F /\ R \in SUBSET DOMAIN B
  OBVIOUS
<1>7. \A id : id \in CallIDs(F) <=> id \in ids
  <2>1. ASSUME NEW id, id \in CallIDs(F)
        PROVE  id \in ids
    <3>1. PICK i \in DOMAIN B : \E j \in DOMAIN F[i].calls : id = F[i].calls[j].id
      BY <1>2, <2>1, IDsCalled
    <3>2. PICK j \in DOMAIN F[i].calls : id = F[i].calls[j].id
      BY <3>1
    <3>3. PICK k \in DOMAIN B[i].calls : F[i].calls[j].id = B[i].calls[k].id
                                         /\ validSenseNovaToolCall(B[i].calls[k])
      BY <1>4
    <3> QED
      BY <3>2, <3>3 DEF IsCalled
  <2>2. ASSUME NEW id \in ids
        PROVE  id \in CallIDs(F)
    <3>1. PICK i \in DOMAIN B : \E j \in DOMAIN B[i].calls :
            validSenseNovaToolCall(B[i].calls[j]) /\ id = B[i].calls[j].id
      BY DEF IsCalled
    <3>2. \E j \in DOMAIN F[i].calls : F[i].calls[j].id = id
      BY <1>5, <3>1
    <3> QED
      BY <1>2, <3>2, IDsCalled
  <2> QED
    BY <2>1, <2>2
<1>8. Q = R
  BY <1>2, <1>3, <1>7
<1> HIDE DEF Q, new
<1>9. /\ IsList(new) /\ Len(new) = Cardinality(Q)
      /\ \A n \in DOMAIN new : Nth(Q, n) \in Q /\ new[n] = F[Nth(Q, n)]
      /\ \A i \in Q : \E n \in DOMAIN new : new[n] = F[i]
  BY <1>1, <1>2, <1>6, KeptInOrder
<1>10. /\ IsList(told) /\ Len(told) = Cardinality(R)
       /\ \A n \in DOMAIN told : told[n] = B[Nth(R, n)]
  <2> HIDE DEF R
  <2> QED
    BY <1>6, KeptInOrder
<1>11. \A i \in DOMAIN B : B[i].role # "tool" => i \in R
  OBVIOUS
<1> HIDE DEF told, R
<1>12. DOMAIN new = DOMAIN told
  BY <1>8, <1>9, <1>10 DEF IsList
<1>13. \A n \in DOMAIN new : new[n].role = told[n].role /\ new[n].answers = told[n].answers
  <2> TAKE n \in DOMAIN new
  <2>1. new[n] = F[Nth(R, n)] /\ told[n] = B[Nth(R, n)] /\ Nth(R, n) \in DOMAIN B
    BY <1>6, <1>8, <1>9, <1>10, <1>12
  <2> QED
    BY <1>3, <2>1
<1>14. ASSUME NEW call \in CallsIn(new)
       PROVE  call \in CallsIn(T) /\ validSenseNovaToolCall(call) /\ call.id \in ids
  <2>1. PICK n \in DOMAIN new : \E j \in DOMAIN new[n].calls : call = new[n].calls[j]
    BY CallIsIn
  <2>2. PICK j \in DOMAIN new[n].calls : call = new[n].calls[j]
    BY <2>1
  <2>3. PICK i \in DOMAIN B : new[n] = F[i]
    BY <1>2, <1>6, <1>9
  <2>4. PICK k \in DOMAIN B[i].calls :
          /\ F[i].calls[j] = T[i].calls[k] /\ validSenseNovaToolCall(T[i].calls[k])
          /\ F[i].calls[j].id = B[i].calls[k].id /\ validSenseNovaToolCall(B[i].calls[k])
    BY <1>4, <2>2, <2>3
  <2>5. i \in DOMAIN T /\ k \in DOMAIN T[i].calls
    BY DEF Retyped
  <2>6. call = T[i].calls[k]
    BY <2>2, <2>3, <2>4
  <2>7. call \in CallsIn(T)
    BY <2>5, <2>6, CallIsIn
  <2>8. IsCalled(B, call.id)
    BY <2>2, <2>3, <2>4 DEF IsCalled
  <2> QED
    BY <2>4, <2>6, <2>7, <2>8
<1>15. ASSUME NEW id \in ids
       PROVE  \E call \in CallsIn(new) : call.id = id
  <2>1. PICK i \in DOMAIN B : \E j \in DOMAIN F[i].calls : id = F[i].calls[j].id
    BY <1>2, <1>7, IDsCalled
  <2>2. PICK j \in DOMAIN F[i].calls : id = F[i].calls[j].id
    BY <2>1
  <2>3. PICK k \in DOMAIN B[i].calls : TRUE
    BY <1>4, <2>2
  <2>4. B[i].role # "tool"
    BY <2>3 DEF AnswersDoNotCall
  <2>5. PICK n \in DOMAIN new : new[n] = F[i]
    BY <1>8, <1>9, <1>11, <2>4
  <2> QED
    BY <2>2, <2>5, CallIsIn
<1> QED
  BY <1>12, <1>13, <1>14, <1>15 DEF IsClosedHistory, new, told, R

\* The shape of a client's messages.
LEMMA MessagesAreRead ==
  ASSUME NEW x \in Exchanges
  PROVE  LET B == x.document.messages
         IN /\ IsList(B) /\ AnswersDoNotCall(B)
            /\ \A i \in DOMAIN B :
                 /\ DOMAIN B[i] = {"role", "calls", "answers"} /\ IsList(B[i].calls)
                 /\ \A j \in DOMAIN B[i].calls : DOMAIN B[i].calls[j] = {"id", "whole", "type"}
<1> DEFINE B == x.document.messages
<1>1. x.document \in RequestDocuments
      /\ \A message \in Range(B) : message.role = "tool" => message.calls = <<>>
  BY ExchangesAssumption DEF DocumentAssumption
<1>2. B \in Seq(ChatMessages)
  BY <1>1 DEF RequestDocuments
<1>3. IsList(B)
  BY DocumentIsRead
<1> HIDE DEF B
<1>4. \A i \in DOMAIN B : B[i] \in ChatMessages
  BY <1>2, <1>3 DEF IsList
<1>5. \A m \in ChatMessages : DOMAIN m = {"role", "calls", "answers"} /\ m.calls \in Seq(ToolCalls)
  BY DEF ChatMessages
<1>6. \A c \in Seq(ToolCalls) : IsList(c) /\ \A j \in DOMAIN c : c[j] \in ToolCalls
  BY DEF IsList
<1>7. \A call \in ToolCalls : DOMAIN call = {"id", "whole", "type"}
  BY DEF ToolCalls
<1>8. \A i \in DOMAIN B :
        /\ DOMAIN B[i] = {"role", "calls", "answers"} /\ IsList(B[i].calls)
        /\ \A j \in DOMAIN B[i].calls : DOMAIN B[i].calls[j] = {"id", "whole", "type"}
  BY <1>4, <1>5, <1>6, <1>7
<1>9. AnswersDoNotCall(B)
  BY <1>1 DEF AnswersDoNotCall, Range, B
<1> QED
  BY <1>3, <1>8, <1>9 DEF B

\* The types of the calls are changed, and nothing else.
LEMMA TypesAreTransformed ==
  ASSUME NEW B, IsList(B), NEW from, NEW to, from # to,
         \A i \in DOMAIN B :
           /\ DOMAIN B[i] = {"role", "calls", "answers"} /\ IsList(B[i].calls)
           /\ \A j \in DOMAIN B[i].calls : DOMAIN B[i].calls[j] = {"id", "whole", "type"}
  PROVE  LET T == transformToolCallType(B, from, to)
         IN Retyped(B, T) /\ \A call \in CallsIn(T) : call.type # from
<1> DEFINE T == transformToolCallType(B, from, to)
           new(call) == IF call.type = from THEN [call EXCEPT !.type = to] ELSE call
           cs(i) == [j \in DOMAIN B[i].calls |-> new(B[i].calls[j])]
<1>1. T = [i \in DOMAIN B |-> [B[i] EXCEPT !.calls = cs(i)]]
  BY DEF transformToolCallType
<1>2. \A call : DOMAIN call = {"id", "whole", "type"} =>
        /\ new(call).id = call.id /\ new(call).type # from
        /\ validSenseNovaToolCall(new(call)) <=> validSenseNovaToolCall(call)
  BY DEF validSenseNovaToolCall
<1>3. \A i \in DOMAIN B : DOMAIN cs(i) = DOMAIN B[i].calls /\ IsList(cs(i))
  BY DEF IsList
<1>4. \A i \in DOMAIN B : \A j \in DOMAIN B[i].calls : cs(i)[j] = new(B[i].calls[j])
  OBVIOUS
<1> HIDE DEF new, cs
<1>5. DOMAIN T = DOMAIN B /\ IsList(T)
  BY <1>1 DEF IsList
<1>6. \A i \in DOMAIN B : /\ T[i].calls = cs(i)
                          /\ T[i].role = B[i].role /\ T[i].answers = B[i].answers
                          /\ DOMAIN T[i] = {"role", "calls", "answers"}
  BY <1>1
<1> HIDE DEF T
<1>7. Retyped(B, T)
  <2>1. ASSUME NEW i \in DOMAIN B
        PROVE  /\ T[i].role = B[i].role /\ T[i].answers = B[i].answers
               /\ {"role", "calls", "answers"} \subseteq DOMAIN T[i]
               /\ IsList(T[i].calls) /\ DOMAIN T[i].calls = DOMAIN B[i].calls
    BY <1>3, <1>6
  <2>2. ASSUME NEW i \in DOMAIN B, NEW j \in DOMAIN B[i].calls
        PROVE  /\ T[i].calls[j].id = B[i].calls[j].id
               /\ validSenseNovaToolCall(T[i].calls[j]) <=> validSenseNovaToolCall(B[i].calls[j])
    <3>1. T[i].calls[j] = new(B[i].calls[j])
      BY <1>4, <1>6
    <3>2. DOMAIN B[i].calls[j] = {"id", "whole", "type"}
      OBVIOUS
    <3> QED
      BY <1>2, <3>1, <3>2
  <2> QED
    BY <1>5, <2>1, <2>2 DEF Retyped
<1>8. \A call \in CallsIn(T) : call.type # from
  <2> TAKE call \in CallsIn(T)
  <2>1. PICK i \in DOMAIN T : \E j \in DOMAIN T[i].calls : call = T[i].calls[j]
    BY CallIsIn
  <2>2. PICK j \in DOMAIN cs(i) : call = cs(i)[j]
    BY <1>5, <1>6, <2>1
  <2>3. call = new(B[i].calls[j]) /\ i \in DOMAIN B /\ j \in DOMAIN B[i].calls
    BY <1>3, <1>4, <1>5, <2>2
  <2> QED
    BY <1>2, <2>3
<1> QED
  BY <1>7, <1>8 DEF T

-------------------------------------------------------------------------------
(***************************************************************************)
(* The inductive invariant: the row and the upstream request are what the  *)
(* operators make of the exchange.                                         *)
(***************************************************************************)
IInv ==
  /\ exchange \in Exchanges
  /\ stage \in {"idle", "received", "sent", "done"}
  /\ DOMAIN row = {"client", "upstream", "usage"}
  /\ DOMAIN sent = {"headers", "document"}
  /\ stage # "idle" =>
       row.client = sanitizeHeaders([name \in Names |-> Get(exchange.client, name)])
  /\ Built => /\ sent.document = BuiltDocument(exchange)
              /\ sent.headers = buildUpstreamHeaders(exchange.client, exchange.gateway.headers)
              /\ row.upstream = sanitizeHeaders(sent.headers)

\* Nothing is sent yet.
LEMMA InitIInv == Init => IInv
  BY DEF Init, IInv, Built

\* Only two actions build anything: Receive and buildUpstreamRequest.
LEMMA NextIInv == IInv /\ [Next]_vars => IInv'
<1> SUFFICES ASSUME IInv, [Next]_vars
             PROVE  IInv'
  OBVIOUS
<1> USE DEF IInv, Built
<1>1. CASE Receive
  BY <1>1 DEF Receive
<1>2. CASE buildUpstreamRequest
  BY <1>2 DEF buildUpstreamRequest, BuiltDocument
<1>3. CASE RelayChunk
  BY <1>3 DEF RelayChunk
<1>4. CASE Finish
  BY <1>4 DEF Finish
<1>5. CASE UNCHANGED vars
  BY <1>5 DEF vars
<1> QED
  BY <1>1, <1>2, <1>3, <1>4, <1>5 DEF Next

\* The messages that are sent are a closed history.
LEMMA IInvIsClosed == IInv => ToolHistoryClosed
<1> SUFFICES ASSUME IInv, Built, adapter \in {"st", "oaic"}
             PROVE  ToolHistoryClosed
  BY DEF ToolHistoryClosed
<1> DEFINE B == before.messages
           T == IF adapter = "st" THEN transformToolCallType(B, "function", "function_call") ELSE B
           new == sanitizeSenseNovaToolCallHistory(T)
           ids == {call.id : call \in {c \in CallsIn(B) : c.id # "" /\ c.whole}}
           R == {i \in DOMAIN B : B[i].role = "tool" => B[i].answers \in ids}
           told == Kept(B, R)
<1>1. /\ IsList(B) /\ AnswersDoNotCall(B)
      /\ \A i \in DOMAIN B :
           /\ DOMAIN B[i] = {"role", "calls", "answers"} /\ IsList(B[i].calls)
           /\ \A j \in DOMAIN B[i].calls : DOMAIN B[i].calls[j] = {"id", "whole", "type"}
  BY MessagesAreRead DEF IInv, before
<1>2. Retyped(B, T) /\ (adapter = "st" => \A call \in CallsIn(T) : call.type # "function")
  <2>1. Retyped(B, B)
    BY <1>1 DEF Retyped
  <2>2. "function" # "function_call"
    OBVIOUS
  <2> HIDE DEF B
  <2>3. LET S == transformToolCallType(B, "function", "function_call")
        IN Retyped(B, S) /\ \A call \in CallsIn(S) : call.type # "function"
    BY <1>1, <2>2, TypesAreTransformed
  <2> QED
    BY <2>1, <2>3
<1>3. after.messages = new
  <2>1. DOMAIN before = {"members", "messages"}
    BY DocumentIsRead DEF IInv, before
  <2>2. TransformRequestBody(adapter, before).messages = new
    BY <2>1 DEF TransformRequestBody
  <2>3. sent.document.messages = TransformRequestBody(adapter, before).messages
    BY DocumentIsBuilt DEF IInv, adapter, before
  <2> QED
    BY <2>2, <2>3 DEF after
<1> HIDE DEF T, B
<1>4. \A id : id \in ids <=> IsCalled(B, id)
  <2>1. \A id : id \in ids <=> \E call \in CallsIn(B) : validSenseNovaToolCall(call) /\ id = call.id
    BY DEF validSenseNovaToolCall
  <2> HIDE DEF ids
  <2>2. ASSUME NEW id \in ids
        PROVE  IsCalled(B, id)
    <3>1. PICK call \in CallsIn(B) : validSenseNovaToolCall(call) /\ id = call.id
      BY <2>1
    <3> QED
      BY <3>1, CallIsIn DEF IsCalled
  <2>3. ASSUME NEW id, IsCalled(B, id)
        PROVE  id \in ids
    <3>1. PICK i \in DOMAIN B : \E j \in DOMAIN B[i].calls :
            validSenseNovaToolCall(B[i].calls[j]) /\ id = B[i].calls[j].id
      BY <2>3 DEF IsCalled
    <3>2. PICK j \in DOMAIN B[i].calls :
            validSenseNovaToolCall(B[i].calls[j]) /\ id = B[i].calls[j].id
      BY <3>1
    <3>3. B[i].calls[j] \in CallsIn(B)
      BY CallIsIn
    <3> QED
      BY <2>1, <3>2, <3>3
  <2> QED
    BY <2>2, <2>3
<1> HIDE DEF ids
<1>5. /\ \A call \in CallsIn(new) :
           call \in CallsIn(T) /\ validSenseNovaToolCall(call) /\ call.id \in ids
      /\ \A id \in ids : \E call \in CallsIn(new) : call.id = id
      /\ DOMAIN new = DOMAIN told
      /\ \A i \in DOMAIN new : new[i].role = told[i].role /\ new[i].answers = told[i].answers
  <2>1. IsClosedHistory(new, B, T, ids)
    BY <1>1, <1>2, <1>4, HistoryIsClosed
  <2> QED
    BY <2>1 DEF IsClosedHistory
<1> HIDE DEF new, told
<1>6. {call.id : call \in CallsIn(new)} = ids
  BY <1>5
<1>7. \A call \in CallsIn(new) : call.whole /\ (adapter = "st" => call.type # "function")
  BY <1>2, <1>5 DEF validSenseNovaToolCall
<1>8. [i \in DOMAIN new |-> <<new[i].role, new[i].answers>>]
        = [i \in DOMAIN told |-> <<told[i].role, told[i].answers>>]
  BY <1>5
<1> QED
  BY <1>3, <1>6, <1>7, <1>8 DEF ToolHistoryClosed, ids, told, R, B

\* The sessions of headers and document.
LEMMA IInvReaches == IInv => SessionReachesUpstream
<1> SUFFICES ASSUME IInv, Built
             PROVE  SessionReachesUpstream
  BY DEF SessionReachesUpstream
<1> DEFINE g == exchange.gateway.headers
           c == exchange.client
           h == buildUpstreamHeaders(c, g)
           session == grokSessionID(c)
           new == BuiltDocument(exchange).members
           old == exchange.document.members
<1>1. exchange \in Exchanges /\ g \in GatewayHeaders
  BY ExchangesAssumption DEF IInv
<1>2. sent.headers = h /\ sent.document.members = new
  BY DEF IInv
<1>3. SessionsTell(h, c, g)
  BY <1>1, BuiltSessions
<1>4. session # None /\ g.protocol = "responses" =>
        ItemsOf(new, "prompt_cache_key")
          = IF HasKey(old, "prompt_cache_key") THEN ItemsOf(old, "prompt_cache_key")
            ELSE <<Item(session, {})>>
  BY <1>1, DocumentIsBuilt
<1> HIDE DEF h, new, session
<1> QED
  BY <1>2, <1>3, <1>4
     DEF SessionReachesUpstream, SessionsTell, Own, client, protocol, after, before, session

(***************************************************************************)
(* What a client's document says under a key.                              *)
(***************************************************************************)
LEMMA ItemsAreRead ==
  ASSUME NEW x \in Exchanges, NEW key
  PROVE  ItemsOf(x.document.members, key) \in Seq(ListEntries) \cup {Scalar}
<1> DEFINE members == x.document.members
           items == ItemsOf(members, key)
<1>1. /\ IsList(members)
      /\ \A i \in DOMAIN members : members[i].items \in Seq(ListEntries) \cup {Scalar}
  BY DocumentIsRead
<1> HIDE DEF members
<1>2. CASE HasKey(members, key)
  <2>1. PICK m \in DOMAIN members : LastAt(members, key, m)
    BY <1>1, <1>2, HasLast
  <2>2. items = members[m].items
    BY <1>1, <2>1, ItemsOfLast
  <2> HIDE DEF items
  <2> QED
    BY <1>1, <2>2 DEF members, items
<1>3. CASE ~ HasKey(members, key)
  <2>1. items = <<>>
    BY <1>3 DEF ItemsOf
  <2>2. <<>> \in Seq(ListEntries)
    OBVIOUS
  <2> HIDE DEF items
  <2> QED
    BY <2>1, <2>2 DEF members, items
<1> QED
  BY <1>2, <1>3

(***************************************************************************)
(* What the upstream reads under the keys an adapter may edit.             *)
(***************************************************************************)
StandardReads(old, new) ==
  /\ SameBut({"stream_tool_calls", "tools", "include", "prompt_cache_key"}, old, new)
  /\ ~ HasKey(new, "stream_tool_calls")
  /\ ToolsSeen(old, new)
  /\ HasKey(old, "include") =>
       ItemsOf(new, "include") = LET items == ItemsOf(old, "include")
                                 IN IF items = Scalar THEN items ELSE sanitizeResponsesInclude(items)
  /\ HasKey(new, "include") <=> /\ HasKey(old, "include")
                                /\ ItemsOf(new, "include") = <<>> => ItemsOf(old, "include") = <<>>

DeepSeekReads(old, new) ==
  /\ SameBut({"stream_tool_calls", "tools", "include", "reasoning", "input",
              "prompt_cache_key"}, old, new)
  /\ ~ HasKey(new, "stream_tool_calls") /\ ~ HasKey(new, "include")
  /\ ToolsSeen(old, new)
  /\ HasKey(old, "reasoning") =>
       ItemsOf(new, "reasoning") = LET items == ItemsOf(old, "reasoning")
                                   IN IF items = Scalar THEN items
                                      ELSE mapDeepSeekReasoningEffort(items)
  /\ HasKey(old, "input") =>
       ItemsOf(new, "input") = LET items == ItemsOf(old, "input")
                               IN IF items = Scalar THEN items
                                  ELSE stripUnsupportedReasoningFields(items)
  /\ HasKey(new, "reasoning") => HasKey(old, "reasoning")
  /\ HasKey(new, "input") => HasKey(old, "input")

\* Whatever the adapter, and the session that may be added at the end.
LEMMA UpstreamReads ==
  ASSUME NEW x \in Exchanges
  PROVE  LET old == x.document.members
             new == BuiltDocument(x).members
         IN /\ x.gateway.adapter = "std" => StandardReads(old, new)
            /\ x.gateway.adapter = "ds" => DeepSeekReads(old, new)
            /\ x.gateway.adapter = "anth" => AnthropicReads(old, new)
<1> DEFINE old == x.document.members
           new == BuiltDocument(x).members
           rewritten == TransformRequestBody(x.gateway.adapter, x.document).members
<1>1. DOMAIN x.document = {"members", "messages"} /\ IsList(old) /\ IsSequence(old)
  BY DocumentIsRead
<1>2. SameBut({"prompt_cache_key"}, rewritten, new)
  BY DocumentIsBuilt
<1>3. CASE x.gateway.adapter = "std"
  <2>1. rewritten = sanitizeResponsesRequest(old)
    BY <1>1, <1>3 DEF TransformRequestBody
  <2> HIDE DEF rewritten, old, new
  <2> DEFINE includes == ItemsOf(old, "include")
  <2>2. /\ SameBut({"stream_tool_calls", "tools", "include"}, old, rewritten)
        /\ ~ HasKey(rewritten, "stream_tool_calls")
        /\ ToolsSeen(old, rewritten)
        /\ HasKey(old, "include") =>
             ItemsOf(rewritten, "include") = IF includes = Scalar THEN includes
                                             ELSE sanitizeResponsesInclude(includes)
        /\ HasKey(rewritten, "include") <=> /\ HasKey(old, "include")
                                            /\ ItemsOf(rewritten, "include") = <<>> =>
                                                 includes = <<>>
    BY <1>1, <2>1, StandardMembers
  <2> HIDE DEF includes
  <2>3. \A key \in {"stream_tool_calls", "tools", "include"} :
          /\ HasKey(new, key) <=> HasKey(rewritten, key)
          /\ ItemsOf(new, key) = ItemsOf(rewritten, key)
    BY <1>2 DEF SameBut
  <2>4. SameBut({"stream_tool_calls", "tools", "include", "prompt_cache_key"}, old, new)
    BY <1>2, <2>2 DEF SameBut
  <2>5. ToolsSeen(old, new)
    BY <2>2, <2>3 DEF ToolsSeen
  <2>6. StandardReads(old, new)
    BY <2>2, <2>3, <2>4, <2>5 DEF StandardReads, includes
  <2> QED
    BY <1>3, <2>6 DEF old, new
<1>4. CASE x.gateway.adapter = "ds"
  <2> DEFINE middle == sanitizeResponsesRequest(old)
  <2>1. rewritten = adaptResponsesRequestForDeepSeek(middle)
    BY <1>1, <1>4 DEF TransformRequestBody
  <2> HIDE DEF rewritten, old, new
  <2>2. /\ IsList(middle)
        /\ SameBut({"stream_tool_calls", "tools", "include"}, old, middle)
        /\ ~ HasKey(middle, "stream_tool_calls")
        /\ ToolsSeen(old, middle)
    BY <1>1, StandardMembers
  <2> HIDE DEF middle
  <2> DEFINE reasoning == ItemsOf(middle, "reasoning")
             input == ItemsOf(middle, "input")
  <2>3. /\ SameBut({"include", "reasoning", "input"}, middle, rewritten)
        /\ ~ HasKey(rewritten, "include")
        /\ HasKey(middle, "reasoning") =>
             ItemsOf(rewritten, "reasoning") = IF reasoning = Scalar THEN reasoning
                                               ELSE mapDeepSeekReasoningEffort(reasoning)
        /\ HasKey(middle, "input") =>
             ItemsOf(rewritten, "input") = IF input = Scalar THEN input
                                           ELSE stripUnsupportedReasoningFields(input)
        /\ HasKey(rewritten, "reasoning") => HasKey(middle, "reasoning")
        /\ HasKey(rewritten, "input") => HasKey(middle, "input")
    BY <2>1, <2>2, DeepSeekMembers
  <2> HIDE DEF reasoning, input
  <2>4. \A key \in {"stream_tool_calls", "tools", "include", "reasoning", "input"} :
          /\ HasKey(new, key) <=> HasKey(rewritten, key)
          /\ ItemsOf(new, key) = ItemsOf(rewritten, key)
    BY <1>2 DEF SameBut
  <2>5. SameBut({"stream_tool_calls", "tools", "include", "reasoning", "input",
                 "prompt_cache_key"}, old, new)
    BY <1>2, <2>2, <2>3 DEF SameBut
  <2>6. \A key \in {"stream_tool_calls", "tools"} :
          /\ HasKey(rewritten, key) <=> HasKey(middle, key)
          /\ ItemsOf(rewritten, key) = ItemsOf(middle, key)
    BY <2>3 DEF SameBut
  <2>7. \A key \in {"reasoning", "input"} : /\ HasKey(middle, key) <=> HasKey(old, key)
                                            /\ ItemsOf(middle, key) = ItemsOf(old, key)
    BY <2>2 DEF SameBut
  <2>8. ToolsSeen(old, new)
    BY <2>2, <2>4, <2>6 DEF ToolsSeen
  <2>9. reasoning = ItemsOf(old, "reasoning") /\ input = ItemsOf(old, "input")
    BY <2>7 DEF reasoning, input
  <2>10. DeepSeekReads(old, new)
    BY <2>2, <2>3, <2>4, <2>5, <2>6, <2>7, <2>8, <2>9 DEF DeepSeekReads
  <2> QED
    BY <1>4, <2>10 DEF old, new
<1>5. CASE x.gateway.adapter = "anth"
  <2>1. rewritten = sanitizeAnthropicRequest(old) /\ HasKey(old, "messages")
    BY <1>1, <1>5, ExchangesAssumption DEF TransformRequestBody, DocumentAssumption
  <2> HIDE DEF rewritten, old, new
  <2>2. AnthropicReads(old, rewritten)
    BY <1>1, <2>1, AnthropicMembers
  <2>3. new = rewritten
    BY <1>5, ExchangesAssumption DEF BuiltDocument, new, rewritten
  <2> QED
    BY <1>5, <2>2, <2>3 DEF old, new
<1> QED
  BY <1>3, <1>4, <1>5

\* Keeping entries and taking their types commute.
LEMMA TypesAreKept ==
  ASSUME NEW items, IsList(items), NEW P \in SUBSET DOMAIN items
  PROVE  Types(Kept(items, P)) = Kept(Types(items), P)
<1> DEFINE N == Cardinality(P)
<1>1. \A n \in 1..N : Nth(P, n) \in DOMAIN items
  <2>1. /\ IsList(Kept(items, P)) /\ Len(Kept(items, P)) = N
        /\ \A n \in DOMAIN Kept(items, P) : Nth(P, n) \in P
    BY KeptInOrder
  <2> QED
    BY <2>1 DEF IsList
<1>2. Types(Kept(items, P)) = [n \in 1..N |-> items[Nth(P, n)].type]
  BY DEF Types, Kept
<1>3. Kept(Types(items), P) = [n \in 1..N |-> Types(items)[Nth(P, n)]]
  BY DEF Kept
<1>4. \A n \in 1..N : Types(items)[Nth(P, n)] = items[Nth(P, n)].type
  BY <1>1 DEF Types
<1> QED
  BY <1>2, <1>3, <1>4

\* The entries of a list the client sent.
LEMMA EntriesAreRecords ==
  ASSUME NEW items \in Seq(ListEntries)
  PROVE  /\ IsList(items)
         /\ \A i \in DOMAIN items : /\ DOMAIN items[i] = {"type", "fields"}
                                    /\ items[i].type # "<scalar>" /\ items[i] \in Range(items)
<1>1. IsList(items) /\ \A i \in DOMAIN items : items[i] \in ListEntries
  BY DEF IsList
<1>2. \A entry \in ListEntries : DOMAIN entry = {"type", "fields"} /\ entry.type # "<scalar>"
  BY DEF ListEntries
<1> QED
  BY <1>1, <1>2 DEF Range

(***************************************************************************)
(* The tools of a Responses request.                                       *)
(***************************************************************************)
LEMMA ResponsesToolsConform ==
  ASSUME NEW items \in Seq(ListEntries)
  PROVE  LET told == Kept(items, {i \in DOMAIN items :
                                    \/ items[i].type = Unreadable
                                    \/ items[i].type \in standardResponsesToolTypes})
             new == sanitizeResponsesTools(items)
         IN /\ DOMAIN new = DOMAIN told
            /\ \A i \in DOMAIN new : SearchTranslated(told[i], new[i])
<1> DEFINE P == {i \in DOMAIN items : \/ items[i].type = Unreadable
                                      \/ items[i].type \in standardResponsesToolTypes}
           Q == {i \in DOMAIN items : items[i].type \in standardResponsesToolTypes \cup {Unreadable}}
           told == Kept(items, P)
           new == sanitizeResponsesTools(items)
           searches(tool) == tool.type = "web_search" /\ "excluded_domains" \in tool.fields
<1>1. IsList(items) /\ \A i \in DOMAIN items : DOMAIN items[i] = {"type", "fields"}
  BY EntriesAreRecords
<1>2. P = Q /\ P \in SUBSET DOMAIN items
  OBVIOUS
<1>3. new = LET kept == Kept(items, Q)
            IN [i \in DOMAIN kept |->
                  IF searches(kept[i]) THEN renameExcludedDomains(kept[i]) ELSE kept[i]]
  BY DEF sanitizeResponsesTools
<1> HIDE DEF P, Q, new
<1>4. \A n \in DOMAIN told : \E i \in DOMAIN items : told[n] = items[i]
  BY <1>1, <1>2, KeptInOrder
<1>5. new = [i \in DOMAIN told |->
               IF searches(told[i]) THEN renameExcludedDomains(told[i]) ELSE told[i]]
  BY <1>2, <1>3
<1> HIDE DEF told
<1>6. ASSUME NEW tool, DOMAIN tool = {"type", "fields"}
      PROVE  SearchTranslated(tool, IF searches(tool) THEN renameExcludedDomains(tool) ELSE tool)
  <2>1. CASE searches(tool)
    <3>1. renameExcludedDomains(tool).type = tool.type
      BY <1>6 DEF renameExcludedDomains
    <3>2. renameExcludedDomains(tool).fields
            = (tool.fields \ {"excluded_domains"}) \cup {"blocked_domains"}
      BY <1>6 DEF renameExcludedDomains
    <3> QED
      BY <2>1, <3>1, <3>2 DEF SearchTranslated
  <2>2. CASE ~ searches(tool)
    BY <2>2 DEF SearchTranslated
  <2> QED
    BY <2>1, <2>2
<1> HIDE DEF searches
<1>7. DOMAIN new = DOMAIN told /\ \A i \in DOMAIN told : SearchTranslated(told[i], new[i])
  BY <1>1, <1>4, <1>5, <1>6
<1> QED
  BY <1>7 DEF new, told, P

\* Nothing is kept of nothing.
LEMMA NoEntries ==
  ASSUME NEW P, P \subseteq {}
  PROVE  Kept(<<>>, P) = <<>> /\ Types(<<>>) = <<>>
<1>1. P = {} /\ Cardinality(P) = 0
  BY FS_EmptySet
<1>2. Kept(<<>>, P) = [n \in 1..0 |-> <<>>[Nth(P, n)]]
  BY <1>1 DEF Kept
<1>3. Types(<<>>) = [i \in 1..0 |-> <<>>[i].type]
  BY DEF Types
<1>4. \A f : f = [n \in 1..0 |-> f[n]] => f \in [1..0 -> {}]
  OBVIOUS
<1>5. \A f \in [1..0 -> {}] : f = <<>>
  <2> TAKE f \in [1..0 -> {}]
  <2>1. f \in Seq({}) /\ Len(f) = 0
    BY FunctionIsSequence
  <2> QED
    BY <2>1, EmptyIsEmpty
<1> QED
  BY <1>2, <1>3, <1>4, <1>5

(***************************************************************************)
(* From what the upstream reads, the three parts of RewriteConforms.       *)
(***************************************************************************)
LEMMA IInvReads ==
  ASSUME IInv, Built
  PROVE  /\ adapter = "std" => StandardReads(before.members, after.members)
         /\ adapter = "ds" => DeepSeekReads(before.members, after.members)
         /\ adapter = "anth" => AnthropicReads(before.members, after.members)
<1>1. exchange \in Exchanges /\ sent.document = BuiltDocument(exchange)
  BY DEF IInv
<1> QED
  BY <1>1, UpstreamReads DEF adapter, before, after

\* The tools a request to Anthropic keeps are exactly those that are told of.
LEMMA AnthropicToolsTold ==
  ASSUME adapter = "anth", OldTools \in Seq(ListEntries)
  PROVE  dropUnnamedTools(OldTools) = ToolsTold
<1>1. {i \in DOMAIN OldTools : "name" \in OldTools[i].fields \/ OldTools[i].type = Unreadable}
        = {i \in DOMAIN OldTools :
             \/ OldTools[i].type = Unreadable
             \/ IF adapter = "anth" THEN "name" \in OldTools[i].fields
                ELSE OldTools[i].type \in standardResponsesToolTypes}
  OBVIOUS
<1> QED
  BY <1>1 DEF dropUnnamedTools, ToolsTold

\* Without tools there are none to tell of.
LEMMA NoToolsTold == OldTools = <<>> => ToolsTold = <<>>
<1> SUFFICES ASSUME OldTools = <<>>
             PROVE  ToolsTold = <<>>
  OBVIOUS
<1> DEFINE P == {i \in DOMAIN OldTools :
                   \/ OldTools[i].type = Unreadable
                   \/ IF adapter = "anth" THEN "name" \in OldTools[i].fields
                      ELSE OldTools[i].type \in standardResponsesToolTypes}
<1>1. P \subseteq {}
  OBVIOUS
<1>2. ToolsTold = Kept(<<>>, P)
  BY DEF ToolsTold
<1> HIDE DEF P
<1> QED
  BY <1>1, <1>2, NoEntries

\* The tools, with each adapter and with none in the document.
LEMMA IInvToolsConform ==
  ASSUME IInv, Built, adapter \in {"std", "ds", "anth"}
  PROVE  ToolsConform
<1>1. OldTools \in Seq(ListEntries) \cup {Scalar}
  BY ItemsAreRead DEF IInv, before, OldTools
<1>2. /\ adapter # "anth" => ToolsSeen(before.members, after.members)
      /\ adapter = "anth" => AnthropicReads(before.members, after.members)
  BY IInvReads DEF StandardReads, DeepSeekReads
<1>3. /\ ~ HasKey(before.members, "tools") => OldTools = <<>>
      /\ ~ HasKey(after.members, "tools") => NewTools = <<>>
      /\ HasKey(after.members, "tools") => HasKey(before.members, "tools")
  BY <1>2 DEF ItemsOf, OldTools, NewTools, ToolsSeen, AnthropicReads
<1>4. CASE ~ HasKey(before.members, "tools")
  <2>1. OldTools = <<>> /\ NewTools = <<>> /\ ToolsTold = <<>>
    BY <1>3, <1>4, NoToolsTold
  <2>2. NewTools = Arriving(ToolsTold)
    BY <2>1, RoundedNothing DEF Arriving
  <2>3. DOMAIN NewTools = {} /\ DOMAIN ToolsTold = {} /\ OldTools # Scalar
    BY <2>1 DEF Scalar
  <2> QED
    BY <2>2, <2>3 DEF ToolsConform
<1>5. CASE HasKey(before.members, "tools") /\ adapter # "anth"
  <2>1. NewTools = IF OldTools = Scalar THEN OldTools ELSE sanitizeResponsesTools(OldTools)
    BY <1>2, <1>5 DEF ToolsSeen, OldTools, NewTools
  <2>2. CASE OldTools = Scalar
    BY <2>1, <2>2 DEF ToolsConform
  <2>3. CASE OldTools # Scalar
    <3>1. NewTools = sanitizeResponsesTools(OldTools) /\ OldTools \in Seq(ListEntries)
      BY <1>1, <2>1, <2>3
    <3>2. ToolsTold = Kept(OldTools, {i \in DOMAIN OldTools :
                                        \/ OldTools[i].type = Unreadable
                                        \/ OldTools[i].type \in standardResponsesToolTypes})
      BY <1>5 DEF ToolsTold
    <3>3. /\ DOMAIN NewTools = DOMAIN ToolsTold
          /\ \A i \in DOMAIN NewTools : SearchTranslated(ToolsTold[i], NewTools[i])
      BY <3>1, <3>2, ResponsesToolsConform
    <3> QED
      BY <1>5, <2>3, <3>3 DEF ToolsConform
  <2> QED
    BY <2>2, <2>3
<1>6. CASE HasKey(before.members, "tools") /\ adapter = "anth"
  <2> DEFINE named == AnthropicTools(before.members)
  <2>1. /\ NewTools = IF named # OldTools THEN rounded(named) ELSE named
        /\ named = IF OldTools = Scalar THEN OldTools ELSE dropUnnamedTools(OldTools)
    BY <1>2, <1>6 DEF AnthropicReads, AnthropicTools, OldTools, NewTools
  <2> HIDE DEF named
  <2>2. CASE OldTools = Scalar
    BY <2>1, <2>2 DEF ToolsConform
  <2>3. CASE OldTools # Scalar
    <3>1. named = ToolsTold
      BY <1>1, <1>6, <2>1, <2>3, AnthropicToolsTold
    <3>2. ToolIsDropped <=> named # OldTools
      BY <1>6, <2>3, <3>1 DEF ToolIsDropped
    <3>3. NewTools = Arriving(ToolsTold)
      BY <2>1, <3>1, <3>2 DEF Arriving
    <3> QED
      BY <1>6, <2>3, <3>3 DEF ToolsConform
  <2> QED
    BY <2>2, <2>3
<1> QED
  BY <1>4, <1>5, <1>6

\* A list of a Responses request that becomes empty is left out.
LEMMA IInvNoListEmptied ==
  ASSUME IInv, Built, adapter \in {"std", "ds"}
  PROVE  NoListEmptied
<1>1. /\ ToolsSeen(before.members, after.members)
      /\ HasKey(after.members, "include") =>
           (ItemsOf(after.members, "include") = <<>> => ItemsOf(before.members, "include") = <<>>)
  BY IInvReads DEF StandardReads, DeepSeekReads
<1> QED
  BY <1>1 DEF NoListEmptied, ToolsSeen

\* The values of include that are standard are kept.
LEMMA IncludesConform ==
  ASSUME NEW items \in Seq(ListEntries)
  PROVE  LET new == sanitizeResponsesInclude(items)
             types == Types(items)
         IN /\ \A value \in Range(new) : value.type \in standardResponsesIncludeValues
            /\ Types(new) = Kept(types, {i \in DOMAIN types :
                                   types[i] \in standardResponsesIncludeValues \cup {"<scalar>"}})
<1> DEFINE P == {i \in DOMAIN items : items[i].type \in standardResponsesIncludeValues}
           types == Types(items)
           new == sanitizeResponsesInclude(items)
<1>1. new = Kept(items, P)
  BY DEF sanitizeResponsesInclude
<1>2. /\ IsList(items) /\ P \in SUBSET DOMAIN items
      /\ \A i \in DOMAIN items : items[i].type # "<scalar>"
  BY EntriesAreRecords
<1>3. P = {i \in DOMAIN types : types[i] \in standardResponsesIncludeValues \cup {"<scalar>"}}
  BY <1>2 DEF Types
<1>4. \A i \in P : items[i].type \in standardResponsesIncludeValues
  OBVIOUS
<1> HIDE DEF P, new
<1>5. \A n \in DOMAIN new : Nth(P, n) \in P /\ new[n] = items[Nth(P, n)]
  BY <1>1, <1>2, KeptInOrder
<1>6. \A value \in Range(new) : value.type \in standardResponsesIncludeValues
  BY <1>4, <1>5 DEF Range
<1>7. Types(new) = Kept(types, P)
  BY <1>1, <1>2, TypesAreKept
<1> QED
  BY <1>3, <1>6, <1>7 DEF new

\* A value of another shape counts as one entry, and stays.
LEMMA ScalarIsKept ==
  LET types == Types(Scalar)
  IN Types(Scalar) = Kept(types, {i \in DOMAIN types :
                            types[i] \in standardResponsesIncludeValues \cup {"<scalar>"}})
<1> DEFINE types == Types(Scalar)
<1>1. DOMAIN Scalar = {1} /\ Scalar[1].type = "<scalar>"
  BY DEF Scalar, Item
<1>2. {i \in DOMAIN types : types[i] \in standardResponsesIncludeValues \cup {"<scalar>"}} = {1}
  BY <1>1 DEF Types
<1>3. IsList(Scalar)
  BY DEF IsList, Scalar
<1>4. Types(Kept(Scalar, {1})) = Kept(types, {1})
  BY <1>1, <1>3, TypesAreKept
<1>5. Cardinality({1}) = 1
  BY FS_Singleton
<1>6. Kept(Scalar, {1}) = [n \in 1..1 |-> Scalar[Nth({1}, n)]]
  BY <1>5 DEF Kept
<1>7. Nth({1}, 1) = 1
  <2>1. 1 \in Nat /\ {1} \in SUBSET (1..1) /\ 1 \in 1..Cardinality({1})
    BY <1>5
  <2>2. Nth({1}, 1) \in {1}
    BY <2>1, NthIsThere
  <2> QED
    BY <2>2
<1>8. \A n \in 1..1 : Kept(Scalar, {1})[n] = Scalar[n]
  BY <1>6, <1>7
<1>9. DOMAIN Kept(Scalar, {1}) = 1..1 /\ DOMAIN Scalar = 1..1
  BY <1>1, <1>6
<1>10. Types(Kept(Scalar, {1})) = Types(Scalar)
  BY <1>8, <1>9 DEF Types
<1> QED
  BY <1>2, <1>4, <1>10

\* The effort that DeepSeek does not know, and the fields it does not accept.
LEMMA DeepSeekItems ==
  ASSUME NEW items \in Seq(ListEntries)
  PROVE  /\ \A item \in Range(mapDeepSeekReasoningEffort(items)) : item.type # "minimal"
         /\ \A item \in Range(stripUnsupportedReasoningFields(items)) :
              item.type = "reasoning" => item.fields \cap {"summary", "encrypted_content"} = {}
         /\ Len(stripUnsupportedReasoningFields(items)) = Len(items)
<1>1. /\ IsList(items)
      /\ \A i \in DOMAIN items : DOMAIN items[i] = {"type", "fields"}
  BY EntriesAreRecords
<1> DEFINE low(i) == IF items[i].type = "minimal" THEN [items[i] EXCEPT !.type = "low"]
                     ELSE items[i]
           few(i) == IF items[i].type = "reasoning"
                       THEN [items[i] EXCEPT !.fields = @ \ {"summary", "encrypted_content"}]
                       ELSE items[i]
<1>2. \A i \in DOMAIN items : low(i).type # "minimal"
  BY <1>1
<1>3. \A i \in DOMAIN items :
        few(i).type = "reasoning" => few(i).fields \cap {"summary", "encrypted_content"} = {}
  BY <1>1
<1>4. /\ mapDeepSeekReasoningEffort(items) = [i \in DOMAIN items |-> low(i)]
      /\ stripUnsupportedReasoningFields(items) = [i \in DOMAIN items |-> few(i)]
  BY DEF mapDeepSeekReasoningEffort, stripUnsupportedReasoningFields
<1> HIDE DEF low, few
<1>5. \A item \in Range([i \in DOMAIN items |-> low(i)]) : item.type # "minimal"
  BY <1>2 DEF Range
<1>6. \A item \in Range([i \in DOMAIN items |-> few(i)]) :
        item.type = "reasoning" => item.fields \cap {"summary", "encrypted_content"} = {}
  BY <1>3 DEF Range
<1>7. Len([i \in DOMAIN items |-> few(i)]) = Len(items)
  BY <1>1 DEF IsList
<1> QED
  BY <1>4, <1>5, <1>6, <1>7

\* What there is inside a missing value and inside a scalar.
LEMMA NothingInside ==
  /\ Range(<<>>) = {}
  /\ \A item \in Range(Scalar) : item.type = "<scalar>"
  /\ Scalar # <<>>
<1>1. Range(<<>>) = {}
  BY DEF Range
<1>2. \A item \in Range(Scalar) : item.type = "<scalar>"
  BY DEF Range, Scalar, Item
<1>3. Scalar # <<>>
  BY DEF Scalar
<1> QED
  BY <1>1, <1>2, <1>3

\* The reasoning, the input and the include values.
LEMMA IInvReasoningConforms ==
  ASSUME IInv, Built, adapter \in {"std", "ds"}
  PROVE  ReasoningConforms
<1> DEFINE Old(key) == ItemsOf(before.members, key)
           New(key) == ItemsOf(after.members, key)
           standard == standardResponsesIncludeValues
<1>1. \A key : Old(key) \in Seq(ListEntries) \cup {Scalar}
  BY ItemsAreRead DEF IInv, before
<1>2. /\ \A key : ~ HasKey(before.members, key) => Old(key) = <<>>
      /\ \A key : ~ HasKey(after.members, key) => New(key) = <<>>
  BY DEF ItemsOf
<1>3. ~ HasKey(after.members, "stream_tool_calls")
  BY IInvReads DEF StandardReads, DeepSeekReads
<1>4. CASE adapter = "std"
  <2>1. StandardReads(before.members, after.members)
    BY <1>4, IInvReads
  <2> DEFINE old == Old("include")
             new == New("include")
             types == Types(old)
  <2>2. HasKey(before.members, "include") =>
          new = IF old = Scalar THEN old ELSE sanitizeResponsesInclude(old)
    BY <2>1 DEF StandardReads
  <2>3. ~ HasKey(before.members, "include") => old = <<>> /\ new = <<>>
    BY <1>2, <2>1 DEF StandardReads
  <2>4. old \in Seq(ListEntries) \cup {Scalar}
    BY <1>1
  <2> DEFINE Conform == /\ \A value \in Range(new) : value \in Range(Scalar) \/ value.type \in standard
                        /\ Types(new) = Kept(types, {i \in DOMAIN types :
                                               types[i] \in standard \cup {"<scalar>"}})
  <2> HIDE DEF old, new
  <2>5. Conform
    <3>1. CASE ~ HasKey(before.members, "include")
      <4>1. old = <<>> /\ new = <<>> /\ types = <<>> /\ Types(new) = <<>>
        BY <2>3, <3>1, NoEntries
      <4> DEFINE P == {i \in DOMAIN types : types[i] \in standard \cup {"<scalar>"}}
      <4>2. P \subseteq {}
        BY <4>1
      <4> HIDE DEF P, types
      <4>3. Kept(types, P) = <<>>
        BY <4>1, <4>2, NoEntries
      <4> QED
        BY <4>1, <4>3, NothingInside DEF P
    <3>2. CASE HasKey(before.members, "include") /\ old = Scalar
      <4>1. new = Scalar
        BY <2>2, <3>2
      <4> QED
        BY <3>2, <4>1, ScalarIsKept
    <3>3. CASE HasKey(before.members, "include") /\ old # Scalar
      <4>1. new = sanitizeResponsesInclude(old) /\ old \in Seq(ListEntries)
        BY <2>2, <2>4, <3>3
      <4> QED
        BY <4>1, IncludesConform
    <3> QED
      BY <3>1, <3>2, <3>3
  <2> QED
    BY <1>3, <1>4, <2>5 DEF ReasoningConforms, old, new
<1>5. CASE adapter = "ds"
  <2>1. DeepSeekReads(before.members, after.members)
    BY <1>5, IInvReads
  <2>2. ~ HasKey(after.members, "include") /\ Range(New("include")) = {}
    BY <1>2, <2>1, NothingInside DEF DeepSeekReads
  <2> DEFINE oldR == Old("reasoning")
             newR == New("reasoning")
             oldI == Old("input")
             newI == New("input")
  <2>3. /\ HasKey(before.members, "reasoning") =>
             newR = IF oldR = Scalar THEN oldR ELSE mapDeepSeekReasoningEffort(oldR)
        /\ HasKey(before.members, "input") =>
             newI = IF oldI = Scalar THEN oldI ELSE stripUnsupportedReasoningFields(oldI)
        /\ ~ HasKey(before.members, "reasoning") => newR = <<>> /\ oldR = <<>>
        /\ ~ HasKey(before.members, "input") => newI = <<>> /\ oldI = <<>>
    BY <1>2, <2>1 DEF DeepSeekReads
  <2>4. /\ oldR \in Seq(ListEntries) \cup {Scalar}
        /\ oldI \in Seq(ListEntries) \cup {Scalar}
    BY <1>1
  <2> HIDE DEF oldR, newR, oldI, newI
  <2>5. \A item \in Range(newR) : item.type # "minimal"
    <3>1. CASE newR \in {<<>>, Scalar}
      BY <3>1, NothingInside
    <3>2. CASE newR = mapDeepSeekReasoningEffort(oldR) /\ oldR \in Seq(ListEntries)
      BY <3>2, DeepSeekItems
    <3> QED
      BY <2>3, <2>4, <3>1, <3>2
  <2>6. /\ \A item \in Range(newI) :
             item.type = "reasoning" => item.fields \cap {"summary", "encrypted_content"} = {}
        /\ Len(newI) = Len(oldI)
    <3>1. CASE newI \in {<<>>, Scalar} /\ newI = oldI
      BY <3>1, NothingInside
    <3>2. CASE newI = stripUnsupportedReasoningFields(oldI) /\ oldI \in Seq(ListEntries)
      BY <3>2, DeepSeekItems
    <3> QED
      BY <2>3, <2>4, <3>1, <3>2
  <2> QED
    BY <1>3, <1>5, <2>2, <2>5, <2>6 DEF ReasoningConforms, oldR, newR, oldI, newI
<1> QED
  BY <1>4, <1>5

\* All of it.
LEMMA IInvRewriteConforms == IInv => RewriteConforms
<1> SUFFICES ASSUME IInv, Built, adapter \in {"std", "ds", "anth"}
             PROVE  RewriteConforms
  BY DEF RewriteConforms
<1> DEFINE old == before.members
           new == after.members
           K == Edited \cup {"prompt_cache_key"}
<1> DEFINE Same == \A key : key \notin K =>
                     /\ HasKey(new, key) <=> HasKey(old, key)
                     /\ HasKey(old, key) => ItemsOf(new, key) = Arriving(ItemsOf(old, key))
<1>1. ASSUME adapter # "anth" PROVE Same
  <2>1. SameBut(K, old, new)
    BY <1>1, IInvReads DEF Edited, StandardReads, DeepSeekReads, SameBut
  <2>2. ~ ToolIsDropped
    BY <1>1 DEF ToolIsDropped
  <2> HIDE DEF old, new, K
  <2> QED
    BY <2>1, <2>2 DEF SameBut, Arriving
<1>2. ASSUME adapter = "anth" PROVE Same
  <2>1. AnthropicReads(old, new) /\ "tools" \in K
    BY <1>2, IInvReads DEF Edited
  <2>2. ToolIsDropped <=> AnthropicTools(old) # ItemsOf(old, "tools")
    <3>1. OldTools \in Seq(ListEntries) \cup {Scalar} /\ OldTools = ItemsOf(old, "tools")
      BY ItemsAreRead DEF IInv, before, OldTools
    <3> HIDE DEF old
    <3>2. CASE OldTools = Scalar
      BY <3>1, <3>2 DEF ToolIsDropped, AnthropicTools
    <3>3. CASE OldTools # Scalar
      BY <1>2, <3>1, <3>3, AnthropicToolsTold DEF ToolIsDropped, AnthropicTools
    <3> QED
      BY <3>2, <3>3
  <2> HIDE DEF old, new, K
  <2> QED
    BY <2>1, <2>2 DEF AnthropicReads, Arriving
<1>3. \A key : /\ key \in Keys(old) => HasKey(old, key)
               /\ key \in Keys(new) => HasKey(new, key)
  BY DEF Keys, HasKey
<1>4. Same
  BY <1>1, <1>2
<1> HIDE DEF old, new
<1>5. \A key \in (Keys(old) \cup Keys(new)) \ K :
        HasKey(new, key) /\ HasKey(old, key) /\ ItemsOf(new, key) = Arriving(ItemsOf(old, key))
  BY <1>3, <1>4
<1>6. ToolsConform /\ (adapter # "anth" => NoListEmptied /\ ReasoningConforms)
  BY IInvToolsConform, IInvReasoningConforms, IInvNoListEmptied
<1> QED
  BY <1>5, <1>6 DEF RewriteConforms, old, new

-------------------------------------------------------------------------------
(***************************************************************************)
(* A row shows a header unless it is a credential.                         *)
(***************************************************************************)
LEMMA RowHidesCredentials ==
  ASSUME NEW h, DOMAIN h = Names, NEW name \in Names
  PROVE  IF name \in {"authorization", "x-api-key", "cookie"}
           THEN sanitizeHeaders(h)[name] \in {None, Redacted}
           ELSE sanitizeHeaders(h)[name] = h[name]
  BY DEF sanitizeHeaders, SensitiveHeader, Credentials

\* The headers that are sent and those the row shows.
LEMMA IInvIsSafe == IInv => HeadersSafe
<1> SUFFICES ASSUME IInv, Built
             PROVE  HeadersSafe
  BY DEF HeadersSafe
<1> DEFINE c == exchange.client
           g == exchange.gateway.headers
           own == [name \in Names |-> Get(c, name)]
           h == buildUpstreamHeaders(c, g)
<1>1. g \in GatewayHeaders /\ (c.bearer => "authorization" \in c.names)
  BY ExchangesAssumption DEF IInv
<1>2. /\ sent.headers = h
      /\ row.upstream = sanitizeHeaders(h)
      /\ row.client = sanitizeHeaders(own)
  BY DEF IInv, Built
<1>3. /\ DOMAIN h = Names
      /\ \A name \in {"accept-encoding", "content-encoding", "content-length", "host",
                      "connection", "transfer-encoding"} : h[name] = None
      /\ \A name \in {"authorization", "x-api-key"} \cap c.names : h[name] = name
      /\ g.protocol = "anthropic" /\ c.bearer => h["x-api-key"] # None
      /\ g.protocol # "anthropic" => \A name \in AnthropicNames : h[name] = None
  BY <1>1, BuiltHeaders
<1>4. DOMAIN own = Names /\ \A name \in Names : own[name] = Get(c, name)
  OBVIOUS
<1> HIDE DEF h, own
<1>5. \A name \in Names :
        IF name \in {"authorization", "x-api-key", "cookie"}
          THEN {row.client[name], row.upstream[name]} \subseteq {None, Redacted}
          ELSE row.client[name] = Get(c, name) /\ row.upstream[name] = sent.headers[name]
  BY <1>2, <1>3, <1>4, RowHidesCredentials
<1> QED
  BY <1>2, <1>3, <1>5 DEF HeadersSafe, client, protocol

-------------------------------------------------------------------------------
\* Both inductive invariants of an exchange.
LEMMA ExchangeInvariant == Spec => [](IInv /\ AnswerInv)
<1>1. Spec => []IInv
  BY InitIInv, NextIInv, PTL DEF Spec
<1>2. Spec => []AnswerInv
  BY InitAnswerInv, NextAnswerInv, PTL DEF Spec
<1> QED
  BY <1>1, <1>2, PTL

(***************************************************************************)
(* For every gateway, allowlist and client: no header that negotiates      *)
(* encodings or connections is sent, an authorization or x-api-key header  *)
(* of the client's arrives as it was, a bearer token also as x-api-key if  *)
(* the gateway speaks Anthropic's protocol, no Anthropic header reaches    *)
(* another protocol, and the row shows every header, credentials only as   *)
(* redacted (buildUpstreamHeaders, headersJSON).                           *)
(***************************************************************************)
THEOREM HeadersAreSafe == Spec => []HeadersSafe
  BY ExchangeInvariant, IInvIsSafe, PTL

(***************************************************************************)
(* Whatever header the client names its session in: the upstream sees that *)
(* session in every header of the gateway's affinity and as the key of its *)
(* prompt cache, unless the client says otherwise there; an OpenCode       *)
(* upstream always sees one, invented only for a client that names none    *)
(* (applySessionAffinity, resolveOpenCodeSessionID, injectPromptCacheKey). *)
(***************************************************************************)
THEOREM SessionsReach == Spec => []SessionReachesUpstream
  BY ExchangeInvariant, IInvReaches, PTL

(***************************************************************************)
(* For documents of any number of members and entries, keys that occur     *)
(* twice among them: what the upstream reads differs from what the client  *)
(* wrote only where the dialect demands it, except that the numbers of a   *)
(* request to Anthropic from which a tool is dropped have been float64     *)
(* (sanitizeResponsesRequest, adaptResponsesRequestForDeepSeek,            *)
(* sanitizeAnthropicRequest).                                              *)
(***************************************************************************)
THEOREM RewritesConform == Spec => []RewriteConforms
  BY ExchangeInvariant, IInvRewriteConforms, PTL

(***************************************************************************)
(* For histories of any length: a chat upstream is told of every whole     *)
(* call, of every answer to one, and of no other                           *)
(* (sanitizeSenseNovaToolCallHistory, transformToolCallType).              *)
(***************************************************************************)
THEOREM HistoriesAreClosed == Spec => []ToolHistoryClosed
  BY ExchangeInvariant, IInvIsClosed, PTL

(***************************************************************************)
(* For answers of any number of chunks: the tool call the client puts      *)
(* together has the identity the upstream told last                        *)
(* (transformSenseNovaPayload).                                            *)
(***************************************************************************)
THEOREM CallsKeepIdentity == Spec => []ToolCallKeepsIdentity
  BY ExchangeInvariant, AnswerInvKeepsIdentity, PTL

(***************************************************************************)
(* For all counts, in every dialect: the row counts every token of the     *)
(* last usage once, in its column (extractUsageFromRoot).                  *)
(***************************************************************************)
THEOREM UsageIsCounted == Spec => []UsageIsTruth
  BY ExchangeInvariant, AnswerInvIsTruth, PTL
===============================================================================
