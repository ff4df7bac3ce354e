-------------------------------- MODULE Routing --------------------------------
(***************************************************************************)
(* How a request finds its gateway while the configuration changes:        *)
(* ServeHTTP and the management handlers of internal/web/app.go,           *)
(* sameOriginGuard of middleware.go, MatchGateway of config.go,            *)
(* resolveGateway, ClientFor and SetProxyURL of internal/proxy/proxy.go.   *)
(*                                                                         *)
(* A request looks its gateway up twice: to be routed, and again when its  *)
(* body has been read. What it finds then it keeps; the client it is sent  *)
(* with is chosen later still. An id stands for the paths under its        *)
(* prefix: every prefix is the id after a slash (the built-in ones too),   *)
(* so no path has two gateways.                                            *)
(*                                                                         *)
(* Several management requests are under way at once. A change is one      *)
(* step, for its save is under the lock (ConfigStore has them apart, and   *)
(* failing); the one of the proxy URL reads the URL back and installs the  *)
(* clients in steps of their own, between which others may come.           *)
(***************************************************************************)
EXTENDS Naturals, FiniteSets

CONSTANTS Builtins,   \* ids of the gateways that are always there
          Customs,    \* ids a user may add
          Reserved,   \* ids of console paths served after the gateways: /ui, /static
          Settings,   \* what a gateway can be set to
          Added,      \* the settings a gateway is added with
          Initial,    \* the gateways the program starts with, by id
          ProxyURLs,
          DefaultProxy, \* the proxy URL at the start
          NoBase,     \* the base URL is empty
          Direct,     \* a request or probe does not use the proxy
          Managers,   \* management requests under way at a time
          Requests,   \* requests of clients
          MaxChanges, \* bound: changes of the configuration
          MaxServed   \* bound: requests that come, tests of HealthProbe included

Ids == Builtins \cup Customs \cup Reserved

ASSUME RoutingAssumption ==
  /\ Added \subseteq Settings
  /\ Builtins \subseteq DOMAIN Initial /\ DOMAIN Initial \subseteq Builtins \cup Customs
  /\ \A i \in DOMAIN Initial : Initial[i] \in Settings
  /\ Reserved \cap (Builtins \cup Customs) = {}
  /\ DefaultProxy \in ProxyURLs
  /\ Direct \notin ProxyURLs
  /\ MaxChanges \in Nat /\ MaxServed \in Nat

VARIABLES conf,       \* the configuration in force: its gateways, its proxy URL
          installed,  \* the proxy URL the clients were built with
          manager,    \* where each change of the proxy URL is; the URL it replaced
          changes,    \* how many changes there were
          served,     \* how many requests came
          req,        \* the clients' requests
          inForce,    \* what has been in force while a request was served
          shared,     \* the changes of the proxy URL that met another one
          raced       \* the clients in use come from one of those

management == <<conf, installed, manager, changes, shared, raced>>
routing == <<management, served, req, inForce>>
-------------------------------------------------------------------------------
RoutingInit ==
  /\ conf = [gateways |-> Initial, proxy |-> DefaultProxy]
  /\ installed = conf.proxy
  /\ manager = [m \in Managers |-> [at |-> "idle"]]
  /\ changes = 0
  /\ shared = {} /\ raced = FALSE
  /\ served = 0
  /\ req = [r \in Requests |-> [at |-> "none"]]
  /\ inForce = [r \in Requests |-> {}]

(***************************************************************************)
(* The managers. What they do to the gateways is done with the commit.     *)
(***************************************************************************)
AddGateway(gateways, i, s) == [j \in DOMAIN gateways \cup {i} |->
                                 IF j = i THEN s ELSE gateways[j]]

PatchGateway(gateways, i, s) == [gateways EXCEPT ![i] = s]

DeleteGateway(gateways, i) == [j \in DOMAIN gateways \ {i} |-> gateways[j]]

\* No gateway takes a path of the console.
ValidateConfig(gateways) == Reserved \cap DOMAIN gateways = {}

Changed ==
  {AddGateway(conf.gateways, i, s) : i \in Ids \ DOMAIN conf.gateways, s \in Added}
    \cup {PatchGateway(conf.gateways, i, s) : i \in DOMAIN conf.gateways, s \in Settings}
    \cup {DeleteGateway(conf.gateways, i) : i \in DOMAIN conf.gateways \ Builtins}

commit(new) == /\ changes < MaxChanges
               /\ changes' = changes + 1
               /\ conf' = new
               /\ inForce' = [r \in Requests |->
                                IF req[r].at \in {"read", "send"}
                                  THEN inForce[r] \cup {new}
                                  ELSE inForce[r]]
               /\ UNCHANGED <<installed, served, req, raced>>

\* A change to what the gateways are already is left out.
ChangeGateways == /\ \E gateways \in Changed \ {conf.gateways} :
                       /\ ValidateConfig(gateways)
                       /\ commit([conf EXCEPT !.gateways = gateways])
                  /\ UNCHANGED <<manager, shared>>

\* Committed, and not installed yet.
Pending == {m \in Managers : manager[m].at \in {"read", "install"}}

PatchProxy(m) == /\ manager[m].at = "idle"
                 /\ \E u \in ProxyURLs : commit([conf EXCEPT !.proxy = u])
                 /\ manager' = [manager EXCEPT ![m] = [at |-> "read", was |-> conf.proxy]]
                 /\ shared' = IF Pending = {} THEN {} ELSE Pending \cup {m}

\* The argument of SetProxyURL: the URL is read back from the configuration.
ReadURL(m) == /\ manager[m].at = "read"
              /\ manager' = [manager EXCEPT ![m] = [at |-> "install", was |-> @.was,
                                                     url |-> conf.proxy]]
              /\ UNCHANGED <<conf, installed, changes, served, req, inForce, shared,
                             raced>>

\* m has built its clients, and no other change is to be met.
installs(m) == /\ manager[m].at = "install"
               /\ manager' = [manager EXCEPT ![m] = [at |-> "answer", was |-> @.was]]
               /\ shared' = shared \ {m}
               /\ UNCHANGED <<conf, changes, served, req, inForce>>

\* Mutant of SetProxyURL: the clients stay.
KeepClients(m) == installs(m) /\ UNCHANGED <<installed, raced>>

SetProxyURL(m) == /\ installs(m)
                  /\ installed' = manager[m].url
                  /\ raced' = (m \in shared)

Answer(m) == /\ manager[m].at = "answer"
             /\ manager' = [manager EXCEPT ![m] = [at |-> "idle"]]
             /\ UNCHANGED <<conf, installed, changes, served, req, inForce, shared, raced>>
-------------------------------------------------------------------------------
\* Mutant of MatchGateway: the table of the start.
MatchInitial(i) == {s \in Settings : i \in DOMAIN Initial /\ s = Initial[i]}

\* What the path's gateway is set to, if there is one.
MatchGateway(i) == {s \in Settings : i \in DOMAIN conf.gateways
                                       /\ s = conf.gateways[i]}

ClientFor(s) == IF s.useProxy THEN installed ELSE Direct

(***************************************************************************)
(* A client's request: a POST of another site; one that fits, with a path  *)
(* the adapter accepts and a body valid for it; or one that does not. The  *)
(* way its handler ends is its status; only one that is sent has found its *)
(* gateway's settings and a client.                                        *)
(***************************************************************************)
ended(q, status) == [at |-> "done", to |-> q.to, kind |-> q.kind, status |-> status]

\* What may still be met: the proxy of before a change that is not answered.
Current == {conf} \cup {[conf EXCEPT !.proxy = manager[m].was] :
                          m \in {n \in Managers : manager[n].at # "idle"}}

\* The request comes and is routed.
ServeHTTP(r) ==
  /\ req[r].at = "none"
  /\ served < MaxServed
  /\ served' = served + 1
  /\ \E q \in [to : Ids, kind : {"crossSite", "fits", "unfit"}] :
       req' = [req EXCEPT ![r] =
                 CASE MatchGateway(q.to) = {} -> ended(q, "console")
                   [] MatchGateway(q.to) # {} /\ q.kind = "crossSite" -> ended(q, "forbidden")
                   [] OTHER -> [at |-> "read", to |-> q.to, kind |-> q.kind]]
  /\ inForce' = [inForce EXCEPT ![r] = Current]
  /\ UNCHANGED management

end(r, status) == req' = [req EXCEPT ![r] = ended(@, status)]

\* The body has been read: resolveGateway, then buildUpstreamRequest.
Resolve(r) ==
  /\ req[r].at = "read"
  /\ \/ MatchGateway(req[r].to) = {} /\ end(r, "unknown")
     \/ \E s \in MatchGateway(req[r].to) :
          \/ ~s.enabled /\ end(r, "disabled")
          \/ s.enabled /\ req[r].kind = "unfit" /\ end(r, "unfit")
          \/ s.enabled /\ req[r].kind = "fits" /\ s.base = NoBase /\ end(r, "unset")
          \/ /\ s.enabled /\ req[r].kind = "fits" /\ s.base # NoBase
             /\ req' = [req EXCEPT ![r] = [at |-> "send", to |-> @.to,
                                           kind |-> @.kind, found |-> s]]
  /\ UNCHANGED <<management, served, inForce>>

Send(r) ==
  /\ req[r].at = "send"
  /\ req' = [req EXCEPT ![r] = [at |-> "done", to |-> @.to,
                                kind |-> @.kind,
                                status |-> "sent", found |-> @.found,
                                via |-> ClientFor(@.found), raced |-> raced]]
  /\ UNCHANGED <<management, served, inForce>>
-------------------------------------------------------------------------------
Manage(m) == ReadURL(m) \/ SetProxyURL(m) \/ Answer(m)
Serve(r) == ServeHTTP(r) \/ Resolve(r) \/ Send(r)

RoutingNext == \/ ChangeGateways
               \/ \E m \in Managers : PatchProxy(m) \/ Manage(m)
               \/ \E r \in Requests : Serve(r)
-------------------------------------------------------------------------------
(***************************************************************************)
(* What becomes of request q if all of it happens under configuration c.   *)
(***************************************************************************)
Sent(c, q) == /\ q.kind = "fits"
              /\ q.to \in DOMAIN c.gateways \ Reserved
              /\ c.gateways[q.to].enabled /\ c.gateways[q.to].base # NoBase

\* The first obstacle decides.
Refused(c, q) == IF q.to \notin DOMAIN c.gateways \ Reserved THEN {"console", "unknown"}
                 ELSE IF q.kind = "crossSite" THEN {"forbidden"}
                 ELSE IF ~c.gateways[q.to].enabled THEN {"disabled"}
                 ELSE IF q.kind = "unfit" THEN {"unfit"}
                 ELSE {"unset"}

(***************************************************************************)
(* A request ends as one single configuration has it, one that was in      *)
(* force while it was served: after a change is answered nothing newly     *)
(* asked follows what was before, and the two lookups never mix two        *)
(* configurations. The console's own paths stay the console's (app.go:195- *)
(* 230, proxy.go:193-222, config.go:423-427).                              *)
(***************************************************************************)
AnsweredAsConfigured ==
  \A r \in Requests : req[r].at = "done" =>
    \E c \in inForce[r] :
      IF req[r].status = "sent"
        THEN Sent(c, req[r]) /\ req[r].found = c.gateways[req[r].to]
        ELSE ~Sent(c, req[r]) /\ req[r].status \in Refused(c, req[r])

(***************************************************************************)
(* What is sent goes through a proxy that was configured while the request *)
(* was served, or through none if its gateway is to use none: once a new   *)
(* proxy URL is answered for, no later request uses the old one            *)
(* (app.go:424-432, proxy.go:259-304). The exception is the code's: of two *)
(* changes of the URL that meet, the one that read it first may install    *)
(* last, and its clients stay until the next change.                       *)
(***************************************************************************)
SentAsConfigured ==
  \A r \in Requests : req[r].at = "done" /\ req[r].status = "sent" =>
    IF req[r].found.useProxy
      THEN (\E c \in inForce[r] : req[r].via = c.proxy) \/ req[r].raced
      ELSE req[r].via = Direct
===============================================================================
