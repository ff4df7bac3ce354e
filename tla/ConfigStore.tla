------------------------------- MODULE ConfigStore -------------------------------
(***************************************************************************)
(* The configuration in memory, the file it is saved to, and the clients   *)
(* built from its proxy URL: the commit and rollback of config.go, the     *)
(* handlers of app.go that drive them concurrently, the start of main.go,  *)
(* and a crash at any point.                                               *)
(*                                                                         *)
(* Everything between taking Config.mu and giving it back is invisible to  *)
(* the others, so a handler has three steps there: commit in memory, and   *)
(* then either the rename that publishes the file or the failure of any    *)
(* part of the save. A temporary file that a crash leaves behind is never  *)
(* read. Reading the URL back and installing the clients built from it are *)
(* steps of their own, outside the lock.                                   *)
(***************************************************************************)
EXTENDS GatewayConfigs

CONSTANTS Handlers,      \* management requests being served
          InitialFiles,  \* what may be on disk when the program is first started
          NoOne,         \* Config.mu is free
          Nothing        \* no value

ASSUME StoreAssumption ==
  /\ \A f \in InitialFiles \ {NoFile} : \E S \in SUBSET Ids : f \in Listing(S)
  /\ \A f \in InitialFiles : Loadable(f)
  /\ \A S \in SUBSET Ids : NoFile \notin Listing(S)
  /\ NoOne \notin Handlers

VARIABLES up,         \* the program runs
          file,       \* data/config.json
          mem,        \* the Config in memory
          old,        \* what a commit would roll back to
          holder,     \* the handler that holds Config.mu
          pc,         \* where each handler is
          op,         \* the request each handler serves
          url,        \* the proxy URL it read back
          installed   \* the proxy URL the upstream clients were built with

vars == <<up, file, mem, old, holder, pc, op, url, installed>>
-------------------------------------------------------------------------------
nobody == [h \in Handlers |-> Nothing]
allIdle == [h \in Handlers |-> "idle"]

Init == /\ up = FALSE
        /\ file \in InitialFiles
        /\ mem = Nothing
        /\ old = Nothing
        /\ holder = NoOne
        /\ pc = allIdle
        /\ op = nobody
        /\ url = nobody
        /\ installed = Nothing

(***************************************************************************)
(* main: load, save what the load had to change, build the clients. A save *)
(* that fails, like a crash before the program serves, leaves it down.     *)
(***************************************************************************)
saveLoaded == file' = IF ShouldPersist(file) THEN LoadConfig(file) ELSE file

Start == /\ ~up
         /\ saveLoaded
         /\ up' = TRUE
         /\ mem' = LoadConfig(file)
         /\ installed' = LoadConfig(file).proxy
         /\ UNCHANGED <<old, holder, pc, op, url>>

StartFails == /\ ~up
              /\ saveLoaded
              /\ UNCHANGED <<up, mem, old, holder, pc, op, url, installed>>

Crash == /\ up
         /\ up' = FALSE
         /\ mem' = Nothing
         /\ old' = Nothing
         /\ holder' = NoOne
         /\ pc' = allIdle
         /\ op' = nobody
         /\ url' = nobody
         /\ installed' = Nothing
         /\ UNCHANGED file
-------------------------------------------------------------------------------
(***************************************************************************)
(* One management request. One that is refused without the lock changes    *)
(* nothing and is left out.                                                *)
(***************************************************************************)
Receive(h) ==
  /\ up
  /\ pc[h] = "idle"
  /\ \E o \in Ops : /\ Admissible(o)
                    /\ op' = [op EXCEPT ![h] = o]
  /\ pc' = [pc EXCEPT ![h] = "lock"]
  /\ UNCHANGED <<up, file, mem, old, holder, url, installed>>

finish(h) == /\ pc' = [pc EXCEPT ![h] = "idle"]
             /\ op' = [op EXCEPT ![h] = Nothing]
             /\ url' = [url EXCEPT ![h] = Nothing]

Refuse(h) ==
  /\ pc[h] = "lock"
  /\ holder = NoOne
  /\ ~Accepts(op[h], mem)
  /\ finish(h)
  /\ UNCHANGED <<up, file, mem, old, holder, installed>>

\* Mutant of Commit: the copy that is saved has the proxy URL the clients
\* were built with, which another request may be about to replace.
CommitStaleCopy(h) ==
  /\ pc[h] = "lock"
  /\ holder = NoOne
  /\ Accepts(op[h], mem)
  /\ holder' = h
  /\ old' = mem
  /\ mem' = Apply(op[h], [mem EXCEPT !.proxy = installed])
  /\ pc' = [pc EXCEPT ![h] = "save"]
  /\ UNCHANGED <<up, file, op, url, installed>>

Commit(h) ==
  /\ pc[h] = "lock"
  /\ holder = NoOne
  /\ Accepts(op[h], mem)
  /\ holder' = h
  /\ old' = mem
  /\ mem' = Apply(op[h], mem)
  /\ pc' = [pc EXCEPT ![h] = "save"]
  /\ UNCHANGED <<up, file, op, url, installed>>

\* Mutant of Save: a new proxy URL is saved and nothing more.
SaveOnly(h) ==
  /\ pc[h] = "save"
  /\ file' = mem
  /\ old' = Nothing
  /\ holder' = NoOne
  /\ finish(h)
  /\ UNCHANGED <<up, mem, installed>>

\* The rename succeeds, the lock is given back, and the request is answered
\* unless the handler still has clients to install.
Save(h) ==
  /\ pc[h] = "save"
  /\ file' = mem
  /\ old' = Nothing
  /\ holder' = NoOne
  /\ \/ /\ op[h].kind = "proxy"
        /\ pc' = [pc EXCEPT ![h] = "read"]
        /\ UNCHANGED <<op, url>>
     \/ /\ op[h].kind # "proxy"
        /\ finish(h)
  /\ UNCHANGED <<up, mem, installed>>

\* Mutant of SaveFails: no rollback.
SaveFailsKeepingChange(h) ==
  /\ pc[h] = "save"
  /\ old' = Nothing
  /\ holder' = NoOne
  /\ finish(h)
  /\ UNCHANGED <<up, file, mem, installed>>

SaveFails(h) ==
  /\ pc[h] = "save"
  /\ mem' = old
  /\ old' = Nothing
  /\ holder' = NoOne
  /\ finish(h)
  /\ UNCHANGED <<up, file, installed>>

\* a.config.ProxyURL() takes the read lock.
ReadProxyURL(h) ==
  /\ pc[h] = "read"
  /\ holder = NoOne
  /\ url' = [url EXCEPT ![h] = mem.proxy]
  /\ pc' = [pc EXCEPT ![h] = "install"]
  /\ UNCHANGED <<up, file, mem, old, holder, op, installed>>

\* Proxy.SetProxyURL: all four clients change under one lock.
Install(h) ==
  /\ pc[h] = "install"
  /\ installed' = url[h]
  /\ finish(h)
  /\ UNCHANGED <<up, file, mem, old, holder>>
-------------------------------------------------------------------------------
HandlerStep(h) == \/ Receive(h)
                  \/ Refuse(h)
                  \/ Commit(h)
                  \/ Save(h)
                  \/ SaveFails(h)
                  \/ ReadProxyURL(h)
                  \/ Install(h)

Next == \/ Start
        \/ StartFails
        \/ Crash
        \/ \E h \in Handlers : HandlerStep(h)

SafetySpec == Init /\ [][Next]_vars
-------------------------------------------------------------------------------
(***************************************************************************)
(* Type invariant. A configuration in memory has every built-in gateway    *)
(* and passed the validation; the mutex is held exactly by the handler     *)
(* that saves (config.go:597-649, 659-743).                                *)
(***************************************************************************)
Running == {c \in Config : Builtins \subseteq DOMAIN c.gateways /\ ValidateConfig(c)}

TypeOK ==
  /\ up \in BOOLEAN
  /\ file \in File \cup {NoFile}
  /\ IF up THEN mem \in Running ELSE mem = Nothing
  /\ holder \in Handlers \cup {NoOne}
  /\ IF holder = NoOne THEN old = Nothing ELSE old \in Running
  /\ pc \in [Handlers -> {"idle", "lock", "save", "read", "install"}]
  /\ op \in [Handlers -> Ops \cup {Nothing}]
  /\ url \in [Handlers -> ProxyURLs \cup {Nothing}]
  /\ ~up => \A h \in Handlers : pc[h] = "idle"
  /\ \A h \in Handlers : /\ pc[h] = "save" <=> holder = h
                         /\ pc[h] # "idle" => op[h] \in Ops /\ Admissible(op[h])
                         /\ pc[h] = "install" => url[h] \in ProxyURLs
  /\ installed \in ProxyURLs \cup {Nothing}

(***************************************************************************)
(* The program never writes a file that it would refuse to start with,     *)
(* although the file is judged after built-in gateways, defaults and       *)
(* removed gateways are merged in (config.go:311-313 against 339-389).     *)
(***************************************************************************)
FileLoadable == Loadable(file)

(***************************************************************************)
(* Outside a commit, what was saved of the gateways and the proxy URL and  *)
(* what is in force of them agree, also after a save that failed half way  *)
(* (config.go:720-726, 736-742). A restart loads the configuration that    *)
(* runs, except for a user agent that is empty or grok-gateway-proxy/dev   *)
(* and an affinity that is empty, which it replaces by the defaults        *)
(* (config.go:278-280, 291-293, 300-305). That changes what requests are   *)
(* served with only for a gateway that overrides the client's user agent   *)
(* by grok-gateway-proxy/dev (config.go:404-406, proxy.go:252-254).        *)
(***************************************************************************)
OverridesByDev(g) == g.override = "on" /\ g.agent = "dev"

SavedIsRunning ==
  up /\ holder = NoOne =>
    /\ LoadConfig(file) = Reloaded(mem)
    /\ \A i \in DOMAIN mem.gateways :
         \/ InForce(LoadConfig(file).gateways[i]) = InForce(mem.gateways[i])
         \/ OverridesByDev(mem.gateways[i])

(***************************************************************************)
(* No request, failure or restart makes two gateways share a client model  *)
(* key if they did not before; a file that has such gateways may be loaded *)
(* (config.go:501-511, 717-719, 736-738).                                  *)
(***************************************************************************)
KeysStayDistinct ==
  [][ValidateGatewayModelKeys(LoadConfig(file))
       => ValidateGatewayModelKeys(LoadConfig(file'))]_vars

(***************************************************************************)
(* The file, as LoadConfig reads it, only changes by one accepted request  *)
(* applied to what it held and loaded again: no concurrent update is lost  *)
(* and no crash or failure leaves a mixture (config.go:263-305, 597-743).  *)
(***************************************************************************)
Register == INSTANCE ConfigRegister WITH conf <- LoadConfig(file)
ImplementsRegister == Register!SafetySpec
===============================================================================
