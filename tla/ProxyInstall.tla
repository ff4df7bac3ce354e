------------------------------ MODULE ProxyInstall ------------------------------
(***************************************************************************)
(* What concurrent changes of the proxy URL do to the upstream clients.    *)
(* patchProxy saves the URL, reads it back and has the clients built from  *)
(* it, in three steps without a common lock (internal/web/app.go:418-435), *)
(* so that of two such requests the one that read first can install last.  *)
(* ConfigStore has the steps; here two histories are added to it that say  *)
(* when this may have happened.                                            *)
(***************************************************************************)
EXTENDS ConfigStore

VARIABLES shared,  \* the changes of the proxy URL that met another one
          raced    \* the clients in use come from one of those

history == <<shared, raced>>
-------------------------------------------------------------------------------
\* h is between its commit of a proxy URL and its answer.
Changing(h) == pc[h] \in {"save", "read", "install"} /\ op[h].kind = "proxy"

InstallInit == Init /\ shared = {} /\ raced = FALSE

Met == {h \in Handlers : Changing(h)' /\ \E g \in Handlers \ {h} : Changing(g)'}

\* The handlers that install in this step.
Installing == {h \in Handlers : pc[h] = "install" /\ pc'[h] = "idle"}

InstallNext ==
  /\ Next
  /\ shared' = Met \cup {h \in shared : Changing(h)'}
  /\ raced' = (up' /\ IF Installing = {} THEN raced ELSE Installing \cap shared # {})

InstallSpec == InstallInit /\ [][InstallNext]_<<vars, history>>
-------------------------------------------------------------------------------
(***************************************************************************)
(* With no change of the proxy URL under way, the clients use the          *)
(* configured proxy, after any failed save or restart too. The exception   *)
(* is the code's: they may keep the URL that was replaced if the change    *)
(* that installed them met another one (app.go:424-432, proxy.go:263-275). *)
(***************************************************************************)
InstalledUnlessRaced ==
  up /\ (\A h \in Handlers : ~Changing(h)) => installed = mem.proxy \/ raced
===============================================================================
