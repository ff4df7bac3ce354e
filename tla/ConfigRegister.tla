----------------------------- MODULE ConfigRegister -----------------------------
(***************************************************************************)
(* What the configuration store promises: one configuration that only ever *)
(* changes by one accepted management request applied to it, whatever runs *)
(* concurrently, fails half way or crashes. A user agent or an affinity    *)
(* that counts as left out is replaced by the default of this build.       *)
(* ConfigStore implements it.                                              *)
(***************************************************************************)
EXTENDS GatewayConfigs

CONSTANT InitialFiles  \* what may be on disk when the program is first started

VARIABLE conf

Init == conf \in {LoadConfig(f) : f \in InitialFiles}

Update == \E op \in Ops : /\ Admissible(op)
                          /\ Accepts(op, conf)
                          /\ conf' = Reloaded(Apply(op, conf))

SafetySpec == Init /\ [][Update]_conf
===============================================================================
