----------------------------- MODULE MCConfigStore -----------------------------
(***************************************************************************)
(* A small instance of ProxyInstall: two requests at a time on one         *)
(* built-in gateway, one that can be added and one of a removed build. The *)
(* initial files: none, a complete one with fields left out and a user     *)
(* agent that overrides, and one that lists the removed gateway. OldFile   *)
(* was written by a build that did not have the built-in gateway, whose    *)
(* default name a user's gateway bears. A patch changes one field, or two  *)
(* that meet in a rule.                                                    *)
(***************************************************************************)
EXTENDS ProxyInstall, TLC

CONSTANTS h1, h2

MCHandlers == {h1, h2}
MCSymmetry == Permutations(MCHandlers)

MCBuiltins == {"ds"}
MCCustoms == {"team"}
MCLegacy == {"oc"}
MCKeys == {"ds-model", "team-model"}
MCOwnKey == [i \in MCBuiltins \cup MCCustoms \cup MCLegacy |->
               IF i = "ds" THEN "ds-model" ELSE "team-model"]
MCOwnBase == [i \in MCBuiltins |-> "https"]
MCProxyURLs == {"none", "proxy"}

\* A gateway as a file has it, with the settings that are not under test.
Stored(key, base) ==
  [key |-> key, base |-> base, agent |-> "none", override |-> "off", affinity |-> "none"]

CompleteFile == [gateways |-> [i \in MCBuiltins |->
                                 [Stored(Missing, "none") EXCEPT !.agent = "other",
                                                                 !.override = "on"]],
                 proxy |-> "proxy"]
FileOfRemovedBuild ==
  [gateways |-> [i \in MCBuiltins \cup MCLegacy |->
                   [Stored("ds-model", Missing) EXCEPT !.agent = "dev", !.affinity = "off"]],
   proxy |-> "none"]
OldFile == [gateways |-> [i \in MCCustoms |-> Stored("ds-model", "https")],
            proxy |-> "none"]

MCFiles == {NoFile, CompleteFile, FileOfRemovedBuild, OldFile}

Patch(id) == [kind |-> "patch", id |-> id, key |-> Missing, base |-> Missing,
              agent |-> Missing, override |-> Missing, affinity |-> Missing]

MCOps ==
  {[kind |-> "add", id |-> "team", key |-> k, base |-> "https"] : k \in {"ds-model", Missing}}
    \cup {[kind |-> "add", id |-> i, key |-> Missing, base |-> "http"] : i \in {"team", "oc"}}
    \cup {[kind |-> "delete", id |-> i] : i \in {"ds", "team"}}
    \cup {[kind |-> "proxy", url |-> u] : u \in {"none", "proxy", "bad"}}
    \cup {[Patch("ds") EXCEPT !.key = "team-model"],
          [Patch("ds") EXCEPT !.key = "ds-model", !.base = "http"],
          [Patch("ds") EXCEPT !.agent = "dev", !.override = "on"],
          [Patch("ds") EXCEPT !.agent = "none"],
          [Patch("ds") EXCEPT !.override = "off", !.affinity = "none"],
          [Patch("ds") EXCEPT !.override = "on"],
          [Patch("ds") EXCEPT !.affinity = "bad"],
          [Patch("team") EXCEPT !.key = "ds-model", !.agent = "blank"]}
===============================================================================
