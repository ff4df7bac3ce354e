----------------------------- MODULE MCConsolePage -----------------------------
(***************************************************************************)
(* A small instance of ConsolePage: one page, two changes, two loads under *)
(* way at a time, two loads of the user's (or events without news), one    *)
(* broken stream. Pages do not meet, so one is enough.                     *)
(***************************************************************************)
EXTENDS ConsolePage

CONSTANT c1

MCClients == {c1}
MCSlow == {}
===============================================================================
