---------------------------- MODULE MCChangeEvents ----------------------------
(***************************************************************************)
(* A small instance of ChangeEvents: two writers and two event streams, of *)
(* which one may stop reading. With two changes one token can be on its    *)
(* way to the client or wait in the channel while the other is dropped.    *)
(***************************************************************************)
EXTENDS ChangeEvents

CONSTANTS w1, w2, c1, c2

MCWriters == {w1, w2}
MCClients == {c1, c2}
MCSlow == {c2}
===============================================================================
