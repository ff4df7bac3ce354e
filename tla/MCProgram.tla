------------------------------- MODULE MCProgram -------------------------------
(***************************************************************************)
(* A small instance of Program: two requests, of which one may have ended  *)
(* while the other streams when the signal comes; two deletions, so that   *)
(* one can meet the reclaim of the other in every state; and a row of an   *)
(* earlier run to prune.                                                   *)
(***************************************************************************)
EXTENDS Program

CONSTANTS r1, r2, d1, d2, p1

MCRequests == {r1, r2}
MCDeletions == {d1, d2}
MCPast == {p1}
===============================================================================
