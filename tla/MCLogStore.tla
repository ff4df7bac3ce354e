------------------------------ MODULE MCLogStore ------------------------------
(***************************************************************************)
(* A small instance of LogStore: three rows at most, three seconds cut in  *)
(* halves, two gateways, pages of one or two rows, and charts of one or    *)
(* two buckets, so that a step can be two or three seconds and a window    *)
(* can begin and end within one.                                           *)
(***************************************************************************)
EXTENDS LogStore

CONSTANTS g1, g2

request(gateway, code, tokens, cached) ==
  [gateway |-> gateway, code |-> code, success |-> code < 400,
   tokens |-> tokens, cached |-> cached]

MCKinds == {request(g1, 200, 2, TRUE), request(g2, 500, 0, FALSE)}

anyStatus == [kind |-> "any"]

ask(gateway, status, from, to) ==
  [gateway |-> gateway, status |-> status, from |-> from, to |-> to]

MCFilters == {ask(Anything, anyStatus, Never, Never),
              ask(Anything, [kind |-> "failure"], 1, Never),
              ask(g1, anyStatus, 1, 4)}
===============================================================================
