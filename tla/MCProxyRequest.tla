--------------------------- MODULE MCProxyRequest -----------------------------
(***************************************************************************)
(* Two handlers, one unit of size being half of the largest body. A budget *)
(* of 3 makes two large requests exclude each other and lets a small one   *)
(* overtake. The capture limit of 1 cuts a copy of a large body; a         *)
(* rewritten body takes up to the size of the one it is made of.           *)
(***************************************************************************)
EXTENDS ProxyRequest

CONSTANTS r1, r2

MCRequests == {r1, r2}
MCLengths == {-1, 1, 3}
MCChunkedSizes == {1, 3, 4}
MCUpstreamStatuses == {200, 302, 429}
===============================================================================
