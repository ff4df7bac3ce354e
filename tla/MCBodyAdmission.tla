--------------------------- MODULE MCBodyAdmission ----------------------------
(***************************************************************************)
(* A small instance of BodyAdmission. Bytes are counted in units of half    *)
(* the largest body, so MaxBody = 2. Two slots contend in a budget of 3,   *)
(* which fits a large and a small body but not two large ones (the real    *)
(* ratio, 4, does the same to three slots). Lengths covers chunked (-1), a *)
(* small declared body and an oversized one.                               *)
(***************************************************************************)
EXTENDS BodyAdmission

MCLengths == {-1, 1, 3}
===============================================================================
