--------------------------- MODULE MCKallocSearch ---------------------------
(***************************************************************************)
(* A pool of 14 pages under a bitmap of four 4-bit words.  init takes the  *)
(* first five pages (2 + 1 + 1 + 1, init.cc:49-52: the second word is then *)
(* partly used), and the execution context leaves the last page short by   *)
(* one unit, so the last word is never full.                               *)
(***************************************************************************)
EXTENDS KallocSearch

MCBootSizes == <<2, 1, 1, 1>>
MCBootTop   == [k \in 0 .. 4 |-> IF k = 0 THEN 0 ELSE k + 1]
=============================================================================
