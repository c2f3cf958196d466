----------------------------- MODULE MCMemAlloc -----------------------------
(***************************************************************************)
(* A heap of 15 words above NULL: three blocks of size 1, or the two or    *)
(* three of every mix of sizes 1, 3 and 4 that fits.  Freeing a 1 and a 3  *)
(* next to it lets a 4 be gathered from both, whose payload then holds the *)
(* three words that were the second one's header; the program fills it     *)
(* with zeros or with 7s.  Another block fits behind it, which is linked   *)
(* to the gathered tail.                                                   *)
(***************************************************************************)
EXTENDS MemAlloc
=============================================================================
