----------------------------- MODULE MCNumReader ------------------------------
(***************************************************************************)
(* All inputs of up to four characters, read two at a time at most: a      *)
(* number may begin in one read and end in the next or the one after it.   *)
(* A word of 6 bits has two digits in base 16, and 99 does not fit in it.  *)
(***************************************************************************)
EXTENDS NumReader
=============================================================================
