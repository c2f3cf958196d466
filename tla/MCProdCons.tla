----------------------------- MODULE MCProdCons -----------------------------
(***************************************************************************)
(* Two consumers and three lines: both consumers can hold an entry while a *)
(* third is on the list, or leave it there.                                *)
(***************************************************************************)
EXTENDS ProdCons
=============================================================================
