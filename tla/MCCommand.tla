------------------------------ MODULE MCCommand ------------------------------
(***************************************************************************)
(* Commands for TLC: a lock and an unlock that may overlap or follow each  *)
(* other, two host passwords, and a lock that is used at any time.         *)
(***************************************************************************)
EXTENDS Command, TLC
=============================================================================
