------------------------------- MODULE MCEntry -------------------------------
(***************************************************************************)
(* Two accounts, one of which may be set up again.                         *)
(***************************************************************************)
EXTENDS Entry, TLC

TwoAccounts == Permutations(Accounts)
=============================================================================
