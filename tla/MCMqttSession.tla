---------------------------- MODULE MCMqttSession ----------------------------
(***************************************************************************)
(* The session for TLC. Two clients are enough where one session at a time *)
(* is claimed: a second one shows up as a violation.                       *)
(***************************************************************************)
EXTENDS MqttSession, TLC

Symmetry == Permutations(Clients)
=============================================================================
