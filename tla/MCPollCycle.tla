----------------------------- MODULE MCPollCycle -----------------------------
(***************************************************************************)
(* The poll for TLC: a lock with a hub and one without, or two hub locks.  *)
(***************************************************************************)
EXTENDS PollCycle, TLC

CONSTANTS hub1, hub2, wifi

HubAndWifi == <<hub1, wifi>>
TwoHubs == <<hub1, hub2>>
=============================================================================
