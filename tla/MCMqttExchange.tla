--------------------------- MODULE MCMqttExchange ---------------------------
(***************************************************************************)
(* Two overlapping calls for TLC: a quiet frame exchange, such as the      *)
(* half-hourly re-probe, and a device-info request.                        *)
(***************************************************************************)
EXTENDS MqttExchange, TLC
=============================================================================
