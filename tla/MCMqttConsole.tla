--------------------------- MODULE MCMqttConsole ----------------------------
(* Instances of MqttConsole for TLC. *)
EXTENDS MqttConsole

CONSTANTS c1, c2

StoredOne == <<c1>>
=============================================================================
