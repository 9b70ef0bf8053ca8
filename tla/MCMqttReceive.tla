--------------------------- MODULE MCMqttReceive ---------------------------
(***************************************************************************)
(* MqttReceive on small instances.                                         *)
(***************************************************************************)
EXTENDS MqttReceive

CONSTANTS m1, m2, m3

LastTwo == {m2, m3}
Three == {m1, m2, m3}

AllFaults == {"drop", "timeout", "command", "sessionLoss"}
=============================================================================
