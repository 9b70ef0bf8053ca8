---------------------------- MODULE MCIotClient ----------------------------
(***************************************************************************)
(* IotClient on small instances.  The .cfg files choose among the values   *)
(* below.                                                                  *)
(***************************************************************************)
EXTENDS IotClient, TLC

PersistentQoS1 == {c \in AllConfigs : c.persistent /\ ~c.qos2}
PersistentQoS2 == {c \in AllConfigs : c.persistent /\ c.qos2}

AllOps == {"Subscribe", "Unsubscribe", "Publish", "RunMessageLoop",
           "EndSession", "IsConnected"}
NoUnsubscribe == AllOps \ {"Unsubscribe"}
PublishLoop == {"Publish", "RunMessageLoop"}

AllFaults == {"drop", "auth", "tls", "timeout", "refuse", "reject", "sessionLoss",
              "tooLong"}
DropOnly == {"drop"}
SessionKept == AllFaults \ {"refuse", "sessionLoss"}

Symmetry == Permutations(Topics) \cup Permutations(Msgs)
=============================================================================
