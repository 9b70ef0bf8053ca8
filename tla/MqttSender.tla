----------------------------- MODULE MqttSender -----------------------------
(***************************************************************************)
(* The half of the MQTT broker that sends messages to the client.  It is   *)
(* not part of the repository: it is modelled from the packets the client  *)
(* answers, as a broker that follows MQTT 3.1.1 and has a subscription of  *)
(* the client.  Each message of Msgs is published to it once.              *)
(*                                                                         *)
(* A message is "new", then "sent" (awaiting PUBACK or PUBREC), for QoS 2  *)
(* "released" (awaiting PUBCOMP), then "done"; it is "dropped" when the    *)
(* session it was in flight in is gone.                                    *)
(***************************************************************************)
EXTENDS MqttLink, FiniteSets

CONSTANTS
    QoS2Msgs,   \* messages sent with QoS 2, the others with QoS 1
    Window      \* messages the broker keeps in flight at a time

ASSUME QoS2MsgsAssumption == QoS2Msgs \subseteq Msgs
ASSUME WindowAssumption == Window \in Nat

VARIABLES
    bSt,      \* where each message is
    bId,      \* its packet id, 0 if it is not in flight
    bAgain,   \* messages in flight still to be sent again on this connection
    bOpen,    \* CONNECT was accepted on this connection
    bKept     \* the session outlives the connection

senderVars == <<bSt, bId, bAgain, bOpen, bKept>>

SenderTypeOK ==
    /\ bSt \in [Msgs -> {"new", "sent", "released", "done", "dropped"}]
    /\ bId \in [Msgs -> 0..MaxPacketId]
    /\ bAgain \subseteq Msgs
    /\ bOpen \in BOOLEAN
    /\ bKept \in BOOLEAN

SenderInit ==
    /\ bSt = [m \in Msgs |-> "new"]
    /\ bId = [m \in Msgs |-> 0]
    /\ bAgain = {}
    /\ bOpen = FALSE
    /\ bKept = FALSE

InFlight == {m \in Msgs : bSt[m] \in {"sent", "released"}}

\* The session is gone, and with it what was in flight.
Forget ==
    /\ bSt' = [m \in Msgs |-> IF m \in InFlight THEN "dropped" ELSE bSt[m]]
    /\ bId' = [m \in Msgs |-> 0]

Publish(m) == [type |-> "PUBLISH", id |-> bId[m], msg |-> m, qos2 |-> m \in QoS2Msgs]

SenderTake(t) ==
    /\ c2b # <<>>
    /\ Head(c2b).type = t
    /\ c2b' = Tail(c2b)
    /\ UNCHANGED <<link, faults>>

SenderReply(p) == b2c' = IF link = "up" THEN Append(b2c, p) ELSE b2c

SenderAccept ==
    LET sp == ~Head(c2b).clean /\ bKept IN
    /\ SenderTake("CONNECT")
    /\ bOpen' = TRUE
    /\ bKept' = ~Head(c2b).clean
    /\ IF sp THEN UNCHANGED <<bSt, bId>> ELSE Forget
    /\ bAgain' = IF sp THEN InFlight ELSE {}
    /\ SenderReply([type |-> "CONNACK", sp |-> sp])

SendPublish(m, i) ==
    /\ bOpen
    /\ link = "up"
    /\ bAgain = {}
    /\ bSt[m] = "new"
    /\ Cardinality(InFlight) < Window
    /\ \A n \in InFlight : bId[n] # i
    /\ bSt' = [bSt EXCEPT ![m] = "sent"]
    /\ bId' = [bId EXCEPT ![m] = i]
    /\ b2c' = Append(b2c, Publish(m)')
    /\ UNCHANGED <<link, c2b, faults, bAgain, bOpen, bKept>>

SendAgain(m) ==
    /\ bOpen
    /\ link = "up"
    /\ m \in bAgain
    /\ bAgain' = bAgain \ {m}
    /\ b2c' = Append(b2c, IF bSt[m] = "sent" THEN Publish(m)
                          ELSE [type |-> "PUBREL", id |-> bId[m]])
    /\ UNCHANGED <<link, c2b, faults, bSt, bId, bOpen, bKept>>

Done(m) ==
    /\ bSt' = [bSt EXCEPT ![m] = "done"]
    /\ bId' = [bId EXCEPT ![m] = 0]

SenderPuback(m) ==
    /\ SenderTake("PUBACK")
    /\ bSt[m] = "sent"
    /\ bId[m] = Head(c2b).id
    /\ Done(m)
    /\ UNCHANGED <<b2c, bAgain, bOpen, bKept>>

SenderPubrec(m) ==
    /\ SenderTake("PUBREC")
    /\ bSt[m] = "sent"
    /\ bId[m] = Head(c2b).id
    /\ bSt' = [bSt EXCEPT ![m] = "released"]
    /\ SenderReply([type |-> "PUBREL", id |-> bId[m]])
    /\ UNCHANGED <<bId, bAgain, bOpen, bKept>>

SenderPubcomp(m) ==
    /\ SenderTake("PUBCOMP")
    /\ bSt[m] = "released"
    /\ bId[m] = Head(c2b).id
    /\ Done(m)
    /\ UNCHANGED <<b2c, bAgain, bOpen, bKept>>

SenderPing ==
    /\ SenderTake("PINGREQ")
    /\ SenderReply([type |-> "PINGRESP"])
    /\ UNCHANGED senderVars

\* The broker restarts without the session it had stored.
SenderLosesSession ==
    /\ Fault("sessionLoss")
    /\ bKept
    /\ bKept' = FALSE
    /\ bOpen' = FALSE
    /\ bAgain' = {}
    /\ Forget
    /\ LinkLost

SenderStep ==
    \/ SenderAccept
    \/ \E m \in Msgs, i \in PacketIds : SendPublish(m, i)
    \/ \E m \in Msgs : SendAgain(m) \/ SenderPuback(m) \/ SenderPubrec(m) \/ SenderPubcomp(m)
    \/ SenderPing
=============================================================================
