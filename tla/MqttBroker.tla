----------------------------- MODULE MqttBroker -----------------------------
(***************************************************************************)
(* The MQTT broker the client talks to.  It is not part of the repository: *)
(* it is modelled from the packets the client sends it and the answers the *)
(* client understands, as a broker that follows MQTT 3.1.1.                *)
(* One client, so one session: its subscriptions, the QoS 2 packet ids     *)
(* whose PUBREL is still to come, and whether it outlives the connection.  *)
(* A broker may refuse a CONNECT, reject a SUBSCRIBE and lose the session  *)
(* it stores; each counts as a fault.                                      *)
(***************************************************************************)
EXTENDS MqttLink, FiniteSets

VARIABLES
    bConn,     \* this connection: "none" before CONNECT, "accepted", "refused"
    bStored,   \* the session outlives the connection (CONNECT was not clean)
    bSubs,     \* topics the session is subscribed to
    bHeld,     \* QoS 2 packet ids received whose PUBREL is still to come
    bRecv      \* how often each message was taken over, counted up to RecvCap

brokerVars == <<bConn, bStored, bSubs, bHeld, bRecv>>

\* Two receipts are enough to tell a duplicate from a single one.
RecvCap == 2

BrokerTypeOK ==
    /\ bConn \in {"none", "accepted", "refused"}
    /\ bStored \in BOOLEAN
    /\ bSubs \subseteq Topics
    /\ bHeld \subseteq PacketIds
    /\ bRecv \in [Msgs -> 0..RecvCap]

BrokerInit ==
    /\ bConn = "none"
    /\ bStored = FALSE
    /\ bSubs = {}
    /\ bHeld = {}
    /\ bRecv = [m \in Msgs |-> 0]

\* The packet the broker reads next, and reading it if it is of type t.
Pkt == Head(c2b)

Take(t) ==
    /\ c2b # <<>>
    /\ Pkt.type = t
    /\ c2b' = Tail(c2b)
    /\ UNCHANGED link

\* An answer reaches the client only while the connection is up.
Reply(p) == b2c' = IF link = "up" THEN Append(b2c, p) ELSE b2c

Receive(m) ==
    bRecv' = IF bRecv[m] < RecvCap THEN [bRecv EXCEPT ![m] = @ + 1] ELSE bRecv

BrokerAccept ==
    LET sp == ~Pkt.clean /\ bStored IN
    /\ Take("CONNECT")
    /\ bConn' = "accepted"
    /\ bStored' = ~Pkt.clean
    /\ bSubs' = IF sp THEN bSubs ELSE {}
    /\ bHeld' = IF sp THEN bHeld ELSE {}
    /\ Reply([type |-> "CONNACK", accepted |-> TRUE, sp |-> sp])
    /\ UNCHANGED <<bRecv, faults>>

BrokerRefuse ==
    /\ Take("CONNECT")
    /\ Fault("refuse")
    /\ bConn' = "refused"
    /\ Reply([type |-> "CONNACK", accepted |-> FALSE, sp |-> FALSE])
    /\ UNCHANGED <<bStored, bSubs, bHeld, bRecv>>

\* After a refusal the broker closes the connection, which the client has still
\* to notice, and reads nothing more from it.
BrokerHangUp ==
    /\ bConn = "refused"
    /\ link = "up"
    /\ b2c = <<>>
    /\ LinkLost
    /\ UNCHANGED <<brokerVars, faults>>

BrokerIgnore ==
    /\ c2b # <<>>
    /\ Pkt.type # "CONNECT"
    /\ c2b' = Tail(c2b)
    /\ UNCHANGED link
    /\ bConn = "refused"
    /\ UNCHANGED <<b2c, brokerVars, faults>>

BrokerSubscribe ==
    /\ Take("SUBSCRIBE")
    /\ bConn = "accepted"
    /\ bSubs' = bSubs \cup {Pkt.topic}
    /\ Reply([type |-> "SUBACK", id |-> Pkt.id, granted |-> TRUE])
    /\ UNCHANGED <<bConn, bStored, bHeld, bRecv, faults>>

BrokerReject ==
    /\ Take("SUBSCRIBE")
    /\ bConn = "accepted"
    /\ Fault("reject")
    /\ Reply([type |-> "SUBACK", id |-> Pkt.id, granted |-> FALSE])
    /\ UNCHANGED brokerVars

BrokerUnsubscribe ==
    /\ Take("UNSUBSCRIBE")
    /\ bConn = "accepted"
    /\ bSubs' = bSubs \ {Pkt.topic}
    /\ Reply([type |-> "UNSUBACK", id |-> Pkt.id])
    /\ UNCHANGED <<bConn, bStored, bHeld, bRecv, faults>>

BrokerPublish1 ==
    /\ Take("PUBLISH")
    /\ ~Pkt.qos2
    /\ bConn = "accepted"
    /\ Receive(Pkt.msg)
    /\ Reply([type |-> "PUBACK", id |-> Pkt.id])
    /\ UNCHANGED <<bConn, bStored, bSubs, bHeld, faults>>

\* A QoS 2 packet id the broker still holds is a retransmission.
BrokerPublish2 ==
    /\ Take("PUBLISH")
    /\ Pkt.qos2
    /\ bConn = "accepted"
    /\ IF Pkt.id \in bHeld THEN UNCHANGED bRecv ELSE Receive(Pkt.msg)
    /\ bHeld' = bHeld \cup {Pkt.id}
    /\ Reply([type |-> "PUBREC", id |-> Pkt.id])
    /\ UNCHANGED <<bConn, bStored, bSubs, faults>>

BrokerPubrel ==
    /\ Take("PUBREL")
    /\ bConn = "accepted"
    /\ bHeld' = bHeld \ {Pkt.id}
    /\ Reply([type |-> "PUBCOMP", id |-> Pkt.id])
    /\ UNCHANGED <<bConn, bStored, bSubs, bRecv, faults>>

\* A clean session ends with its connection.
BrokerDisconnect ==
    /\ Take("DISCONNECT")
    /\ bConn = "accepted"
    /\ bConn' = "none"
    /\ bSubs' = IF bStored THEN bSubs ELSE {}
    /\ bHeld' = IF bStored THEN bHeld ELSE {}
    /\ UNCHANGED <<b2c, bStored, bRecv, faults>>

\* The broker restarts without the session it had stored.
BrokerLosesSession ==
    /\ Fault("sessionLoss")
    /\ bStored
    /\ bStored' = FALSE
    /\ bSubs' = {}
    /\ bHeld' = {}
    /\ LinkLost
    /\ UNCHANGED <<bConn, bRecv>>

BrokerStep ==
    \/ BrokerAccept
    \/ BrokerRefuse
    \/ BrokerHangUp
    \/ BrokerIgnore
    \/ BrokerSubscribe
    \/ BrokerReject
    \/ BrokerUnsubscribe
    \/ BrokerPublish1
    \/ BrokerPublish2
    \/ BrokerPubrel
    \/ BrokerDisconnect
=============================================================================
