----------------------------- MODULE PahoClient -----------------------------
(***************************************************************************)
(* MQTT::Client, the single-threaded MQTT client the SDK carries           *)
(* (lib/paho.mqtt.embedded-c-master/MQTTClient/src/MQTTClient.h), compiled *)
(* as src/mqtt_tls_client.h does: QoS 1 and QoS 2 on.  In that build the   *)
(* wait for PUBCOMP in publish(len, timer, qos) is compiled out (it is the *)
(* #elif of the QoS 1 branch), so a QoS 2 publish ends with its write.     *)
(*                                                                         *)
(* Every operator below is one command, or the part of one between two     *)
(* points where the broker or the network may act.  Messages that arrive   *)
(* and keepalive pings are not part of this module.                        *)
(***************************************************************************)
EXTENDS MqttLink

VARIABLES
    isconnected,    \* a CONNECT was answered and nothing has failed since
    cleansession,   \* clean flag of the last CONNECT
    inflight,       \* the publish kept for sending again on connect
    packetid        \* PacketId::next, the id given out last

mqttVars == <<isconnected, cleansession, inflight, packetid>>

\* inflightMsgid = 0
NoInflight == [id |-> 0]
Inflights == [id : PacketIds, msg : Msgs, qos2 : BOOLEAN]

PahoTypeOK ==
    /\ isconnected \in BOOLEAN
    /\ cleansession \in BOOLEAN
    /\ inflight \in Inflights \cup {NoInflight}
    /\ packetid \in 0..MaxPacketId

PahoInit ==
    /\ isconnected = FALSE
    /\ cleansession = FALSE
    /\ inflight = NoInflight
    /\ packetid = 0

\* Mutant: the counter does not wrap.
GetNextNoWrap == packetid + 1

\* PacketId::getNext
getNext == IF packetid = MaxPacketId THEN 1 ELSE packetid + 1

\* Mutant: the kept publish survives a failed command.
CleanSessionKeepsInflight == isconnected' = FALSE /\ UNCHANGED inflight

\* cleanSession(): also the end of every command that failed.
cleanSession == isconnected' = FALSE /\ inflight' = NoInflight

(***************************************************************************)
(* connect                                                                 *)
(***************************************************************************)
connectSent(clean) ==
    /\ ~isconnected
    /\ cleansession' = clean
    /\ WriteOk([type |-> "CONNECT", clean |-> clean])
    /\ UNCHANGED <<b2c, isconnected, inflight, packetid>>

connectNotSent(clean) ==
    /\ ~isconnected
    /\ cleansession' = clean
    /\ WriteFails
    /\ UNCHANGED <<isconnected, inflight, packetid>>

Resend == [type |-> "PUBLISH", id |-> inflight.id, msg |-> inflight.msg,
           qos2 |-> inflight.qos2]

\* CONNACK was read.  A kept publish is sent again whatever the CONNACK says,
\* and the result of that send replaces the CONNACK's return code.
connackOk ==
    /\ Read
    /\ Head(b2c).type = "CONNACK"
    /\ IF inflight = NoInflight
       THEN Head(b2c).accepted /\ UNCHANGED <<link, c2b>>
       ELSE WriteOk(Resend)
    /\ isconnected' = TRUE
    /\ UNCHANGED <<cleansession, inflight, packetid>>

\* The return code of a refused CONNACK stands when nothing is in flight.
connackRefused ==
    /\ link = "up"
    /\ b2c # <<>>
    /\ Head(b2c).type = "CONNACK"
    /\ ~Head(b2c).accepted
    /\ inflight = NoInflight
    /\ UNCHANGED mqttVars

\* waitfor(CONNACK) returns only once the timer has expired, so that sending
\* the kept publish fails and drops it.
connectTimeout == cleanSession /\ UNCHANGED <<cleansession, packetid>>

(***************************************************************************)
(* subscribe, unsubscribe, publish                                         *)
(***************************************************************************)
subscribeSent(t) ==
    /\ isconnected
    /\ packetid' = getNext
    /\ WriteOk([type |-> "SUBSCRIBE", id |-> getNext, topic |-> t])
    /\ UNCHANGED <<b2c, isconnected, cleansession, inflight>>

unsubscribeSent(t) ==
    /\ isconnected
    /\ packetid' = getNext
    /\ WriteOk([type |-> "UNSUBSCRIBE", id |-> getNext, topic |-> t])
    /\ UNCHANGED <<b2c, isconnected, cleansession, inflight>>

publishSent(m, qos2) ==
    /\ isconnected
    /\ packetid' = getNext
    /\ WriteOk([type |-> "PUBLISH", id |-> getNext, msg |-> m, qos2 |-> qos2])
    /\ inflight' = IF cleansession THEN inflight
                   ELSE [id |-> getNext, msg |-> m, qos2 |-> qos2]
    /\ UNCHANGED <<b2c, isconnected, cleansession>>

\* Any of the three could not write its packet.
commandNotSent ==
    /\ isconnected
    /\ packetid' = getNext
    /\ WriteFails
    /\ cleanSession
    /\ UNCHANGED cleansession

\* The packet does not fit into the send buffer.  subscribe and unsubscribe end
\* as a failed command does, publish leaves everything else as it is.
commandTooLong ==
    /\ isconnected
    /\ packetid' = getNext
    /\ cleanSession
    /\ UNCHANGED cleansession

publishTooLong ==
    /\ isconnected
    /\ packetid' = getNext
    /\ UNCHANGED <<isconnected, cleansession, inflight>>

\* Mutant: a failed command leaves the connection as it is.
CommandFailedGoesOn == UNCHANGED mqttVars

\* Any of them ran into its timeout, or a SUBACK said 0x80.
commandFailed == cleanSession /\ UNCHANGED <<cleansession, packetid>>

\* The acknowledgement of type t was read; its packet id is not looked at.
ackRead(t) ==
    /\ Read
    /\ Head(b2c).type = t
    /\ UNCHANGED <<link, c2b>>

\* PUBACK: clears the kept publish if it is the one acknowledged.
pubackRead ==
    /\ ackRead("PUBACK")
    /\ inflight' = IF inflight.id = Head(b2c).id THEN NoInflight ELSE inflight
    /\ UNCHANGED <<isconnected, cleansession, packetid>>

(***************************************************************************)
(* cycle, when the packet read is not the one a command waits for          *)
(***************************************************************************)
cycleOther(awaited) ==
    /\ Read
    /\ Head(b2c).type # awaited
    /\ IF Head(b2c).type = "PUBREC"
       THEN WriteOk([type |-> "PUBREL", id |-> Head(b2c).id])
       ELSE UNCHANGED <<link, c2b>>
    /\ UNCHANGED mqttVars

\* disconnect: the DISCONNECT is written if it can be; the kept publish stays
\* unless the session is a clean one.
disconnect ==
    /\ IF cleansession THEN cleanSession
       ELSE isconnected' = FALSE /\ UNCHANGED inflight
    /\ UNCHANGED <<cleansession, packetid>>
=============================================================================
