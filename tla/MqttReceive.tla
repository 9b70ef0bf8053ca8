---------------------------- MODULE MqttReceive ----------------------------
(***************************************************************************)
(* The receiving half of MQTT::Client                                      *)
(* (lib/paho.mqtt.embedded-c-master/MQTTClient/src/MQTTClient.h): incoming *)
(* publishes at QoS 1 and 2, the table that tells a repeated QoS 2 publish *)
(* from a new one, and keepalive, over connections that are lost and made  *)
(* again as MqttTlsClient does.                                            *)
(*                                                                         *)
(* One pass through cycle is one action, keepalive included.  The commands *)
(* are in PahoClient; here a command is only seen when it fails, because   *)
(* it then clears the state of this half, too.  One session of the SDK:    *)
(* StartSession and EndSession are in IotClient.                           *)
(***************************************************************************)
EXTENDS MqttSender

CONSTANTS
    MAX_INCOMING_QOS2_MESSAGES,   \* places in the table, 10 in the code
    SessionKinds,                 \* what m_usePersistentSession may be
    CommandTimeouts               \* how the command timeout compares to keepAliveInterval

ASSUME TableAssumption == MAX_INCOMING_QOS2_MESSAGES \in Nat
ASSUME SessionKindsAssumption == SessionKinds \subseteq BOOLEAN
ASSUME CommandTimeoutsAssumption == CommandTimeouts \subseteq {"shorter", "longer"}

VARIABLES
    usePersistentSession,   \* MqttTlsClient::m_usePersistentSession
    commandTimeout,         \* MQTT::Client::command_timeout_ms
    isconnected,            \* a CONNECT was answered and nothing has failed since
    connecting,             \* connect is in waitfor(CONNACK)
    incomingQoS2messages,   \* packet ids whose PUBREL is still to come, 0 for none
    ping_outstanding,       \* a PINGREQ was written and not answered
    delivered,              \* how often OnMessageArrived had each message, up to 2
    forgotBy,               \* history: who has forgotten a persistent session
    late                    \* history: an answer was left out on this connection

clientVars == <<isconnected, incomingQoS2messages, ping_outstanding>>
confVars == <<usePersistentSession, commandTimeout>>
recvVars == <<confVars, connecting, clientVars, delivered>>
histVars == <<forgotBy, late>>
vars == <<linkVars, faults, senderVars, recvVars, histVars>>

Slots == 1..MAX_INCOMING_QOS2_MESSAGES
NoIds == [s \in Slots |-> 0]

\* Every variable has its type; the table keeps its size and holds packet ids or 0.
ReceiveTypeOK ==
    /\ link \in {"closed", "up", "broken"}
    /\ faults \in 0..MaxFaults
    /\ SenderTypeOK
    /\ usePersistentSession \in SessionKinds
    /\ commandTimeout \in CommandTimeouts
    /\ isconnected \in BOOLEAN
    /\ connecting \in BOOLEAN
    /\ incomingQoS2messages \in [Slots -> 0..MaxPacketId]
    /\ ping_outstanding \in BOOLEAN
    /\ delivered \in [Msgs -> 0..2]
    /\ forgotBy \subseteq {"client", "broker"}
    /\ late \in BOOLEAN

Init ==
    /\ LinkInit
    /\ SenderInit
    /\ usePersistentSession \in SessionKinds
    /\ commandTimeout \in CommandTimeouts
    /\ isconnected = FALSE
    /\ connecting = FALSE
    /\ incomingQoS2messages = NoIds
    /\ ping_outstanding = FALSE
    /\ delivered = [m \in Msgs |-> 0]
    /\ forgotBy = {}
    /\ late = FALSE

(***************************************************************************)
(* The table                                                               *)
(***************************************************************************)
isQoS2msgidFree(id) == \A s \in Slots : incomingQoS2messages[s] # id

FirstWith(id) ==
    CHOOSE s \in Slots : /\ incomingQoS2messages[s] = id
                         /\ \A r \in Slots : incomingQoS2messages[r] = id => s <= r

TableFull == \A s \in Slots : incomingQoS2messages[s] # 0

useQoS2msgid(id) ==
    incomingQoS2messages' = [incomingQoS2messages EXCEPT ![FirstWith(0)] = id]

\* Mutant: the id is not removed.
KeepQoS2msgid(id) == UNCHANGED incomingQoS2messages

freeQoS2msgid(id) ==
    incomingQoS2messages' =
        IF isQoS2msgidFree(id) THEN incomingQoS2messages
        ELSE [incomingQoS2messages EXCEPT ![FirstWith(id)] = 0]

(***************************************************************************)
(* Connections                                                             *)
(***************************************************************************)
\* Mutant: the loop over the table goes one place too far.
CleanSessionOneTooMany ==
    /\ isconnected' = FALSE
    /\ ping_outstanding' = FALSE
    /\ incomingQoS2messages' = [s \in 1..(MAX_INCOMING_QOS2_MESSAGES + 1) |-> 0]

cleanSession ==
    /\ isconnected' = FALSE
    /\ incomingQoS2messages' = NoIds
    /\ ping_outstanding' = FALSE

\* Mutants: disconnect clears the table of a persistent session, too, or
\* leaves the ping of the old connection outstanding.
DisconnectClears == cleanSession
DisconnectKeepsPing ==
    /\ isconnected' = FALSE
    /\ incomingQoS2messages' = IF usePersistentSession THEN incomingQoS2messages ELSE NoIds
    /\ UNCHANGED ping_outstanding

disconnect ==
    IF usePersistentSession
    THEN isconnected' = FALSE /\ ping_outstanding' = FALSE /\ UNCHANGED incomingQoS2messages
    ELSE cleanSession

\* MqttTlsClient::Connect(bool) up to the wait for CONNACK: if one half is still
\* up, it is taken down first.
Connect ==
    /\ ~connecting
    /\ ~(isconnected /\ link # "closed")
    /\ IF isconnected THEN disconnect ELSE UNCHANGED clientVars
    /\ connecting' = TRUE
    /\ link' = "up"
    /\ c2b' = <<[type |-> "CONNECT", clean |-> ~usePersistentSession]>>
    /\ b2c' = <<>>
    /\ bOpen' = FALSE
    /\ late' = FALSE
    /\ UNCHANGED <<faults, bSt, bId, bAgain, bKept, confVars, delivered, forgotBy>>

\* The wait for CONNACK ends without one and the connection is closed.  If a
\* publish is kept, sending it again fails, too, and ends in cleanSession.
ConnectFails ==
    /\ connecting
    /\ IF link = "up" THEN Fault("timeout") ELSE UNCHANGED faults
    /\ connecting' = FALSE
    /\ Close
    /\ UNCHANGED <<senderVars, confVars, clientVars, delivered, histVars>>

Forgets(who) == forgotBy' = IF usePersistentSession THEN forgotBy \cup {who} ELSE forgotBy

ConnectFailsWithPublish ==
    /\ connecting
    /\ Fault("command")
    /\ connecting' = FALSE
    /\ Close
    /\ cleanSession
    /\ Forgets("client")
    /\ UNCHANGED <<senderVars, confVars, delivered, late>>

\* A subscribe, unsubscribe or publish fails, perhaps because a read in its wait
\* has closed the connection.
CommandFails ==
    /\ isconnected
    /\ Fault("command")
    /\ cleanSession
    /\ Forgets("client")
    /\ UNCHANGED <<linkVars, senderVars, confVars, connecting, delivered, late>>

(***************************************************************************)
(* cycle.  It runs in yield and in every wait of a command.                *)
(***************************************************************************)

\* keepalive, at the end of a cycle: a PINGREQ is written if one of its timers
\* has expired and no PINGREQ is outstanding.
keepalive(outstanding) ==
    \E expired \in BOOLEAN :
        LET ping == expired /\ ~outstanding IN
        /\ c2b' = IF ping /\ link = "up" THEN Append(c2b, [type |-> "PINGREQ"]) ELSE c2b
        /\ ping_outstanding' = (outstanding \/ ping)

\* The timer of the command or loop expires before the acknowledgement is
\* written: cycle ends there, without keepalive.
TooLate == Fault("timeout") /\ late' = TRUE /\ UNCHANGED <<c2b, ping_outstanding>>

ReadPacket(t) ==
    /\ Read
    /\ Head(b2c).type = t
    /\ UNCHANGED <<link, senderVars, confVars, forgotBy>>

\* The acknowledgement is written, or it is too late for it.  In the first case
\* keepalive has nothing to do: a packet read and a packet written have just
\* restarted its timers.
Written(t) ==
    /\ WriteOk([type |-> t, id |-> Head(b2c).id])
    /\ UNCHANGED <<faults, ping_outstanding, late>>

Acknowledge(t) == Written(t) \/ TooLate

deliverMessage(m) ==
    delivered' = [delivered EXCEPT ![m] = IF @ < 2 THEN @ + 1 ELSE @]

\* readPacket has CONNACK, which connect waits for.  Only a command timeout longer
\* than the keepalive interval leaves keepalive something to do.
Connack ==
    /\ connecting
    /\ ReadPacket("CONNACK")
    /\ IF commandTimeout = "longer" THEN keepalive(ping_outstanding)
       ELSE UNCHANGED <<c2b, ping_outstanding>>
    /\ connecting' = FALSE
    /\ isconnected' = TRUE
    /\ UNCHANGED <<faults, incomingQoS2messages, delivered, late>>

\* Mutant: the table of QoS 2 ids is asked for QoS 1 messages, too.
PublishQoS1Filtered ==
    /\ isconnected
    /\ ReadPacket("PUBLISH")
    /\ ~Head(b2c).qos2
    /\ IF isQoS2msgidFree(Head(b2c).id) THEN deliverMessage(Head(b2c).msg)
       ELSE UNCHANGED delivered
    /\ Acknowledge("PUBACK")
    /\ UNCHANGED <<isconnected, connecting, incomingQoS2messages>>

PublishQoS1 ==
    /\ isconnected
    /\ ReadPacket("PUBLISH")
    /\ ~Head(b2c).qos2
    /\ deliverMessage(Head(b2c).msg)
    /\ Acknowledge("PUBACK")
    /\ UNCHANGED <<isconnected, connecting, incomingQoS2messages>>

\* Mutant: a repeated publish is not acknowledged again.
PublishQoS2AckOnce ==
    /\ isconnected
    /\ ReadPacket("PUBLISH")
    /\ Head(b2c).qos2
    /\ IF isQoS2msgidFree(Head(b2c).id) /\ ~TableFull
       THEN /\ useQoS2msgid(Head(b2c).id)
            /\ deliverMessage(Head(b2c).msg)
            /\ Acknowledge("PUBREC")
       ELSE UNCHANGED <<c2b, faults, incomingQoS2messages, ping_outstanding, delivered, late>>
    /\ UNCHANGED <<isconnected, connecting>>

\* A QoS 2 publish is delivered if its id is not in the table and there is a
\* free place for it, and acknowledged in any case.
PublishQoS2 ==
    /\ isconnected
    /\ ReadPacket("PUBLISH")
    /\ Head(b2c).qos2
    /\ IF isQoS2msgidFree(Head(b2c).id) /\ ~TableFull
       THEN useQoS2msgid(Head(b2c).id) /\ deliverMessage(Head(b2c).msg)
       ELSE UNCHANGED <<incomingQoS2messages, delivered>>
    /\ Acknowledge("PUBREC")
    /\ UNCHANGED <<isconnected, connecting>>

\* The id is freed only if the PUBCOMP was written.
Pubrel ==
    /\ isconnected
    /\ ReadPacket("PUBREL")
    /\ \/ Written("PUBCOMP") /\ freeQoS2msgid(Head(b2c).id)
       \/ TooLate /\ UNCHANGED incomingQoS2messages
    /\ UNCHANGED <<isconnected, connecting, delivered>>

Pingresp ==
    /\ isconnected
    /\ ReadPacket("PINGRESP")
    /\ keepalive(FALSE)
    /\ UNCHANGED <<faults, isconnected, connecting, incomingQoS2messages, delivered, late>>

\* The read times out; only keepalive is left to do.  While connect waits its
\* timers can expire only if the command timeout is longer than theirs.
NothingRead ==
    /\ isconnected \/ (connecting /\ commandTimeout = "longer")
    /\ link # "closed"
    /\ keepalive(ping_outstanding)
    /\ UNCHANGED <<link, b2c, faults, senderVars, confVars, isconnected,
                   connecting, incomingQoS2messages, delivered, histVars>>

\* The read fails and closes the connection; nothing can be written after that.
ReadError ==
    /\ isconnected \/ connecting
    /\ ReadFails
    /\ UNCHANGED <<faults, senderVars, recvVars, histVars>>

(***************************************************************************)
(* The specification                                                       *)
(***************************************************************************)
Client ==
    \/ Connect
    \/ ConnectFails
    \/ ConnectFailsWithPublish
    \/ CommandFails
    \/ Connack
    \/ PublishQoS1
    \/ PublishQoS2
    \/ Pubrel
    \/ Pingresp
    \/ NothingRead
    \/ ReadError

Network == Drop /\ UNCHANGED <<senderVars, recvVars, histVars>>

Sender ==
    /\ \/ SenderStep /\ UNCHANGED histVars
       \/ SenderLosesSession /\ Forgets("broker") /\ UNCHANGED late
    /\ UNCHANGED recvVars

Next == Client \/ Sender \/ Network

Spec == Init /\ [][Next]_vars

(***************************************************************************)
(* Fairness.  The client keeps calling cycle and reconnects, reads what is *)
(* there and notices a lost connection in the end; the broker sends and    *)
(* answers.                                                                *)
(***************************************************************************)
ReadOrConnect ==
    \/ Connect
    \/ ConnectFails
    \/ Connack
    \/ PublishQoS1
    \/ PublishQoS2
    \/ Pubrel
    \/ Pingresp
    \/ ReadError

FairSpec ==
    /\ Spec
    /\ WF_vars(ReadOrConnect)
    /\ WF_vars(SenderAccept /\ UNCHANGED <<recvVars, histVars>>)
    /\ WF_vars(SenderPing /\ UNCHANGED <<recvVars, histVars>>)
    /\ \A m \in Msgs :
         /\ WF_vars((\E i \in PacketIds : SendPublish(m, i)) /\ UNCHANGED <<recvVars, histVars>>)
         /\ WF_vars(SendAgain(m) /\ UNCHANGED <<recvVars, histVars>>)
         /\ WF_vars((SenderPuback(m) \/ SenderPubrec(m) \/ SenderPubcomp(m))
                    /\ UNCHANGED <<recvVars, histVars>>)

(***************************************************************************)
(* Properties                                                              *)
(***************************************************************************)

\* A QoS 2 message reaches the application once, however often it is sent again,
\* and the broker is told it is complete only after it did; in a persistent session
\* as long as neither side has forgotten it.
DeliveredOnce ==
    forgotBy = {} =>
        \A m \in QoS2Msgs : /\ delivered[m] <= 1
                            /\ bSt[m] \in {"released", "done"} => delivered[m] = 1

\* The table holds each id once, and, unless the broker has forgotten a persistent
\* session, only ids of QoS 2 messages the broker still has in flight: no place in
\* it is lost for ever.
TableMatchesBroker ==
    /\ "broker" \notin forgotBy =>
          \A s \in Slots : incomingQoS2messages[s] # 0 =>
              \E m \in QoS2Msgs \cap InFlight : bId[m] = incomingQoS2messages[s]
    /\ \A r, s \in Slots :
          incomingQoS2messages[r] = incomingQoS2messages[s] =>
              r = s \/ incomingQoS2messages[r] = 0

\* A QoS 1 message the broker counts as done has reached the application.
AcknowledgedDelivered ==
    \A m \in Msgs \ QoS2Msgs : bSt[m] = "done" => delivered[m] >= 1

\* A ping is outstanding only while it, or its answer, is under way on the
\* present connection: a stale one would keep keepalive from ever pinging again.
\* (If commands may last longer than the keepalive interval, a ping written while
\* waiting for a CONNACK that never comes is left over.)
PingNotStale ==
    commandTimeout = "shorter" /\ isconnected /\ link = "up" /\ ping_outstanding =>
        \/ \E i \in 1..Len(c2b) : c2b[i].type = "PINGREQ"
        \/ \E i \in 1..Len(b2c) : b2c[i].type = "PINGRESP"

\* Every message is completed or lost with its session in the end, unless the
\* client has left out an answer and the connection it left it out on never ends:
\* only a new connection makes the broker send again.
Completed ==
    []<>~late => \A m \in Msgs : <>(bSt[m] \in {"done", "dropped"})

\* README: OnMessageArrived is invoked when a message is published to a topic the
\* client has subscribed for; so a message the broker has completed was delivered.
MessageArrives == \A m \in Msgs : bSt[m] = "done" => delivered[m] >= 1
=============================================================================
