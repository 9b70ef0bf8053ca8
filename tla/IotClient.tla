----------------------------- MODULE IotClient -----------------------------
(***************************************************************************)
(* iot::Client (src/client.cpp) over iot::MqttTlsClient                    *)
(* (src/mqtt_tls_client.cpp): the session an application sees, against a   *)
(* broker and a network that may fail between any two of its steps.        *)
(*                                                                         *)
(* The SDK runs on the application's thread, so there is one program       *)
(* counter, pc: "idle" between two calls of the API, otherwise the point   *)
(* inside the call where the client waits for something outside itself.    *)
(* The code between two such points is one action.                         *)
(*                                                                         *)
(* Simplifications: event listener callbacks do not call back into the     *)
(* client (the one in tests/iot_client/main.cpp does not);                 *)
(* the authentication is a step that succeeds or fails; messages that      *)
(* arrive and keepalive pings are left out.                                *)
(***************************************************************************)
EXTENDS PahoClient, MqttBroker

CONSTANTS
    Configs,   \* configurations a session may be started with
    Ops        \* calls of the API the application makes

AllConfigs == [qos2 : BOOLEAN, persistent : BOOLEAN]

ASSUME ConfigsAssumption == Configs \subseteq AllConfigs /\ Configs # {}

VARIABLES
    mState,           \* Client::Impl::m_state
    mSubscriptions,   \* Client::Impl::m_subscriptions
    conf,             \* MqttTlsClient::m_qos and m_usePersistentSession
    sessionPresent,   \* MqttTlsClient::m_sessionPresent
    pc,               \* where the current call of the API is
    call,             \* the current call of the API
    stage,            \* which Connect the current (re)connection is in
    toRestore,        \* subscriptions RestoreSubscriptions has still to send
    unsure,           \* history: topics whose last (un)subscribe failed
    used,             \* history: messages handed to Publish
    done              \* history: publishes for which Publish returned true

sessVars == <<mState, mSubscriptions, conf>>
ctlVars == <<call, stage, toRestore>>
histVars == <<unsure, used, done>>
vars == <<linkVars, faults, brokerVars, mqttVars, sessVars, sessionPresent, pc,
          ctlVars, histVars>>

Calls ==
         [op : {"Subscribe", "Unsubscribe"}, topic : Topics]
    \cup [op : {"Publish"}, msg : Msgs]
    \cup [op : {"RunMessageLoop"}]

StartCall == [op |-> "StartSession"]

\* The acknowledgement a call waits for at each pc.
Awaits == [connack |-> "CONNACK", restoreAck |-> "SUBACK", suback |-> "SUBACK",
           unsuback |-> "UNSUBACK", puback |-> "PUBACK"]
Waiting == DOMAIN Awaits

TypeOK ==
    /\ LinkTypeOK
    /\ BrokerTypeOK
    /\ PahoTypeOK
    /\ mState \in {"NO_SESSION", "INITIAL", "CONNECTED", "DISCONNECTED"}
    /\ mSubscriptions \subseteq Topics
    /\ conf \in AllConfigs
    /\ sessionPresent \in BOOLEAN
    /\ pc \in {"idle", "auth", "tls", "connect", "connected", "restore", "body"}
              \cup Waiting
    /\ call \in Calls \cup {StartCall}
    /\ pc = "suback" => call.op = "Subscribe"
    /\ pc = "unsuback" => call.op = "Unsubscribe"
    /\ pc = "puback" => call.op = "Publish"
    /\ stage \in {"initClean", "initPersist", "reconnect"}
    /\ toRestore \subseteq Topics
    /\ unsure \subseteq Topics
    /\ used \subseteq Msgs
    /\ done \subseteq [msg : Msgs, qos2 : BOOLEAN]

Init ==
    /\ LinkInit
    /\ BrokerInit
    /\ PahoInit
    /\ mState = "NO_SESSION"
    /\ mSubscriptions = {}
    /\ conf \in Configs
    /\ sessionPresent = FALSE
    /\ pc = "idle"
    /\ call = StartCall
    /\ stage = "initClean"
    /\ toRestore = {}
    /\ unsure = {}
    /\ used = {}
    /\ done = {}

(***************************************************************************)
(* MqttTlsClient                                                           *)
(***************************************************************************)

\* Both halves of the connection are up, as far as the client knows.
BothUp == link # "closed" /\ isconnected

\* MqttTlsClient::Disconnect
Disconnect ==
    /\ IF isconnected
       THEN disconnect
       ELSE UNCHANGED mqttVars
    /\ c2b' = IF isconnected /\ link = "up"
              THEN Append(c2b, [type |-> "DISCONNECT"]) ELSE c2b
    /\ link' = "closed"
    /\ b2c' = <<>>
    /\ sessionPresent' = FALSE

\* Mutant: the MQTT half is left as it is.
TakeDownTlsOnly == Close /\ UNCHANGED mqttVars

\* MqttTlsClient::IsConnected when it returns false: whichever half is still up
\* is taken down.  A DISCONNECT cannot be written to a closed connection.
TakeDown ==
    IF link = "closed"
    THEN /\ IF isconnected THEN disconnect ELSE UNCHANGED mqttVars
         /\ UNCHANGED linkVars
    ELSE Close /\ UNCHANGED mqttVars

\* m_sessionPresent survives IsConnected only if there was nothing to take down.
KeepSessionPresent ==
    sessionPresent' = (sessionPresent /\ link = "closed" /\ ~isconnected)

Reconcile == TakeDown /\ KeepSessionPresent

(***************************************************************************)
(* Calls of the API.  Each first runs CheckState, which goes to "auth" to  *)
(* (re)connect or straight to the "body" of the call.                      *)
(***************************************************************************)
Noted(c) ==
    /\ call' = c
    /\ used' = IF c.op = "Publish" THEN used \cup {c.msg} ELSE used
    /\ UNCHANGED <<unsure, done>>

MayCall(c) ==
    /\ pc = "idle"
    /\ c.op \in Ops
    /\ c.op = "Publish" => c.msg \notin used

StartSession(cf) ==
    /\ pc = "idle"
    /\ mState = "NO_SESSION"
    /\ conf' = cf
    /\ mState' = "INITIAL"
    /\ call' = StartCall
    /\ stage' = "initClean"
    /\ pc' = "auth"
    /\ UNCHANGED <<linkVars, faults, brokerVars, mqttVars, sessionPresent,
                   mSubscriptions, toRestore, histVars>>

EndSession ==
    /\ pc = "idle"
    /\ "EndSession" \in Ops
    /\ mState # "NO_SESSION"
    /\ Disconnect
    /\ mSubscriptions' = {}
    /\ mState' = "NO_SESSION"
    /\ unsure' = {}
    /\ UNCHANGED <<faults, brokerVars, conf, pc, ctlVars, used, done>>

\* Client::IsConnected, called by the application.
IsConnected ==
    /\ pc = "idle"
    /\ "IsConnected" \in Ops
    /\ ~BothUp
    /\ Reconcile
    /\ UNCHANGED <<faults, brokerVars, sessVars, pc, ctlVars, histVars>>

\* CheckState, case INITIAL
CallInitial(c) ==
    /\ MayCall(c)
    /\ mState = "INITIAL"
    /\ Noted(c)
    /\ stage' = "initClean"
    /\ pc' = "auth"
    /\ UNCHANGED <<linkVars, faults, brokerVars, mqttVars, sessVars,
                   sessionPresent, toRestore>>

\* CheckState, the connection is up: the call goes on only if m_state says so.
CallConnected(c) ==
    /\ MayCall(c)
    /\ mState \in {"CONNECTED", "DISCONNECTED"}
    /\ BothUp
    /\ Noted(c)
    /\ pc' = IF mState = "CONNECTED" THEN "body" ELSE "idle"
    /\ UNCHANGED <<linkVars, faults, brokerVars, mqttVars, sessVars,
                   sessionPresent, stage, toRestore>>

\* CheckState, the connection is down: OnConnectionLost if it was up, Reconnect.
CallReconnect(c) ==
    /\ MayCall(c)
    /\ mState \in {"CONNECTED", "DISCONNECTED"}
    /\ ~BothUp
    /\ Reconcile
    /\ Noted(c)
    /\ mState' = "DISCONNECTED"
    /\ stage' = "reconnect"
    /\ pc' = "auth"
    /\ UNCHANGED <<faults, brokerVars, mSubscriptions, conf, toRestore>>

(***************************************************************************)
(* Authenticate, then MqttTlsClient::Connect or Reconnect.                 *)
(***************************************************************************)

\* CheckState returns false to the call, which reports the error and returns.
GiveUp == pc' = "idle" /\ toRestore' = {} /\ UNCHANGED <<call, stage>>

AuthOk ==
    /\ pc = "auth"
    /\ pc' = "tls"
    /\ UNCHANGED <<linkVars, faults, brokerVars, mqttVars, sessVars,
                   sessionPresent, ctlVars, histVars>>

AuthFails ==
    /\ pc = "auth"
    /\ Fault("auth")
    /\ GiveUp
    /\ UNCHANGED <<linkVars, brokerVars, mqttVars, sessVars, sessionPresent,
                   histVars>>

\* MqttTlsClient::Connect(bool): an early return if both halves are up, else
\* what is left of an old connection is taken down and a new one is opened.
ConnectTls ==
    /\ pc = "tls"
    /\ IF BothUp
       THEN pc' = "connected" /\ UNCHANGED <<linkVars, bConn, mqttVars, sessionPresent>>
       ELSE /\ pc' = "connect"
            /\ IF link = "closed" /\ isconnected THEN disconnect
               ELSE UNCHANGED mqttVars
            /\ KeepSessionPresent
            /\ TlsConnect
            /\ bConn' = "none"
    /\ UNCHANGED <<faults, bStored, bSubs, bHeld, bRecv, sessVars, ctlVars,
                   histVars>>

ConnectTlsFails ==
    /\ pc = "tls"
    /\ ~BothUp
    /\ Fault("tls")
    /\ TakeDown
    /\ sessionPresent' = FALSE
    /\ GiveUp
    /\ UNCHANGED <<brokerVars, sessVars, histVars>>

\* The clean flag: MqttTlsClient::Connect() asks for a clean session first, and
\* then, as Reconnect() does, for one only if it is not persistent.
CleanFlag == stage = "initClean" \/ ~conf.persistent

ConnectSent ==
    /\ pc = "connect"
    /\ connectSent(CleanFlag)
    /\ pc' = "connack"
    /\ UNCHANGED <<faults, brokerVars, sessVars, sessionPresent, ctlVars,
                   histVars>>

\* MqttConnect failed: OnError, and the TLS connection is closed.
ConnectNotSent ==
    /\ pc = "connect"
    /\ connectNotSent(CleanFlag)
    /\ sessionPresent' = FALSE
    /\ GiveUp
    /\ UNCHANGED <<faults, brokerVars, sessVars, histVars>>

ConnackOk ==
    /\ pc = "connack"
    /\ connackOk
    /\ sessionPresent' = Head(b2c).sp
    /\ pc' = "connected"
    /\ UNCHANGED <<faults, brokerVars, sessVars, ctlVars, histVars>>

ConnackRefused ==
    /\ pc = "connack"
    /\ connackRefused
    /\ Close
    /\ sessionPresent' = FALSE
    /\ GiveUp
    /\ UNCHANGED <<faults, brokerVars, sessVars, histVars>>

\* A command runs into its timeout: for sure if the connection is lost, and as
\* a fault if the broker is slow.
TimerExpires ==
    IF link = "up" THEN Fault("timeout") ELSE UNCHANGED faults

ConnackTimeout ==
    /\ pc = "connack"
    /\ TimerExpires
    /\ connectTimeout
    /\ Close
    /\ sessionPresent' = FALSE
    /\ GiveUp
    /\ UNCHANGED <<brokerVars, sessVars, histVars>>

\* Connect() of a persistent session: the clean one is given up again, which
\* makes the broker forget what it stored, and a lasting one is asked for.
ConnectAgain ==
    /\ pc = "connected"
    /\ stage = "initClean"
    /\ conf.persistent
    /\ Disconnect
    /\ stage' = "initPersist"
    /\ pc' = "tls"
    /\ UNCHANGED <<faults, brokerVars, sessVars, call, toRestore, histVars>>

\* CheckState sets CONNECTED, calls OnConnected and returns true to the call.
NowConnected ==
    /\ mState' = "CONNECTED"
    /\ pc' = IF call = StartCall THEN "idle" ELSE "body"
    /\ UNCHANGED <<linkVars, faults, brokerVars, mqttVars, sessionPresent,
                   mSubscriptions, conf, ctlVars, used, done>>

Connected ==
    /\ pc = "connected"
    /\ \/ stage = "initClean" /\ ~conf.persistent
       \/ stage = "initPersist"
       \/ stage = "reconnect" /\ sessionPresent
    /\ NowConnected
    /\ UNCHANGED unsure

\* Mutant: Reconnect restores nothing.
StartRestoreNothing ==
    /\ pc = "connected"
    /\ stage = "reconnect"
    /\ ~sessionPresent
    /\ pc' = "restore"
    /\ UNCHANGED <<linkVars, faults, brokerVars, mqttVars, sessVars,
                   sessionPresent, call, stage, toRestore, histVars>>

\* Reconnect: the broker has no session, so RestoreSubscriptions.
StartRestore ==
    /\ pc = "connected"
    /\ stage = "reconnect"
    /\ ~sessionPresent
    /\ toRestore' = mSubscriptions
    /\ pc' = "restore"
    /\ UNCHANGED <<linkVars, faults, brokerVars, mqttVars, sessVars,
                   sessionPresent, call, stage, histVars>>

\* Mutant: the iterator is not advanced.
RestoreSame(t) ==
    /\ pc = "restore"
    /\ t \in toRestore
    /\ subscribeSent(t)
    /\ pc' = "restoreAck"
    /\ UNCHANGED <<faults, brokerVars, sessVars, sessionPresent, call, stage,
                   toRestore, histVars>>

RestoreNext(t) ==
    /\ pc = "restore"
    /\ t \in toRestore
    /\ subscribeSent(t)
    /\ toRestore' = toRestore \ {t}
    /\ pc' = "restoreAck"
    /\ UNCHANGED <<faults, brokerVars, sessVars, sessionPresent, call, stage,
                   histVars>>

RestoreNotSent ==
    /\ pc = "restore"
    /\ toRestore # {}
    /\ commandNotSent
    /\ sessionPresent' = FALSE
    /\ GiveUp
    /\ UNCHANGED <<faults, brokerVars, sessVars, histVars>>

RestoreAck ==
    /\ pc = "restoreAck"
    /\ ackRead("SUBACK")
    /\ Head(b2c).granted
    /\ pc' = "restore"
    /\ UNCHANGED <<faults, brokerVars, mqttVars, sessVars, sessionPresent,
                   ctlVars, histVars>>

RestoreRejected ==
    /\ pc = "restoreAck"
    /\ ackRead("SUBACK")
    /\ ~Head(b2c).granted
    /\ commandFailed
    /\ sessionPresent' = FALSE
    /\ GiveUp
    /\ UNCHANGED <<faults, brokerVars, sessVars, histVars>>

RestoreTimeout ==
    /\ pc = "restoreAck"
    /\ TimerExpires
    /\ commandFailed
    /\ sessionPresent' = FALSE
    /\ GiveUp
    /\ UNCHANGED <<linkVars, brokerVars, sessVars, histVars>>

\* Every subscription is back, and no other one.
Restored ==
    /\ pc = "restore"
    /\ toRestore = {}
    /\ NowConnected
    /\ unsure' = {}

(***************************************************************************)
(* The bodies of Subscribe, Unsubscribe, Publish and RunMessageLoop.       *)
(***************************************************************************)
Body(op) == pc = "body" /\ call.op = op

Return == pc' = "idle" /\ UNCHANGED ctlVars

\* Mutant: the topic is noted before the broker has answered.
SubscribeSentNoted ==
    /\ Body("Subscribe")
    /\ subscribeSent(call.topic)
    /\ mSubscriptions' = mSubscriptions \cup {call.topic}
    /\ unsure' = unsure \cup {call.topic}
    /\ pc' = "suback"
    /\ UNCHANGED <<faults, brokerVars, mState, conf, sessionPresent, ctlVars, used,
                   done>>

SubscribeSent ==
    /\ Body("Subscribe")
    /\ subscribeSent(call.topic)
    /\ unsure' = unsure \cup {call.topic}
    /\ pc' = "suback"
    /\ UNCHANGED <<faults, brokerVars, sessVars, sessionPresent, ctlVars, used,
                   done>>

SubscribeAck ==
    /\ pc = "suback"
    /\ ackRead("SUBACK")
    /\ Head(b2c).granted
    /\ mSubscriptions' = mSubscriptions \cup {call.topic}
    /\ unsure' = unsure \ {call.topic}
    /\ Return
    /\ UNCHANGED <<faults, brokerVars, mqttVars, mState, conf, sessionPresent,
                   used, done>>

SubscribeRejected ==
    /\ pc = "suback"
    /\ ackRead("SUBACK")
    /\ ~Head(b2c).granted
    /\ commandFailed
    /\ sessionPresent' = FALSE
    /\ Return
    /\ UNCHANGED <<faults, brokerVars, sessVars, histVars>>

UnsubscribeSent ==
    /\ Body("Unsubscribe")
    /\ unsubscribeSent(call.topic)
    /\ unsure' = unsure \cup {call.topic}
    /\ pc' = "unsuback"
    /\ UNCHANGED <<faults, brokerVars, sessVars, sessionPresent, ctlVars, used,
                   done>>

UnsubscribeAck ==
    /\ pc = "unsuback"
    /\ ackRead("UNSUBACK")
    /\ mSubscriptions' = mSubscriptions \ {call.topic}
    /\ unsure' = unsure \ {call.topic}
    /\ Return
    /\ UNCHANGED <<faults, brokerVars, mqttVars, mState, conf, sessionPresent,
                   used, done>>

\* Mutant: a QoS 1 publish, too, is over once written.
PublishSentNoWait ==
    /\ Body("Publish")
    /\ publishSent(call.msg, conf.qos2)
    /\ pc' = "idle"
    /\ done' = done \cup {[msg |-> call.msg, qos2 |-> conf.qos2]}
    /\ UNCHANGED <<faults, brokerVars, sessVars, sessionPresent, ctlVars, unsure,
                   used>>

\* A QoS 1 publish waits for its PUBACK, a QoS 2 publish is over once written.
PublishSent ==
    /\ Body("Publish")
    /\ publishSent(call.msg, conf.qos2)
    /\ pc' = IF conf.qos2 THEN "idle" ELSE "puback"
    /\ done' = IF conf.qos2 THEN done \cup {[msg |-> call.msg, qos2 |-> TRUE]}
               ELSE done
    /\ UNCHANGED <<faults, brokerVars, sessVars, sessionPresent, ctlVars, unsure,
                   used>>

PublishAck ==
    /\ pc = "puback"
    /\ pubackRead
    /\ done' = done \cup {[msg |-> call.msg, qos2 |-> FALSE]}
    /\ Return
    /\ UNCHANGED <<faults, brokerVars, sessVars, sessionPresent, unsure, used>>

\* The packet of a Subscribe, Unsubscribe or Publish could not be written.
CommandNotSent ==
    /\ pc = "body"
    /\ call.op \in {"Subscribe", "Unsubscribe", "Publish"}
    /\ commandNotSent
    /\ sessionPresent' = FALSE
    /\ Return
    /\ UNCHANGED <<faults, brokerVars, sessVars, histVars>>

\* The application's topic or message is too long for a packet.
CommandTooLong ==
    /\ pc = "body"
    /\ call.op \in {"Subscribe", "Unsubscribe"}
    /\ Fault("tooLong")
    /\ commandTooLong
    /\ sessionPresent' = FALSE
    /\ Return
    /\ UNCHANGED <<linkVars, brokerVars, sessVars, histVars>>

PublishTooLong ==
    /\ Body("Publish")
    /\ Fault("tooLong")
    /\ publishTooLong
    /\ sessionPresent' = FALSE
    /\ Return
    /\ UNCHANGED <<linkVars, brokerVars, sessVars, histVars>>

CommandTimeout ==
    /\ pc \in {"suback", "unsuback", "puback"}
    /\ TimerExpires
    /\ commandFailed
    /\ sessionPresent' = FALSE
    /\ Return
    /\ UNCHANGED <<linkVars, brokerVars, sessVars, histVars>>

\* waitfor: a packet that is not the acknowledgement awaited.
WaitOther ==
    /\ pc \in Waiting
    /\ cycleOther(Awaits[pc])
    /\ UNCHANGED <<faults, brokerVars, sessVars, sessionPresent, pc, ctlVars,
                   histVars>>

\* waitfor: a read error closes the connection; the wait goes on to its timeout.
WaitReadFails ==
    /\ pc \in Waiting
    /\ ReadFails
    /\ UNCHANGED <<faults, brokerVars, mqttVars, sessVars, sessionPresent, pc,
                   ctlVars, histVars>>

\* yield: one packet is read and handled.
LoopRead ==
    /\ Body("RunMessageLoop")
    /\ cycleOther("none")
    /\ UNCHANGED <<faults, brokerVars, sessVars, sessionPresent, pc, ctlVars,
                   histVars>>

\* yield: the timer expires between reading a PUBREC and answering it, so that
\* the answer is not written and the loop ends.
LoopReadTooLate ==
    /\ Body("RunMessageLoop")
    /\ Read
    /\ Head(b2c).type = "PUBREC"
    /\ Fault("timeout")
    /\ Return
    /\ UNCHANGED <<link, c2b, brokerVars, mqttVars, sessVars, sessionPresent,
                   histVars>>

\* yield: the timer expires, or a read times out.
LoopEnd ==
    /\ Body("RunMessageLoop")
    /\ Return
    /\ UNCHANGED <<linkVars, faults, brokerVars, mqttVars, sessVars,
                   sessionPresent, histVars>>

\* yield: a read fails; the connection is closed, so RunMessageLoop fails.
LoopReadFails ==
    /\ Body("RunMessageLoop")
    /\ ReadFails
    /\ sessionPresent' = FALSE
    /\ Return
    /\ UNCHANGED <<faults, brokerVars, mqttVars, sessVars, histVars>>

(***************************************************************************)
(* The specification                                                       *)
(***************************************************************************)
AppCall(c) == CallInitial(c) \/ CallConnected(c) \/ CallReconnect(c)

Connecting ==
    \/ AuthOk
    \/ AuthFails
    \/ ConnectTls
    \/ ConnectTlsFails
    \/ ConnectSent
    \/ ConnectNotSent
    \/ ConnackOk
    \/ ConnackRefused
    \/ ConnackTimeout
    \/ ConnectAgain
    \/ Connected
    \/ StartRestore
    \/ \E t \in Topics : RestoreNext(t)
    \/ RestoreNotSent
    \/ RestoreAck
    \/ RestoreRejected
    \/ RestoreTimeout
    \/ Restored

InBody ==
    \/ SubscribeSent
    \/ SubscribeAck
    \/ SubscribeRejected
    \/ UnsubscribeSent
    \/ UnsubscribeAck
    \/ PublishSent
    \/ PublishAck
    \/ CommandNotSent
    \/ CommandTooLong
    \/ PublishTooLong
    \/ CommandTimeout
    \/ WaitOther
    \/ WaitReadFails
    \/ LoopRead
    \/ LoopReadTooLate
    \/ LoopEnd
    \/ LoopReadFails

clientVars == <<mqttVars, sessVars, sessionPresent, pc, ctlVars, histVars>>

Outside ==
    /\ BrokerStep \/ BrokerLosesSession \/ (Drop /\ UNCHANGED brokerVars)
    /\ UNCHANGED clientVars

Next ==
    \/ \E cf \in Configs : StartSession(cf)
    \/ EndSession
    \/ IsConnected
    \/ \E c \in Calls : AppCall(c)
    \/ Connecting
    \/ InBody
    \/ Outside

Spec == Init /\ [][Next]_vars

(***************************************************************************)
(* Fairness.  The client's thread runs; the broker answers; an application *)
(* with a session keeps calling RunMessageLoop (README: it must be called  *)
(* regularly); a lost connection is reported to the reader of the socket   *)
(* sooner or later, though any single read may only time out.              *)
(***************************************************************************)
Fairness ==
    /\ WF_vars(Connecting \/ InBody)
    /\ WF_vars(BrokerStep /\ UNCHANGED clientVars)
    /\ WF_vars(AppCall([op |-> "RunMessageLoop"]))
    /\ SF_vars(LoopReadFails)

FairSpec == Spec /\ Fairness

(***************************************************************************)
(* Properties                                                              *)
(***************************************************************************)

\* Between two calls a session that is not CONNECTED has no working connection.
\* CheckState answers such a state with false when it finds the connection up
\* (return m_state == CONNECTED), so it would refuse every later call.
NotStuck ==
    pc = "idle" /\ mState # "CONNECTED" => ~BothUp

\* A CONNECT is only ever made from scratch: MQTT::Client::connect refuses to run
\* when isconnected, and a TLS connection that is still open would bring the
\* answers of earlier commands with it.
ConnectFromScratch ==
    /\ pc = "tls" => link = "closed" /\ ~isconnected
    /\ pc = "connect" => ~isconnected /\ c2b = <<>> /\ b2c = <<>>

Acks == {"SUBACK", "UNSUBACK", "PUBACK"}

\* subscribe, unsubscribe and publish take the first acknowledgement of their
\* type as their own without comparing packet ids ("should be the same as the
\* packetid above", MQTTClient.h:811).  It is: no acknowledgement of an earlier
\* command, timed out or failed, is ever left for a later one to find.
AckIsForThisCommand ==
    pc \in Waiting =>
        \A i \in 1..Len(b2c) :
            b2c[i].type \in Acks =>
                b2c[i].type = Awaits[pc] /\ b2c[i].id = packetid

\* A call is over, the client is CONNECTED and so is the broker.
Settled ==
    /\ pc = "idle"
    /\ mState = "CONNECTED"
    /\ isconnected
    /\ link = "up"
    /\ bConn = "accepted"

\* Whenever the client is connected and no call is in progress, the broker is
\* subscribed to exactly the client's topics.  With a persistent session a topic
\* whose last Subscribe or Unsubscribe failed may differ (its command may have
\* reached the broker, and the session is not restored).
SubscriptionsAgree ==
    Settled =>
        \A t \in Topics : (t \in mSubscriptions) # (t \in bSubs) =>
                               conf.persistent /\ t \in unsure

\* A QoS 1 Publish that returned true was taken over by the broker, exactly once.
PublishedOnce ==
    \A p \in done : ~p.qos2 => bRecv[p.msg] = 1

\* The publish that connect sends again is never a QoS 1 one: a QoS 1 publish is
\* acknowledged or forgotten before the next connection.
ResendOnlyQoS2 ==
    pc = "connack" /\ inflight # NoInflight => inflight.qos2

\* Every call of the API returns.
CallsReturn == (pc # "idle") ~> (pc = "idle")

\* A session that is not ended gets connected (again), whatever was lost.
Reconnects ==
    (mState # "NO_SESSION") ~> (mState = "NO_SESSION" \/ Settled)

(***************************************************************************)
(* Refinement: the detailed client implements the session of Session.      *)
(***************************************************************************)
Abstract == INSTANCE Session WITH
    state <- mState,
    qos2 <- conf.qos2,
    topics <- mSubscriptions,
    busy <- IF pc = "idle" THEN [op |-> "none"] ELSE call,
    handed <- used,
    arrived <- {m \in Msgs : bRecv[m] > 0},
    confirmed <- done

\* Whatever is lost, refused or late underneath, the application sees the session
\* of Session: subscriptions change only by a call that succeeds on a connected
\* session, a call has its whole effect or none, a QoS 1 Publish returns true only
\* after the broker has the message, and only the beginning of a call reports a
\* lost connection.
ImplementsSession == Abstract!Spec

(***************************************************************************)
(* What the documentation says and the code does not do                    *)
(***************************************************************************)

\* README: subscriptions made during a session are restored after reconnecting,
\* even if the broker does not store them.
SubscriptionsRestored == Settled => mSubscriptions \subseteq bSubs

\* README: OnConnected is invoked after successfully connected to the broker.
OnConnectedMeansAccepted ==
    [][mState' = "CONNECTED" /\ mState # "CONNECTED" => bConn = "accepted"]_vars

\* QoS 2 means exactly once: a publish taken over and completed is not sent again.
QoS2AtMostOnce == \A p \in done : p.qos2 => bRecv[p.msg] <= 1
=============================================================================
