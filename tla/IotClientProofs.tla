-------------------------- MODULE IotClientProofs --------------------------
(***************************************************************************)
(* Theorems about IotClient, for every set of topics and messages, every   *)
(* packet id limit and any number and choice of faults.                    *)
(***************************************************************************)
EXTENDS IotClient, SequenceLemmas

(***************************************************************************)
(* Packets                                                                 *)
(***************************************************************************)

\* What the broker knows of a packet from its type.
LEMMA ToBrokerFields ==
    ASSUME NEW p \in ToBroker
    PROVE  /\ p.type = "CONNECT" => p.clean \in BOOLEAN
           /\ p.type \in {"SUBSCRIBE", "UNSUBSCRIBE"} =>
                p.id \in PacketIds /\ p.topic \in Topics
           /\ p.type = "PUBLISH" =>
                p.id \in PacketIds /\ p.msg \in Msgs /\ p.qos2 \in BOOLEAN
           /\ p.type = "PUBREL" => p.id \in PacketIds
  BY DEF ToBroker

\* What the client knows of a packet from its type.
LEMMA ToClientFields ==
    ASSUME NEW p \in ToClient
    PROVE  /\ p.type = "CONNACK" => p.accepted \in BOOLEAN /\ p.sp \in BOOLEAN
           /\ p.type # "CONNACK" => p.id \in PacketIds
           /\ p.type = "SUBACK" => p.granted \in BOOLEAN
  BY DEF ToClient

\* The packets the client writes are packets.
LEMMA TopicPackets ==
    ASSUME NEW i \in PacketIds, NEW t \in Topics
    PROVE  /\ [type |-> "SUBSCRIBE", id |-> i, topic |-> t] \in ToBroker
           /\ [type |-> "UNSUBSCRIBE", id |-> i, topic |-> t] \in ToBroker
  BY DEF ToBroker

LEMMA PublishPackets ==
    ASSUME NEW i \in PacketIds, NEW m \in Msgs, NEW b \in BOOLEAN
    PROVE  [type |-> "PUBLISH", id |-> i, msg |-> m, qos2 |-> b] \in ToBroker
  BY DEF ToBroker

LEMMA PlainPackets ==
    ASSUME NEW i \in PacketIds, NEW b \in BOOLEAN
    PROVE  /\ [type |-> "CONNECT", clean |-> b] \in ToBroker
           /\ [type |-> "PUBREL", id |-> i] \in ToBroker
           /\ [type |-> "DISCONNECT"] \in ToBroker
  BY DEF ToBroker

\* The packets the broker writes are packets.
LEMMA BrokerPackets ==
    ASSUME NEW i \in PacketIds, NEW a \in BOOLEAN, NEW b \in BOOLEAN
    PROVE  /\ [type |-> "CONNACK", accepted |-> a, sp |-> b] \in ToClient
           /\ [type |-> "SUBACK", id |-> i, granted |-> a] \in ToClient
           /\ [type |-> "UNSUBACK", id |-> i] \in ToClient
           /\ [type |-> "PUBACK", id |-> i] \in ToClient
           /\ [type |-> "PUBREC", id |-> i] \in ToClient
           /\ [type |-> "PUBCOMP", id |-> i] \in ToClient
  BY DEF ToClient

\* PacketId::getNext stays within the ids of a packet, wrapping included.
LEMMA GetNextType ==
    ASSUME packetid \in 0..MaxPacketId
    PROVE  getNext \in PacketIds
  BY MaxPacketIdAssumption DEF getNext, PacketIds

(***************************************************************************)
(* Type correctness                                                        *)
(***************************************************************************)

\* Writing, reading and closing keep the connection's types.
LEMMA WriteOkType ==
    ASSUME LinkTypeOK, NEW p \in ToBroker, WriteOk(p), b2c' \in Seq(ToClient),
           faults' = faults
    PROVE  LinkTypeOK'
  BY DEF LinkTypeOK, WriteOk

LEMMA CloseType ==
    ASSUME LinkTypeOK, Close, faults' \in 0..MaxFaults
    PROVE  LinkTypeOK'
  BY DEF LinkTypeOK, Close

LEMMA FaultType ==
    ASSUME LinkTypeOK, NEW k, Fault(k) \/ faults' = faults
    PROVE  faults' \in 0..MaxFaults
  BY MaxFaultsAssumption DEF LinkTypeOK, Fault

LEMMA ReadType ==
    ASSUME LinkTypeOK, Read
    PROVE  /\ Head(b2c) \in ToClient
           /\ b2c' \in Seq(ToClient)
           /\ faults' = faults /\ UNCHANGED <<link, c2b>> => LinkTypeOK'
  BY HeadTail DEF LinkTypeOK, Read

\* The ends of commands keep the MQTT client's types.
LEMMA EndOfCommandType ==
    ASSUME PahoTypeOK,
           disconnect \/ commandFailed \/ connectTimeout \/ UNCHANGED mqttVars
    PROVE  PahoTypeOK'
  BY DEF PahoTypeOK, disconnect, commandFailed, connectTimeout, cleanSession, mqttVars

LEMMA TakeDownType ==
    ASSUME LinkTypeOK, PahoTypeOK, TakeDown, faults' \in 0..MaxFaults
    PROVE  LinkTypeOK' /\ PahoTypeOK'
<1>1. LinkTypeOK'
  BY CloseType DEF TakeDown, LinkTypeOK, linkVars
<1>2. PahoTypeOK'
  BY EndOfCommandType DEF TakeDown
<1>3. QED
  BY <1>1, <1>2

LEMMA CommandNotSentType ==
    ASSUME PahoTypeOK, commandNotSent
    PROVE  PahoTypeOK'
<1>1. packetid' \in 0..MaxPacketId
  BY GetNextType, MaxPacketIdAssumption DEF PahoTypeOK, commandNotSent, PacketIds
<1>2. QED
  BY <1>1 DEF PahoTypeOK, commandNotSent, cleanSession

LEMMA TooLongType ==
    ASSUME PahoTypeOK, commandTooLong \/ publishTooLong
    PROVE  PahoTypeOK'
<1>1. packetid' \in 0..MaxPacketId
  BY GetNextType, MaxPacketIdAssumption
     DEF PahoTypeOK, commandTooLong, publishTooLong, PacketIds
<1>2. QED
  BY <1>1 DEF PahoTypeOK, commandTooLong, publishTooLong, cleanSession

LEMMA TypeCalls ==
    ASSUME TypeOK,
           \/ \E cf \in Configs : StartSession(cf)
           \/ EndSession
           \/ IsConnected
           \/ \E c \in Calls : AppCall(c)
    PROVE  TypeOK'
<1> USE DEF linkVars, brokerVars, mqttVars, sessVars, ctlVars, histVars
<1>1. CASE \E cf \in Configs : StartSession(cf)
  BY <1>1, ConfigsAssumption
     DEF StartSession, TypeOK, LinkTypeOK, BrokerTypeOK, PahoTypeOK
<1>2. CASE EndSession
  <2>1. LinkTypeOK'
    BY <1>2 DEF EndSession, Disconnect, TypeOK, LinkTypeOK, ToBroker
  <2>2. PahoTypeOK'
    BY <1>2, EndOfCommandType DEF EndSession, Disconnect, TypeOK
  <2>3. QED
    BY <1>2, <2>1, <2>2 DEF EndSession, Disconnect, TypeOK, BrokerTypeOK
<1>3. ASSUME ~BothUp, Reconcile, faults' = faults
      PROVE  LinkTypeOK' /\ PahoTypeOK' /\ sessionPresent' \in BOOLEAN
  BY <1>3, TakeDownType DEF Reconcile, KeepSessionPresent, TypeOK, LinkTypeOK
<1>4. CASE IsConnected
  BY <1>3, <1>4 DEF IsConnected, TypeOK, BrokerTypeOK
<1>5. ASSUME NEW c \in Calls, AppCall(c)
      PROVE  TypeOK'
  <2>1. Noted(c) => call' \in Calls \cup {StartCall} /\ used' \subseteq Msgs
    BY DEF Noted, Calls, TypeOK
  <2>2. CASE CallInitial(c)
    BY <2>1, <2>2 DEF CallInitial, Noted, TypeOK, LinkTypeOK, BrokerTypeOK, PahoTypeOK
  <2>3. CASE CallConnected(c)
    BY <2>1, <2>3 DEF CallConnected, Noted, TypeOK, LinkTypeOK, BrokerTypeOK, PahoTypeOK
  <2>4. CASE CallReconnect(c)
    BY <2>1, <2>4, <1>3 DEF CallReconnect, Noted, TypeOK, BrokerTypeOK
  <2>5. QED
    BY <1>5, <2>2, <2>3, <2>4 DEF AppCall
<1>6. QED
  BY <1>1, <1>2, <1>4, <1>5

LEMMA TypeConnecting ==
    ASSUME TypeOK, Connecting
    PROVE  TypeOK'
<1> USE DEF linkVars, brokerVars, mqttVars, sessVars, ctlVars, histVars
<1>1. LinkTypeOK /\ BrokerTypeOK /\ PahoTypeOK
  BY DEF TypeOK
<1>2. CleanFlag \in BOOLEAN
  BY DEF CleanFlag, TypeOK, AllConfigs
<1>3. CASE AuthOk
  BY <1>3 DEF AuthOk, TypeOK, LinkTypeOK, BrokerTypeOK, PahoTypeOK
<1>4. CASE AuthFails
  BY <1>4, <1>1, FaultType
     DEF AuthFails, GiveUp, TypeOK, LinkTypeOK, BrokerTypeOK, PahoTypeOK
<1>5. CASE ConnectTls
  <2>1. LinkTypeOK'
    <3>1. CASE BothUp
      BY <1>5, <1>1, <3>1 DEF ConnectTls, LinkTypeOK
    <3>2. CASE ~BothUp
      BY <1>5, <1>1, <3>2 DEF ConnectTls, TlsConnect, LinkTypeOK
    <3>3. QED
      BY <3>1, <3>2
  <2>2. PahoTypeOK'
    BY <1>5, <1>1, EndOfCommandType DEF ConnectTls
  <2>3. BrokerTypeOK' /\ sessionPresent' \in BOOLEAN
    BY <1>5 DEF ConnectTls, KeepSessionPresent, TypeOK, BrokerTypeOK
  <2>4. QED
    BY <1>5, <2>1, <2>2, <2>3 DEF ConnectTls, TypeOK
<1>6. CASE ConnectTlsFails
  <2>1. LinkTypeOK' /\ PahoTypeOK'
    BY <1>6, <1>1, FaultType, TakeDownType DEF ConnectTlsFails
  <2>2. QED
    BY <1>6, <2>1 DEF ConnectTlsFails, GiveUp, TypeOK, BrokerTypeOK
<1>7. CASE ConnectSent
  <2>1. [type |-> "CONNECT", clean |-> CleanFlag] \in ToBroker
    BY <1>2 DEF ToBroker
  <2>2. LinkTypeOK'
    BY <1>7, <1>1, <2>1, WriteOkType DEF ConnectSent, connectSent, LinkTypeOK
  <2>3. PahoTypeOK'
    BY <1>7, <1>1, <1>2 DEF ConnectSent, connectSent, PahoTypeOK
  <2>4. QED
    BY <1>7, <2>2, <2>3 DEF ConnectSent, TypeOK, BrokerTypeOK, Waiting, Awaits
<1>8. CASE ConnectNotSent
  <2>1. LinkTypeOK'
    BY <1>8, <1>1, CloseType DEF ConnectNotSent, connectNotSent, WriteFails, LinkTypeOK
  <2>2. PahoTypeOK'
    BY <1>8, <1>1, <1>2 DEF ConnectNotSent, connectNotSent, PahoTypeOK
  <2>3. QED
    BY <1>8, <2>1, <2>2 DEF ConnectNotSent, GiveUp, TypeOK, BrokerTypeOK
<1>9. CASE ConnackOk
  <2>1. Head(b2c) \in ToClient /\ b2c' \in Seq(ToClient) /\ Head(b2c).type = "CONNACK"
    BY <1>9, <1>1, ReadType DEF ConnackOk, connackOk
  <2>2. inflight # NoInflight => Resend \in ToBroker
    BY <1>1, PublishPackets DEF Resend, PahoTypeOK, Inflights
  <2>3. LinkTypeOK'
    BY <1>9, <1>1, <2>1, <2>2, ReadType, WriteOkType DEF ConnackOk, connackOk
  <2>4. PahoTypeOK'
    BY <1>9, <1>1 DEF ConnackOk, connackOk, PahoTypeOK
  <2>5. sessionPresent' \in BOOLEAN
    BY <1>9, <2>1, ToClientFields DEF ConnackOk
  <2>6. QED
    BY <1>9, <2>3, <2>4, <2>5 DEF ConnackOk, TypeOK, BrokerTypeOK
<1>10. CASE ConnackRefused
  <2>1. LinkTypeOK'
    BY <1>10, <1>1, CloseType DEF ConnackRefused, LinkTypeOK
  <2>2. QED
    BY <1>10, <2>1, ZenonT(60)
       DEF ConnackRefused, connackRefused, GiveUp, TypeOK, BrokerTypeOK, PahoTypeOK
<1>11. CASE ConnackTimeout
  <2>1. LinkTypeOK'
    BY <1>11, <1>1, CloseType, FaultType DEF ConnackTimeout, TimerExpires
  <2>2. PahoTypeOK'
    BY <1>11, <1>1, EndOfCommandType DEF ConnackTimeout
  <2>3. QED
    BY <1>11, <2>1, <2>2 DEF ConnackTimeout, GiveUp, TypeOK, BrokerTypeOK
<1>12. CASE ConnectAgain
  <2>1. LinkTypeOK'
    BY <1>12 DEF ConnectAgain, Disconnect, TypeOK, LinkTypeOK, ToBroker
  <2>2. PahoTypeOK'
    BY <1>12, <1>1, EndOfCommandType DEF ConnectAgain, Disconnect
  <2>3. QED
    BY <1>12, <2>1, <2>2 DEF ConnectAgain, Disconnect, TypeOK, BrokerTypeOK
<1>13. CASE Connected \/ Restored
  BY <1>13
     DEF Connected, Restored, NowConnected, TypeOK, LinkTypeOK, BrokerTypeOK, PahoTypeOK
<1>14. CASE StartRestore
  BY <1>14 DEF StartRestore, TypeOK, LinkTypeOK, BrokerTypeOK, PahoTypeOK
<1>15. ASSUME NEW t \in Topics, RestoreNext(t)
       PROVE  TypeOK'
  <2>1. getNext \in PacketIds
    BY <1>1, GetNextType DEF PahoTypeOK
  <2>2. LinkTypeOK'
    BY <1>15, <1>1, <2>1, TopicPackets, WriteOkType
       DEF RestoreNext, subscribeSent, LinkTypeOK
  <2>3. packetid' \in 0..MaxPacketId
    BY <1>15, <2>1, MaxPacketIdAssumption DEF RestoreNext, subscribeSent, PacketIds
  <2>4. PahoTypeOK'
    BY <1>15, <1>1, <2>3 DEF RestoreNext, subscribeSent, PahoTypeOK
  <2>5. QED
    BY <1>15, <2>2, <2>4 DEF RestoreNext, TypeOK, BrokerTypeOK, Waiting, Awaits
<1>16. CASE RestoreNotSent
  <2>1. LinkTypeOK'
    BY <1>16, <1>1, CloseType DEF RestoreNotSent, commandNotSent, WriteFails, LinkTypeOK
  <2>2. PahoTypeOK'
    BY <1>16, <1>1, CommandNotSentType DEF RestoreNotSent
  <2>3. QED
    BY <1>16, <2>1, <2>2 DEF RestoreNotSent, GiveUp, TypeOK, BrokerTypeOK
<1>17. CASE RestoreAck
  <2>1. LinkTypeOK'
    BY <1>17, <1>1, ReadType DEF RestoreAck, ackRead
  <2>2. QED
    BY <1>17, <2>1 DEF RestoreAck, TypeOK, BrokerTypeOK, PahoTypeOK
<1>18. CASE RestoreRejected
  <2>1. LinkTypeOK'
    BY <1>18, <1>1, ReadType DEF RestoreRejected, ackRead
  <2>2. PahoTypeOK'
    BY <1>18, <1>1, EndOfCommandType DEF RestoreRejected
  <2>3. QED
    BY <1>18, <2>1, <2>2 DEF RestoreRejected, GiveUp, TypeOK, BrokerTypeOK
<1>19. CASE RestoreTimeout
  <2>1. LinkTypeOK'
    BY <1>19, <1>1, FaultType DEF RestoreTimeout, TimerExpires, LinkTypeOK
  <2>2. PahoTypeOK'
    BY <1>19, <1>1, EndOfCommandType DEF RestoreTimeout
  <2>3. QED
    BY <1>19, <2>1, <2>2 DEF RestoreTimeout, GiveUp, TypeOK, BrokerTypeOK
<1>20. QED
  BY <1>3, <1>4, <1>5, <1>6, <1>7, <1>8, <1>9, <1>10, <1>11, <1>12, <1>13, <1>14,
     <1>15, <1>16, <1>17, <1>18, <1>19
     DEF Connecting

LEMMA PublishRecord ==
    ASSUME NEW m \in Msgs, NEW b \in BOOLEAN
    PROVE  [msg |-> m, qos2 |-> b] \in [msg : Msgs, qos2 : BOOLEAN]
  OBVIOUS

LEMMA TypeBody ==
    ASSUME TypeOK, InBody
    PROVE  TypeOK'
<1> USE DEF linkVars, brokerVars, mqttVars, sessVars, ctlVars, histVars
<1>1. LinkTypeOK /\ BrokerTypeOK /\ PahoTypeOK
  BY DEF TypeOK
<1>2. /\ call.op \in {"Subscribe", "Unsubscribe"} => call.topic \in Topics
      /\ call.op = "Publish" => call.msg \in Msgs
  BY DEF TypeOK, Calls, StartCall
<1>3. /\ getNext \in PacketIds
      /\ packetid' = getNext => packetid' \in 0..MaxPacketId
  BY <1>1, GetNextType, MaxPacketIdAssumption DEF PahoTypeOK, PacketIds
<1>4. CASE SubscribeSent
  <2>1. LinkTypeOK'
    BY <1>4, <1>1, <1>2, <1>3, TopicPackets, WriteOkType
       DEF SubscribeSent, Body, subscribeSent, LinkTypeOK
  <2>2. PahoTypeOK'
    BY <1>4, <1>1, <1>3 DEF SubscribeSent, subscribeSent, PahoTypeOK
  <2>3. QED
    BY <1>4, <1>2, <2>1, <2>2
       DEF SubscribeSent, Body, TypeOK, BrokerTypeOK, Waiting, Awaits
<1>5. CASE SubscribeAck
  <2>1. LinkTypeOK'
    BY <1>5, <1>1, ReadType DEF SubscribeAck, ackRead
  <2>2. call.topic \in Topics
    BY <1>5, <1>2 DEF SubscribeAck, TypeOK
  <2>3. QED
    BY <1>5, <2>1, <2>2 DEF SubscribeAck, Return, TypeOK, BrokerTypeOK, PahoTypeOK
<1>6. CASE SubscribeRejected
  <2>1. LinkTypeOK'
    BY <1>6, <1>1, ReadType DEF SubscribeRejected, ackRead
  <2>2. PahoTypeOK'
    BY <1>6, <1>1, EndOfCommandType DEF SubscribeRejected
  <2>3. QED
    BY <1>6, <2>1, <2>2 DEF SubscribeRejected, Return, TypeOK, BrokerTypeOK
<1>7. CASE UnsubscribeSent
  <2>1. LinkTypeOK'
    BY <1>7, <1>1, <1>2, <1>3, TopicPackets, WriteOkType
       DEF UnsubscribeSent, Body, unsubscribeSent, LinkTypeOK
  <2>2. PahoTypeOK'
    BY <1>7, <1>1, <1>3 DEF UnsubscribeSent, unsubscribeSent, PahoTypeOK
  <2>3. QED
    BY <1>7, <1>2, <2>1, <2>2
       DEF UnsubscribeSent, Body, TypeOK, BrokerTypeOK, Waiting, Awaits
<1>8. CASE UnsubscribeAck
  <2>1. LinkTypeOK'
    BY <1>8, <1>1, ReadType DEF UnsubscribeAck, ackRead
  <2>2. QED
    BY <1>8, <2>1 DEF UnsubscribeAck, Return, TypeOK, BrokerTypeOK, PahoTypeOK
<1>9. CASE PublishSent
  <2>1. call.msg \in Msgs /\ conf.qos2 \in BOOLEAN
    BY <1>9, <1>2 DEF PublishSent, Body, TypeOK, AllConfigs
  <2>2. LinkTypeOK'
    BY <1>9, <1>1, <1>3, <2>1, PublishPackets, WriteOkType
       DEF PublishSent, publishSent, LinkTypeOK
  <2>3. inflight' \in Inflights \cup {NoInflight}
    BY <1>9, <1>1, <1>3, <2>1 DEF PublishSent, publishSent, PahoTypeOK, Inflights
  <2>4. PahoTypeOK'
    BY <1>9, <1>1, <1>3, <2>3 DEF PublishSent, publishSent, PahoTypeOK
  <2>5. done' \subseteq [msg : Msgs, qos2 : BOOLEAN]
    <3>1. [msg |-> call.msg, qos2 |-> TRUE] \in [msg : Msgs, qos2 : BOOLEAN]
      BY <2>1, PublishRecord
    <3>2. done \subseteq [msg : Msgs, qos2 : BOOLEAN]
      BY DEF TypeOK
    <3>3. \/ done' = done
          \/ done' = done \cup {[msg |-> call.msg, qos2 |-> TRUE]}
      BY <1>9 DEF PublishSent
    <3>4. QED
      BY <3>1, <3>2, <3>3
  <2>6. QED
    BY <1>9, <2>2, <2>4, <2>5
       DEF PublishSent, Body, TypeOK, BrokerTypeOK, Waiting, Awaits
<1>10. CASE PublishAck
  <2>1. LinkTypeOK'
    BY <1>10, <1>1, ReadType DEF PublishAck, pubackRead, ackRead
  <2>2. PahoTypeOK'
    BY <1>10, <1>1 DEF PublishAck, pubackRead, PahoTypeOK
  <2>3. call.msg \in Msgs
    BY <1>10, <1>2 DEF PublishAck, TypeOK
  <2>4. done' \subseteq [msg : Msgs, qos2 : BOOLEAN]
    <3>1. [msg |-> call.msg, qos2 |-> FALSE] \in [msg : Msgs, qos2 : BOOLEAN]
      BY <2>3, PublishRecord
    <3>2. done \subseteq [msg : Msgs, qos2 : BOOLEAN]
      BY DEF TypeOK
    <3>3. done' = done \cup {[msg |-> call.msg, qos2 |-> FALSE]}
      BY <1>10 DEF PublishAck
    <3>4. QED
      BY <3>1, <3>2, <3>3
  <2>5. QED
    BY <1>10, <2>1, <2>2, <2>4 DEF PublishAck, Return, TypeOK, BrokerTypeOK
<1>11. CASE CommandNotSent
  <2>1. LinkTypeOK'
    BY <1>11, <1>1, CloseType DEF CommandNotSent, commandNotSent, WriteFails, LinkTypeOK
  <2>2. PahoTypeOK'
    BY <1>11, <1>1, CommandNotSentType DEF CommandNotSent
  <2>3. QED
    BY <1>11, <2>1, <2>2 DEF CommandNotSent, Return, TypeOK, BrokerTypeOK
<1>11a. CASE CommandTooLong \/ PublishTooLong
  <2>1. LinkTypeOK'
    BY <1>11a, <1>1, FaultType DEF CommandTooLong, PublishTooLong, LinkTypeOK
  <2>2. PahoTypeOK'
    BY <1>11a, <1>1, TooLongType DEF CommandTooLong, PublishTooLong
  <2>3. QED
    BY <1>11a, <2>1, <2>2 DEF CommandTooLong, PublishTooLong, Return, TypeOK, BrokerTypeOK
<1>12. CASE CommandTimeout
  <2>1. LinkTypeOK'
    BY <1>12, <1>1, FaultType DEF CommandTimeout, TimerExpires, LinkTypeOK
  <2>2. PahoTypeOK'
    BY <1>12, <1>1, EndOfCommandType DEF CommandTimeout
  <2>3. QED
    BY <1>12, <2>1, <2>2 DEF CommandTimeout, Return, TypeOK, BrokerTypeOK
<1>13. ASSUME NEW a, cycleOther(a), faults' = faults
       PROVE  LinkTypeOK' /\ PahoTypeOK'
  <2>1. Head(b2c) \in ToClient /\ b2c' \in Seq(ToClient)
    BY <1>1, <1>13, ReadType DEF cycleOther
  <2>2. Head(b2c).type = "PUBREC" => [type |-> "PUBREL", id |-> Head(b2c).id] \in ToBroker
    BY <2>1, ToClientFields, PlainPackets
  <2>3. LinkTypeOK'
    BY <1>1, <1>13, <2>1, <2>2, ReadType, WriteOkType DEF cycleOther
  <2>4. QED
    BY <1>1, <1>13, <2>3, EndOfCommandType DEF cycleOther
<1>14. CASE WaitOther
  BY <1>13, <1>14 DEF WaitOther, TypeOK, BrokerTypeOK
<1>15. CASE LoopRead
  BY <1>13, <1>15 DEF LoopRead, TypeOK, BrokerTypeOK
<1>16. CASE WaitReadFails \/ LoopReadFails
  <2>1. LinkTypeOK'
    BY <1>16, <1>1, CloseType DEF WaitReadFails, LoopReadFails, ReadFails, LinkTypeOK
  <2>2. QED
    BY <1>16, <2>1, ZenonT(60)
       DEF WaitReadFails, LoopReadFails, Return, TypeOK, BrokerTypeOK, PahoTypeOK
<1>17. CASE LoopReadTooLate
  <2>1. LinkTypeOK'
    BY <1>17, <1>1, ReadType, FaultType DEF LoopReadTooLate, LinkTypeOK
  <2>2. QED
    BY <1>17, <2>1 DEF LoopReadTooLate, Return, TypeOK, BrokerTypeOK, PahoTypeOK
<1>18. CASE LoopEnd
  BY <1>18 DEF LoopEnd, Return, TypeOK, LinkTypeOK, BrokerTypeOK, PahoTypeOK
<1>19. QED
  BY <1>4, <1>5, <1>6, <1>7, <1>8, <1>9, <1>10, <1>11, <1>12, <1>14, <1>15, <1>16,
     <1>17, <1>18, <1>11a
     DEF InBody

LEMMA TypeOutside ==
    ASSUME TypeOK, Outside
    PROVE  TypeOK'
<1> USE DEF linkVars, brokerVars
<1>1. LinkTypeOK /\ BrokerTypeOK /\ PahoTypeOK
  BY DEF TypeOK
<1>2. c2b # <<>> => Pkt \in ToBroker /\ Tail(c2b) \in Seq(ToBroker)
  BY <1>1, HeadTail DEF Pkt, LinkTypeOK
<1>3. ASSUME NEW p \in ToClient, Reply(p), c2b # <<>>, c2b' = Tail(c2b),
             faults' \in 0..MaxFaults, link' = link
      PROVE  LinkTypeOK'
  BY <1>1, <1>2, <1>3 DEF Reply, LinkTypeOK
<1>4. LinkTypeOK' /\ BrokerTypeOK'
  <2>1. CASE BrokerAccept
    <3>1. Pkt.clean \in BOOLEAN
      BY <2>1, <1>2, ToBrokerFields DEF BrokerAccept, Take
    <3>2. [type |-> "CONNACK", accepted |-> TRUE, sp |-> ~Pkt.clean /\ bStored] \in ToClient
      BY <1>1, <3>1 DEF BrokerTypeOK, ToClient
    <3>3. LinkTypeOK'
      BY <2>1, <1>1, <1>3, <3>2 DEF BrokerAccept, Take, LinkTypeOK
    <3>4. QED
      BY <2>1, <1>1, <3>1, <3>3 DEF BrokerAccept, BrokerTypeOK
  <2>2. CASE BrokerRefuse
    <3>1. [type |-> "CONNACK", accepted |-> FALSE, sp |-> FALSE] \in ToClient
      BY DEF ToClient
    <3>2. LinkTypeOK'
      BY <2>2, <1>1, <1>3, <3>1, FaultType DEF BrokerRefuse, Take
    <3>3. QED
      BY <2>2, <1>1, <3>2 DEF BrokerRefuse, BrokerTypeOK
  <2>3. CASE BrokerHangUp
    BY <2>3, <1>1 DEF BrokerHangUp, LinkLost, LinkTypeOK, BrokerTypeOK
  <2>4. CASE BrokerIgnore
    BY <2>4, <1>1, <1>2 DEF BrokerIgnore, LinkTypeOK, BrokerTypeOK
  <2>5. CASE BrokerSubscribe
    <3>1. Pkt.id \in PacketIds /\ Pkt.topic \in Topics
      BY <2>5, <1>2, ToBrokerFields DEF BrokerSubscribe, Take
    <3>2. LinkTypeOK'
      BY <2>5, <1>1, <1>3, <3>1, BrokerPackets DEF BrokerSubscribe, Take, LinkTypeOK
    <3>3. QED
      BY <2>5, <1>1, <3>1, <3>2 DEF BrokerSubscribe, BrokerTypeOK
  <2>6. CASE BrokerReject
    <3>1. Pkt.id \in PacketIds
      BY <2>6, <1>2, ToBrokerFields DEF BrokerReject, Take
    <3>2. LinkTypeOK'
      BY <2>6, <1>1, <1>3, <3>1, BrokerPackets, FaultType DEF BrokerReject, Take
    <3>3. QED
      BY <2>6, <1>1, <3>2 DEF BrokerReject, BrokerTypeOK
  <2>7. CASE BrokerUnsubscribe
    <3>1. Pkt.id \in PacketIds
      BY <2>7, <1>2, ToBrokerFields DEF BrokerUnsubscribe, Take
    <3>2. LinkTypeOK'
      BY <2>7, <1>1, <1>3, <3>1, BrokerPackets DEF BrokerUnsubscribe, Take, LinkTypeOK
    <3>3. QED
      BY <2>7, <1>1, <3>2 DEF BrokerUnsubscribe, BrokerTypeOK
  <2>8. ASSUME NEW m \in Msgs, Receive(m)
        PROVE  bRecv' \in [Msgs -> 0..RecvCap]
    BY <1>1, <2>8 DEF Receive, BrokerTypeOK, RecvCap
  <2>9. CASE BrokerPublish1
    <3>1. Pkt.id \in PacketIds /\ Pkt.msg \in Msgs
      BY <2>9, <1>2, ToBrokerFields DEF BrokerPublish1, Take
    <3>2. LinkTypeOK'
      BY <2>9, <1>1, <1>3, <3>1, BrokerPackets DEF BrokerPublish1, Take, LinkTypeOK
    <3>3. QED
      BY <2>9, <1>1, <2>8, <3>1, <3>2 DEF BrokerPublish1, BrokerTypeOK
  <2>10. CASE BrokerPublish2
    <3>1. Pkt.id \in PacketIds /\ Pkt.msg \in Msgs
      BY <2>10, <1>2, ToBrokerFields DEF BrokerPublish2, Take
    <3>2. LinkTypeOK'
      BY <2>10, <1>1, <1>3, <3>1, BrokerPackets DEF BrokerPublish2, Take, LinkTypeOK
    <3>3. QED
      BY <2>10, <1>1, <2>8, <3>1, <3>2 DEF BrokerPublish2, BrokerTypeOK
  <2>11. CASE BrokerPubrel
    <3>1. Pkt.id \in PacketIds
      BY <2>11, <1>2, ToBrokerFields DEF BrokerPubrel, Take
    <3>2. LinkTypeOK'
      BY <2>11, <1>1, <1>3, <3>1, BrokerPackets DEF BrokerPubrel, Take, LinkTypeOK
    <3>3. QED
      BY <2>11, <1>1, <3>2 DEF BrokerPubrel, BrokerTypeOK
  <2>12. CASE BrokerDisconnect
    BY <2>12, <1>1, <1>2 DEF BrokerDisconnect, Take, LinkTypeOK, BrokerTypeOK
  <2>13. CASE BrokerLosesSession
    <3>1. faults' \in 0..MaxFaults
      BY <2>13, <1>1, FaultType DEF BrokerLosesSession
    <3>2. LinkTypeOK'
      BY <2>13, <1>1, <3>1 DEF BrokerLosesSession, LinkLost, LinkTypeOK
    <3>3. QED
      BY <2>13, <1>1, <3>2 DEF BrokerLosesSession, BrokerTypeOK
  <2>14. CASE Drop /\ UNCHANGED brokerVars
    BY <2>14, <1>1, FaultType DEF Drop, LinkLost, LinkTypeOK, BrokerTypeOK
  <2>15. QED
    BY <2>1, <2>2, <2>3, <2>4, <2>5, <2>6, <2>7, <2>9, <2>10, <2>11, <2>12, <2>13,
       <2>14
       DEF Outside, BrokerStep
<1>5. QED
  BY <1>4
     DEF Outside, clientVars, mqttVars, sessVars, ctlVars, histVars, TypeOK, PahoTypeOK

LEMMA TypeInit == Init => TypeOK
<1>1. Init => LinkTypeOK
  BY MaxFaultsAssumption DEF Init, LinkInit, LinkTypeOK
<1>2. Init => BrokerTypeOK
  <2>1. Init => bRecv \in [Msgs -> 0..RecvCap]
    BY DEF Init, BrokerInit, RecvCap
  <2>2. QED
    BY <2>1, Zenon DEF Init, BrokerInit, BrokerTypeOK
<1>3. Init => PahoTypeOK
  <2>1. Init => packetid \in 0..MaxPacketId
    BY MaxPacketIdAssumption DEF Init, PahoInit
  <2>2. QED
    BY <2>1, Zenon DEF Init, PahoInit, PahoTypeOK
<1>4. QED
  BY <1>1, <1>2, <1>3, ConfigsAssumption DEF Init, TypeOK

LEMMA TypeNext == TypeOK /\ [Next]_vars => TypeOK'
<1>1. CASE UNCHANGED vars
  BY <1>1 DEF vars, linkVars, brokerVars, mqttVars, sessVars, ctlVars, histVars,
              TypeOK, LinkTypeOK, BrokerTypeOK, PahoTypeOK
<1>2. QED
  BY <1>1, TypeCalls, TypeConnecting, TypeBody, TypeOutside DEF Next

\* The variables of the client, the connection and the broker keep their types.
THEOREM TypeCorrect == Spec => []TypeOK
<1>1. QED
  BY TypeInit, TypeNext, PTL DEF Spec

(***************************************************************************)
(* The inductive invariant                                                 *)
(***************************************************************************)

\* The two halves of the connection at each point of a call.  A connection is
\* opened from nothing, a command is only sent while connected, and a call that
\* ends without a session being CONNECTED leaves nothing up.
HalvesInv ==
    /\ pc \in {"auth", "tls"} => link = "closed" /\ ~isconnected
    /\ pc \in {"connect", "connack"} => ~isconnected
    /\ pc = "connect" => c2b = <<>> /\ b2c = <<>>
    /\ pc \in {"connected", "restore", "body"} \cup (Waiting \ {"connack"}) => isconnected
    /\ pc = "idle" /\ mState \in {"NO_SESSION", "INITIAL"} => link = "closed" /\ ~isconnected
    /\ pc = "idle" /\ mState = "DISCONNECTED" => ~BothUp

\* The state of the session at each point of a call.
StateInv ==
    /\ pc \in {"restore", "restoreAck"} => mState = "DISCONNECTED"
    /\ pc \in {"auth", "tls", "connect", "connack", "connected"} =>
          mState = IF stage = "reconnect" THEN "DISCONNECTED" ELSE "INITIAL"
    /\ pc \in {"body", "suback", "unsuback", "puback"} => mState = "CONNECTED"

\* The kept publish is a QoS 2 one, or the QoS 1 one being waited for.
InflightInv ==
    inflight # NoInflight =>
        inflight.qos2 \/ (pc = "puback" /\ inflight.id = packetid)

\* Packets that the broker answers with an acknowledgement some command takes.
IsCommand(p) ==
    p.type \in {"SUBSCRIBE", "UNSUBSCRIBE"} \/ (p.type = "PUBLISH" /\ ~p.qos2)

AckType(p) ==
    CASE p.type = "SUBSCRIBE" -> "SUBACK"
      [] p.type = "UNSUBSCRIBE" -> "UNSUBACK"
      [] OTHER -> "PUBACK"

\* Nothing that a later command could take for its acknowledgement is under way.
Quiet ==
    /\ \A i \in 1..Len(c2b) : ~IsCommand(c2b[i])
    /\ \A i \in 1..Len(b2c) : b2c[i].type \notin Acks

\* What is under way belongs to the command that awaits an acknowledgement of
\* type a, and there is one packet of it only.
OnlyOne(a) ==
    /\ \A i \in 1..Len(c2b) : IsCommand(c2b[i]) =>
          AckType(c2b[i]) = a /\ c2b[i].id = packetid
    /\ \A i \in 1..Len(b2c) : b2c[i].type \in Acks =>
          b2c[i].type = a /\ b2c[i].id = packetid
    /\ \A i, j \in 1..Len(c2b) : IsCommand(c2b[i]) /\ IsCommand(c2b[j]) => i = j
    /\ \A i, j \in 1..Len(b2c) : b2c[i].type \in Acks /\ b2c[j].type \in Acks => i = j
    /\ \A i \in 1..Len(c2b), j \in 1..Len(b2c) :
          ~(IsCommand(c2b[i]) /\ b2c[j].type \in Acks)

WireInv ==
    /\ pc \in {"connect", "connack", "connected", "restore", "body"} => Quiet
    /\ pc = "idle" /\ BothUp => Quiet
    /\ pc \in Waiting \ {"connack"} => OnlyOne(Awaits[pc])

IInv == TypeOK /\ HalvesInv /\ StateInv /\ InflightInv /\ WireInv

LEMMA StateStep ==
    ASSUME TypeOK, HalvesInv, StateInv, Next
    PROVE  StateInv'
<1> USE DEF linkVars, mqttVars, sessVars, ctlVars, Waiting, Awaits, BothUp
<1>1. CASE \E cf \in Configs : StartSession(cf)
  BY <1>1 DEF StateInv, StartSession
<1>2. CASE EndSession
  BY <1>2 DEF StateInv, EndSession, Disconnect, disconnect, cleanSession
<1>3. CASE IsConnected
  BY <1>3 DEF StateInv, IsConnected, Reconcile, TakeDown, disconnect, cleanSession, Close
<1>4. CASE \E c \in Calls : CallInitial(c)
  BY <1>4 DEF StateInv, CallInitial, MayCall, Noted
<1>5. CASE \E c \in Calls : CallConnected(c)
  BY <1>5 DEF StateInv, CallConnected, MayCall, Noted
<1>6. CASE \E c \in Calls : CallReconnect(c)
  BY <1>6
     DEF StateInv, CallReconnect, MayCall, Noted, Reconcile, TakeDown, disconnect, cleanSession, Close
<1>7. CASE AuthOk
  BY <1>7 DEF StateInv, AuthOk
<1>8. CASE AuthFails
  BY <1>8 DEF StateInv, AuthFails, GiveUp
<1>9. CASE ConnectTls
  BY <1>9 DEF StateInv, ConnectTls, TlsConnect
<1>10. CASE ConnectTlsFails
  BY <1>10 DEF StateInv, ConnectTlsFails, TakeDown, disconnect, cleanSession, Close, GiveUp
<1>11. CASE ConnectSent
  BY <1>11 DEF StateInv, ConnectSent, connectSent
<1>12. CASE ConnectNotSent
  BY <1>12 DEF StateInv, ConnectNotSent, connectNotSent, WriteFails, Close, GiveUp
<1>13. CASE ConnackOk
  BY <1>13 DEF StateInv, ConnackOk, connackOk
<1>14. CASE ConnackRefused
  BY <1>14 DEF StateInv, ConnackRefused, connackRefused, Close, GiveUp
<1>15. CASE ConnackTimeout
  BY <1>15 DEF StateInv, ConnackTimeout, connectTimeout, cleanSession, Close, GiveUp
<1>16. CASE ConnectAgain
  BY <1>16 DEF StateInv, ConnectAgain, Disconnect, disconnect, cleanSession
<1>17. CASE Connected
  BY <1>17 DEF StateInv, Connected, NowConnected
<1>18. CASE StartRestore
  BY <1>18 DEF StateInv, StartRestore
<1>19. CASE \E t \in Topics : RestoreNext(t)
  BY <1>19 DEF StateInv, RestoreNext, subscribeSent
<1>20. CASE RestoreNotSent
  BY <1>20 DEF StateInv, RestoreNotSent, commandNotSent, cleanSession, GiveUp
<1>21. CASE RestoreAck
  BY <1>21 DEF StateInv, RestoreAck
<1>22. CASE RestoreRejected
  BY <1>22 DEF StateInv, RestoreRejected, commandFailed, cleanSession, GiveUp
<1>23. CASE RestoreTimeout
  BY <1>23 DEF StateInv, RestoreTimeout, commandFailed, cleanSession, GiveUp
<1>24. CASE Restored
  BY <1>24 DEF StateInv, Restored, NowConnected
<1>25. CASE SubscribeSent
  BY <1>25 DEF StateInv, SubscribeSent, Body, subscribeSent
<1>26. CASE SubscribeAck
  BY <1>26 DEF StateInv, SubscribeAck, Return
<1>27. CASE SubscribeRejected
  BY <1>27 DEF StateInv, SubscribeRejected, commandFailed, cleanSession, Return
<1>28. CASE UnsubscribeSent
  BY <1>28 DEF StateInv, UnsubscribeSent, Body, unsubscribeSent
<1>29. CASE UnsubscribeAck
  BY <1>29 DEF StateInv, UnsubscribeAck, Return
<1>30. CASE PublishSent
  BY <1>30 DEF StateInv, PublishSent, Body, publishSent
<1>31. CASE PublishAck
  BY <1>31 DEF StateInv, PublishAck, pubackRead, Return
<1>32. CASE CommandNotSent
  BY <1>32 DEF StateInv, CommandNotSent, commandNotSent, cleanSession, Return
<1>32a. CASE CommandTooLong \/ PublishTooLong
  BY <1>32a DEF StateInv, CommandTooLong, PublishTooLong, commandTooLong, publishTooLong,
              cleanSession, Body, Return
<1>33. CASE CommandTimeout
  BY <1>33 DEF StateInv, CommandTimeout, commandFailed, cleanSession, Return
<1>34. CASE WaitOther
  BY <1>34 DEF StateInv, WaitOther, cycleOther
<1>35. CASE WaitReadFails
  BY <1>35 DEF StateInv, WaitReadFails, ReadFails, Close
<1>36. CASE LoopRead
  BY <1>36 DEF StateInv, LoopRead, Body, cycleOther
<1>37. CASE LoopReadTooLate
  BY <1>37 DEF StateInv, LoopReadTooLate, Body, Return
<1>38. CASE LoopEnd
  BY <1>38 DEF StateInv, LoopEnd, Body, Return
<1>39. CASE LoopReadFails
  BY <1>39 DEF StateInv, LoopReadFails, Body, ReadFails, Close, Return
<1>40. CASE Outside
  BY <1>40 DEF Outside, clientVars, StateInv
<1>41. QED
  BY <1>32a, <1>1, <1>2, <1>3, <1>4, <1>5, <1>6, <1>7, <1>8, <1>9, <1>10, <1>11, <1>12,
     <1>13, <1>14, <1>15, <1>16, <1>17, <1>18, <1>19, <1>20, <1>21, <1>22, <1>23, <1>24,
     <1>25, <1>26, <1>27, <1>28, <1>29, <1>30, <1>31, <1>32, <1>33, <1>34, <1>35, <1>36,
     <1>37, <1>38, <1>39, <1>40
     DEF Next, AppCall, Connecting, InBody

LEMMA HalvesStep ==
    ASSUME TypeOK, HalvesInv, StateInv, Next
    PROVE  HalvesInv'
<1> USE DEF linkVars, mqttVars, sessVars, ctlVars, Waiting, Awaits, BothUp
<1>1. CASE \E cf \in Configs : StartSession(cf)
  BY <1>1 DEF HalvesInv, StateInv, StartSession
<1>2. CASE EndSession
  BY <1>2 DEF HalvesInv, StateInv, EndSession, Disconnect, disconnect, cleanSession
<1>3. CASE IsConnected
  BY <1>3
     DEF HalvesInv, StateInv, IsConnected, Reconcile, TakeDown, disconnect, cleanSession, Close
<1>4. CASE \E c \in Calls : CallInitial(c)
  BY <1>4 DEF HalvesInv, StateInv, CallInitial, MayCall, Noted
<1>5. CASE \E c \in Calls : CallConnected(c)
  BY <1>5 DEF HalvesInv, StateInv, CallConnected, MayCall, Noted
<1>6. CASE \E c \in Calls : CallReconnect(c)
  BY <1>6
     DEF HalvesInv, StateInv, CallReconnect, MayCall, Noted, Reconcile, TakeDown, disconnect, cleanSession, Close
<1>7. CASE AuthOk
  BY <1>7 DEF HalvesInv, StateInv, AuthOk
<1>8. CASE AuthFails
  BY <1>8 DEF HalvesInv, StateInv, AuthFails, GiveUp
<1>9. CASE ConnectTls
  BY <1>9 DEF HalvesInv, StateInv, ConnectTls, TlsConnect
<1>10. CASE ConnectTlsFails
  BY <1>10
     DEF HalvesInv, StateInv, ConnectTlsFails, TakeDown, disconnect, cleanSession, Close, GiveUp
<1>11. CASE ConnectSent
  BY <1>11 DEF HalvesInv, StateInv, ConnectSent, connectSent
<1>12. CASE ConnectNotSent
  BY <1>12
     DEF HalvesInv, StateInv, ConnectNotSent, connectNotSent, WriteFails, Close, GiveUp
<1>13. CASE ConnackOk
  BY <1>13 DEF HalvesInv, StateInv, ConnackOk, connackOk, Read, WriteOk
<1>14. CASE ConnackRefused
  BY <1>14 DEF HalvesInv, StateInv, ConnackRefused, connackRefused, Close, GiveUp
<1>15. CASE ConnackTimeout
  BY <1>15
     DEF HalvesInv, StateInv, ConnackTimeout, connectTimeout, cleanSession, Close, GiveUp
<1>16. CASE ConnectAgain
  BY <1>16 DEF HalvesInv, StateInv, ConnectAgain, Disconnect, disconnect, cleanSession
<1>17. CASE Connected
  BY <1>17 DEF HalvesInv, StateInv, Connected, NowConnected
<1>18. CASE StartRestore
  BY <1>18 DEF HalvesInv, StateInv, StartRestore
<1>19. CASE \E t \in Topics : RestoreNext(t)
  BY <1>19 DEF HalvesInv, StateInv, RestoreNext, subscribeSent
<1>20. CASE RestoreNotSent
  BY <1>20 DEF HalvesInv, StateInv, RestoreNotSent, commandNotSent, cleanSession, GiveUp
<1>21. CASE RestoreAck
  BY <1>21 DEF HalvesInv, StateInv, RestoreAck
<1>22. CASE RestoreRejected
  BY <1>22
     DEF HalvesInv, StateInv, RestoreRejected, commandFailed, cleanSession, GiveUp, ackRead
<1>23. CASE RestoreTimeout
  BY <1>23 DEF HalvesInv, StateInv, RestoreTimeout, commandFailed, cleanSession, GiveUp
<1>24. CASE Restored
  BY <1>24 DEF HalvesInv, StateInv, Restored, NowConnected
<1>25. CASE SubscribeSent
  BY <1>25 DEF HalvesInv, StateInv, SubscribeSent, Body, subscribeSent
<1>26. CASE SubscribeAck
  BY <1>26 DEF HalvesInv, StateInv, SubscribeAck, Return, ackRead
<1>27. CASE SubscribeRejected
  BY <1>27 DEF HalvesInv, StateInv, SubscribeRejected, commandFailed, cleanSession, Return
<1>28. CASE UnsubscribeSent
  BY <1>28 DEF HalvesInv, StateInv, UnsubscribeSent, Body, unsubscribeSent
<1>29. CASE UnsubscribeAck
  BY <1>29 DEF HalvesInv, StateInv, UnsubscribeAck, Return
<1>30. CASE PublishSent
  BY <1>30 DEF HalvesInv, StateInv, PublishSent, Body, publishSent
<1>31. CASE PublishAck
  BY <1>31 DEF HalvesInv, StateInv, PublishAck, pubackRead, Return, ackRead, Read
<1>32. CASE CommandNotSent
  BY <1>32 DEF HalvesInv, StateInv, CommandNotSent, commandNotSent, cleanSession, Return
<1>32a. CASE CommandTooLong \/ PublishTooLong
  BY <1>32a
     DEF HalvesInv, StateInv, CommandTooLong, PublishTooLong, commandTooLong, publishTooLong,
              cleanSession, Body, Return
<1>33. CASE CommandTimeout
  BY <1>33 DEF HalvesInv, StateInv, CommandTimeout, commandFailed, cleanSession, Return
<1>34. CASE WaitOther
  BY <1>34 DEF HalvesInv, StateInv, WaitOther, cycleOther, Read, WriteOk
<1>35. CASE WaitReadFails
  BY <1>35 DEF HalvesInv, StateInv, WaitReadFails, ReadFails, Close
<1>36. CASE LoopRead
  BY <1>36 DEF HalvesInv, StateInv, LoopRead, Body, cycleOther, Read, WriteOk
<1>37. CASE LoopReadTooLate
  BY <1>37 DEF HalvesInv, StateInv, LoopReadTooLate, Body, Return
<1>38. CASE LoopEnd
  BY <1>38 DEF HalvesInv, StateInv, LoopEnd, Body, Return
<1>39. CASE LoopReadFails
  BY <1>39 DEF HalvesInv, StateInv, LoopReadFails, Body, ReadFails, Close, Return
<1>40. CASE Outside
  <2>1. /\ link' = "closed" <=> link = "closed"
        /\ c2b = <<>> /\ b2c = <<>> => c2b' = <<>> /\ b2c' = <<>>
    BY <1>40 DEF Outside, BrokerStep, BrokerAccept, BrokerRefuse, BrokerHangUp,
       BrokerIgnore, BrokerSubscribe, BrokerReject, BrokerUnsubscribe, BrokerPublish1,
       BrokerPublish2, BrokerPubrel, BrokerDisconnect, BrokerLosesSession, Drop, Take,
       LinkLost, brokerVars
  <2>2. QED
    BY <1>40, <2>1 DEF Outside, clientVars, HalvesInv
<1>41. QED
  BY <1>32a, <1>1, <1>2, <1>3, <1>4, <1>5, <1>6, <1>7, <1>8, <1>9, <1>10, <1>11, <1>12,
     <1>13, <1>14, <1>15, <1>16, <1>17, <1>18, <1>19, <1>20, <1>21, <1>22, <1>23, <1>24,
     <1>25, <1>26, <1>27, <1>28, <1>29, <1>30, <1>31, <1>32, <1>33, <1>34, <1>35, <1>36,
     <1>37, <1>38, <1>39, <1>40
     DEF Next, AppCall, Connecting, InBody

LEMMA InflightStep ==
    ASSUME TypeOK, HalvesInv, StateInv, InflightInv, WireInv, Next
    PROVE  InflightInv'
<1> USE DEF linkVars, mqttVars, sessVars, ctlVars, Waiting, Awaits, BothUp
<1>1. CASE \E cf \in Configs : StartSession(cf)
  BY <1>1 DEF InflightInv, StartSession
<1>2. CASE EndSession
  BY <1>2 DEF InflightInv, EndSession, Disconnect, disconnect, cleanSession
<1>3. CASE IsConnected
  BY <1>3 DEF InflightInv, IsConnected, Reconcile, TakeDown, disconnect, cleanSession, Close
<1>4. CASE \E c \in Calls : CallInitial(c)
  BY <1>4 DEF InflightInv, CallInitial, MayCall, Noted
<1>5. CASE \E c \in Calls : CallConnected(c)
  BY <1>5 DEF InflightInv, CallConnected, MayCall, Noted
<1>6. CASE \E c \in Calls : CallReconnect(c)
  BY <1>6
     DEF InflightInv, CallReconnect, MayCall, Noted, Reconcile, TakeDown, disconnect, cleanSession, Close
<1>7. CASE AuthOk
  BY <1>7 DEF InflightInv, AuthOk
<1>8. CASE AuthFails
  BY <1>8 DEF InflightInv, AuthFails, GiveUp
<1>9. CASE ConnectTls
  BY <1>9 DEF InflightInv, ConnectTls, TlsConnect, disconnect, cleanSession
<1>10. CASE ConnectTlsFails
  BY <1>10
     DEF InflightInv, ConnectTlsFails, TakeDown, disconnect, cleanSession, Close, GiveUp
<1>11. CASE ConnectSent
  BY <1>11 DEF InflightInv, ConnectSent, connectSent
<1>12. CASE ConnectNotSent
  BY <1>12 DEF InflightInv, ConnectNotSent, connectNotSent, WriteFails, Close, GiveUp
<1>13. CASE ConnackOk
  BY <1>13 DEF InflightInv, ConnackOk, connackOk
<1>14. CASE ConnackRefused
  BY <1>14 DEF InflightInv, ConnackRefused, connackRefused, Close, GiveUp
<1>15. CASE ConnackTimeout
  BY <1>15 DEF InflightInv, ConnackTimeout, connectTimeout, cleanSession, Close, GiveUp
<1>16. CASE ConnectAgain
  BY <1>16 DEF InflightInv, ConnectAgain, Disconnect, disconnect, cleanSession
<1>17. CASE Connected
  BY <1>17 DEF InflightInv, Connected, NowConnected
<1>18. CASE StartRestore
  BY <1>18 DEF InflightInv, StartRestore
<1>19. CASE \E t \in Topics : RestoreNext(t)
  BY <1>19 DEF InflightInv, RestoreNext, subscribeSent
<1>20. CASE RestoreNotSent
  BY <1>20 DEF InflightInv, RestoreNotSent, commandNotSent, cleanSession, GiveUp
<1>21. CASE RestoreAck
  BY <1>21 DEF InflightInv, RestoreAck
<1>22. CASE RestoreRejected
  BY <1>22 DEF InflightInv, RestoreRejected, commandFailed, cleanSession, GiveUp
<1>23. CASE RestoreTimeout
  BY <1>23 DEF InflightInv, RestoreTimeout, commandFailed, cleanSession, GiveUp
<1>24. CASE Restored
  BY <1>24 DEF InflightInv, Restored, NowConnected
<1>25. CASE SubscribeSent
  BY <1>25 DEF InflightInv, SubscribeSent, Body, subscribeSent
<1>26. CASE SubscribeAck
  BY <1>26 DEF InflightInv, SubscribeAck, Return
<1>27. CASE SubscribeRejected
  BY <1>27 DEF InflightInv, SubscribeRejected, commandFailed, cleanSession, Return
<1>28. CASE UnsubscribeSent
  BY <1>28 DEF InflightInv, UnsubscribeSent, Body, unsubscribeSent
<1>29. CASE UnsubscribeAck
  BY <1>29 DEF InflightInv, UnsubscribeAck, Return
<1>30. CASE PublishSent
  BY <1>30 DEF InflightInv, PublishSent, Body, publishSent
<1>31. CASE PublishAck
  <2>1. Head(b2c).id = packetid
    BY <1>31, HeadTail
       DEF PublishAck, pubackRead, ackRead, Read, WireInv, OnlyOne, Acks, TypeOK, LinkTypeOK
  <2>2. QED
    BY <1>31, <2>1 DEF InflightInv, PublishAck, pubackRead, Return
<1>32. CASE CommandNotSent
  BY <1>32 DEF InflightInv, CommandNotSent, commandNotSent, cleanSession, Return
<1>32a. CASE CommandTooLong \/ PublishTooLong
  BY <1>32a DEF InflightInv, CommandTooLong, PublishTooLong, commandTooLong, publishTooLong,
              cleanSession, Body, Return
<1>33. CASE CommandTimeout
  BY <1>33 DEF InflightInv, CommandTimeout, commandFailed, cleanSession, Return
<1>34. CASE WaitOther
  BY <1>34 DEF InflightInv, WaitOther, cycleOther
<1>35. CASE WaitReadFails
  BY <1>35 DEF InflightInv, WaitReadFails, ReadFails, Close
<1>36. CASE LoopRead
  BY <1>36 DEF InflightInv, LoopRead, Body, cycleOther
<1>37. CASE LoopReadTooLate
  BY <1>37 DEF InflightInv, LoopReadTooLate, Body, Return
<1>38. CASE LoopEnd
  BY <1>38 DEF InflightInv, LoopEnd, Body, Return
<1>39. CASE LoopReadFails
  BY <1>39 DEF InflightInv, LoopReadFails, Body, ReadFails, Close, Return
<1>40. CASE Outside
  BY <1>40 DEF Outside, clientVars, InflightInv
<1>41. QED
  BY <1>32a, <1>1, <1>2, <1>3, <1>4, <1>5, <1>6, <1>7, <1>8, <1>9, <1>10, <1>11, <1>12,
     <1>13, <1>14, <1>15, <1>16, <1>17, <1>18, <1>19, <1>20, <1>21, <1>22, <1>23, <1>24,
     <1>25, <1>26, <1>27, <1>28, <1>29, <1>30, <1>31, <1>32, <1>33, <1>34, <1>35, <1>36,
     <1>37, <1>38, <1>39, <1>40
     DEF Next, AppCall, Connecting, InBody

(***************************************************************************)
(* What may happen to the packets under way.                               *)
(***************************************************************************)

\* Reading, writing a packet that is no command, and closing keep things quiet.
LEMMA QuietRead ==
    ASSUME LinkTypeOK, Quiet, Read, c2b' = c2b
    PROVE  Quiet'
  BY HeadTail DEF LinkTypeOK, Quiet, Read

LEMMA QuietAppend ==
    ASSUME LinkTypeOK, Quiet, NEW p \in ToBroker, ~IsCommand(p), WriteOk(p),
           b2c' = b2c \/ Read
    PROVE  Quiet'
<1>1. \A i \in 1..Len(c2b') : ~IsCommand(c2b'[i])
  BY AppendElements DEF LinkTypeOK, Quiet, WriteOk
<1>2. \A i \in 1..Len(b2c') : b2c'[i].type \notin Acks
  BY HeadTail, SMTT(30) DEF LinkTypeOK, Quiet, Read
<1>3. QED
  BY <1>1, <1>2 DEF Quiet, IsCommand

\* A command sent when all is quiet is the only one under way.
LEMMA OneSent ==
    ASSUME LinkTypeOK, Quiet, NEW a, b2c' = b2c,
           \E p \in ToBroker : WriteOk(p) /\ p.id = packetid' /\ AckType(p) = a
    PROVE  OnlyOne(a)'
<1>1. PICK p \in ToBroker : WriteOk(p) /\ p.id = packetid' /\ AckType(p) = a
  OBVIOUS
<1>2. ASSUME NEW i \in 1..Len(c2b'), IsCommand(c2b'[i])
      PROVE  c2b'[i] = p /\ i = Len(c2b) + 1
  BY <1>1, <1>2, AppendElements DEF LinkTypeOK, Quiet, WriteOk
<1>3. \A i \in 1..Len(b2c') : b2c'[i].type \notin Acks
  BY DEF Quiet
<1>4. QED
  BY <1>1, <1>2, <1>3 DEF OnlyOne, IsCommand, AckType

\* Once its acknowledgement is read all is quiet.
LEMMA OneRead ==
    ASSUME LinkTypeOK, NEW a, OnlyOne(a), Read, Head(b2c).type \in Acks, c2b' = c2b
    PROVE  Quiet'
<1>1. \A i \in 1..Len(b2c') : b2c'[i].type \notin Acks
  BY HeadTail DEF LinkTypeOK, OnlyOne, Read
<1>2. \A i \in 1..Len(c2b') : ~IsCommand(c2b'[i])
  BY HeadTail DEF LinkTypeOK, OnlyOne, Read
<1>3. QED
  BY <1>1, <1>2 DEF Quiet, IsCommand

\* Another packet read, and perhaps a PUBREL written, change nothing of that.
LEMMA OneOther ==
    ASSUME LinkTypeOK, NEW a, OnlyOne(a), Read, packetid' = packetid,
           \/ c2b' = c2b
           \/ \E p \in ToBroker : ~IsCommand(p) /\ WriteOk(p)
    PROVE  OnlyOne(a)'
<1>1. ASSUME NEW i \in 1..Len(b2c')
      PROVE  i + 1 \in 1..Len(b2c) /\ b2c'[i] = b2c[i + 1]
  BY HeadTail DEF LinkTypeOK, Read
<1>2. ASSUME NEW i \in 1..Len(c2b'), IsCommand(c2b'[i])
      PROVE  i \in 1..Len(c2b) /\ c2b'[i] = c2b[i]
  <2>1. CASE c2b' = c2b
    BY <2>1
  <2>2. ASSUME NEW p \in ToBroker, ~IsCommand(p), WriteOk(p)
        PROVE  i \in 1..Len(c2b) /\ c2b'[i] = c2b[i]
    BY <1>2, <2>2, AppendElements DEF LinkTypeOK, WriteOk
  <2>3. QED
    BY <2>1, <2>2
<1>3. \A i \in 1..Len(c2b') : IsCommand(c2b'[i]) =>
          AckType(c2b'[i]) = a /\ c2b'[i].id = packetid'
  BY <1>2 DEF OnlyOne
<1>4. \A i \in 1..Len(b2c') : b2c'[i].type \in Acks =>
          b2c'[i].type = a /\ b2c'[i].id = packetid'
  BY <1>1 DEF OnlyOne
<1>5. \A i, j \in 1..Len(c2b') : IsCommand(c2b'[i]) /\ IsCommand(c2b'[j]) => i = j
  BY <1>2 DEF OnlyOne
<1>6. \A i, j \in 1..Len(b2c') : b2c'[i].type \in Acks /\ b2c'[j].type \in Acks => i = j
  BY <1>1 DEF OnlyOne
<1>7. \A i \in 1..Len(c2b'), j \in 1..Len(b2c') :
          ~(IsCommand(c2b'[i]) /\ b2c'[j].type \in Acks)
  BY <1>1, <1>2 DEF OnlyOne
<1>8. QED
  BY <1>3, <1>4, <1>5, <1>6, <1>7 DEF OnlyOne, IsCommand, AckType

\* What the broker or the network do to the packets under way: all are lost, or
\* the first one is taken, and if it is answered with an acknowledgement some
\* command takes, then it was a command and the answer bears its id.
Answers(r, p) ==
    r.type \in Acks => IsCommand(p) /\ r.type = AckType(p) /\ r.id = p.id

LEMMA OutsideWire ==
    ASSUME TypeOK, Outside
    PROVE  \/ c2b' = <<>> /\ b2c' = <<>>
           \/ c2b # <<>> /\ c2b' = Tail(c2b) /\ b2c' = b2c
           \/ /\ c2b # <<>> /\ c2b' = Tail(c2b)
              /\ \E r \in ToClient : Answers(r, Head(c2b)) /\ b2c' = Append(b2c, r)
<1> DEFINE Answered ==
      /\ c2b # <<>> /\ c2b' = Tail(c2b)
      /\ b2c' = b2c \/ \E r \in ToClient : Answers(r, Head(c2b)) /\ b2c' = Append(b2c, r)
<1>1. ASSUME NEW r \in ToClient, Reply(r), c2b # <<>>, c2b' = Tail(c2b),
             Answers(r, Head(c2b))
      PROVE  Answered
  BY <1>1 DEF Reply
<1>2. c2b # <<>> => Head(c2b) \in ToBroker
  BY HeadTail DEF TypeOK, LinkTypeOK
<1>3. CASE BrokerAccept
  <2>1. [type |-> "CONNACK", accepted |-> TRUE, sp |-> ~Pkt.clean /\ bStored] \in ToClient
    BY <1>2, <1>3, ToBrokerFields
       DEF BrokerAccept, Take, Pkt, TypeOK, BrokerTypeOK, ToClient
  <2>2. QED
    BY <1>1, <1>3, <2>1 DEF BrokerAccept, Take, Answers, Acks
<1>4. CASE BrokerRefuse
  <2>1. [type |-> "CONNACK", accepted |-> FALSE, sp |-> FALSE] \in ToClient
    BY DEF ToClient
  <2>2. QED
    BY <1>1, <1>4, <2>1 DEF BrokerRefuse, Take, Answers, Acks
<1>5. CASE BrokerSubscribe
  <2>1. [type |-> "SUBACK", id |-> Pkt.id, granted |-> TRUE] \in ToClient
    BY <1>2, <1>5, ToBrokerFields, BrokerPackets DEF BrokerSubscribe, Take, Pkt
  <2>2. QED
    BY <1>1, <1>5, <2>1 DEF BrokerSubscribe, Take, Pkt, Answers, Acks, IsCommand, AckType
<1>6. CASE BrokerReject
  <2>1. [type |-> "SUBACK", id |-> Pkt.id, granted |-> FALSE] \in ToClient
    BY <1>2, <1>6, ToBrokerFields, BrokerPackets DEF BrokerReject, Take, Pkt
  <2>2. QED
    BY <1>1, <1>6, <2>1 DEF BrokerReject, Take, Pkt, Answers, Acks, IsCommand, AckType
<1>7. CASE BrokerUnsubscribe
  <2>1. [type |-> "UNSUBACK", id |-> Pkt.id] \in ToClient
    BY <1>2, <1>7, ToBrokerFields, BrokerPackets DEF BrokerUnsubscribe, Take, Pkt
  <2>2. QED
    BY <1>1, <1>7, <2>1
       DEF BrokerUnsubscribe, Take, Pkt, Answers, Acks, IsCommand, AckType
<1>8. CASE BrokerPublish1
  <2>1. [type |-> "PUBACK", id |-> Pkt.id] \in ToClient
    BY <1>2, <1>8, ToBrokerFields, BrokerPackets DEF BrokerPublish1, Take, Pkt
  <2>2. QED
    BY <1>1, <1>8, <2>1 DEF BrokerPublish1, Take, Pkt, Answers, Acks, IsCommand, AckType
<1>9. CASE BrokerPublish2
  <2>1. [type |-> "PUBREC", id |-> Pkt.id] \in ToClient
    BY <1>2, <1>9, ToBrokerFields, BrokerPackets DEF BrokerPublish2, Take, Pkt
  <2>2. QED
    BY <1>1, <1>9, <2>1 DEF BrokerPublish2, Take, Answers, Acks
<1>10. CASE BrokerPubrel
  <2>1. [type |-> "PUBCOMP", id |-> Pkt.id] \in ToClient
    BY <1>2, <1>10, ToBrokerFields, BrokerPackets DEF BrokerPubrel, Take, Pkt
  <2>2. QED
    BY <1>1, <1>10, <2>1 DEF BrokerPubrel, Take, Answers, Acks
<1>11. CASE BrokerIgnore \/ BrokerDisconnect
  BY <1>11 DEF BrokerIgnore, BrokerDisconnect, Take
<1>12. CASE BrokerHangUp \/ BrokerLosesSession \/ Drop
  BY <1>12 DEF BrokerHangUp, BrokerLosesSession, Drop, LinkLost
<1>13. QED
  BY <1>3, <1>4, <1>5, <1>6, <1>7, <1>8, <1>9, <1>10, <1>11, <1>12
     DEF Outside, BrokerStep

LEMMA QuietOutside ==
    ASSUME TypeOK, Quiet, Outside
    PROVE  Quiet'
<1>1. LinkTypeOK
  BY DEF TypeOK
<1>2. CASE c2b' = <<>> /\ b2c' = <<>>
  BY <1>2 DEF Quiet
<1>3. CASE c2b # <<>> /\ c2b' = Tail(c2b) /\ b2c' = b2c
  BY <1>1, <1>3, HeadTail DEF LinkTypeOK, Quiet, IsCommand
<1>4. ASSUME c2b # <<>>, c2b' = Tail(c2b), NEW r \in ToClient,
             Answers(r, Head(c2b)), b2c' = Append(b2c, r)
      PROVE  Quiet'
  <2>1. r.type \notin Acks
    BY <1>1, <1>4, HeadTail DEF LinkTypeOK, Quiet, Answers
  <2>2. \A i \in 1..Len(c2b') : ~IsCommand(c2b'[i])
    BY <1>1, <1>4, HeadTail DEF LinkTypeOK, Quiet
  <2>3. \A i \in 1..Len(b2c') : b2c'[i].type \notin Acks
    BY <1>1, <1>4, <2>1, AppendElements DEF LinkTypeOK, Quiet
  <2>4. QED
    BY <2>2, <2>3 DEF Quiet, IsCommand
<1>5. QED
  BY <1>2, <1>3, <1>4, OutsideWire

LEMMA OneOutside ==
    ASSUME TypeOK, NEW a, OnlyOne(a), Outside
    PROVE  OnlyOne(a)'
<1>1. LinkTypeOK /\ packetid' = packetid
  BY DEF TypeOK, Outside, clientVars, mqttVars
<1>2. CASE c2b' = <<>> /\ b2c' = <<>>
  BY <1>2 DEF OnlyOne
<1>3. ASSUME c2b # <<>>, c2b' = Tail(c2b), NEW i \in 1..Len(c2b')
      PROVE  /\ i + 1 \in 1..Len(c2b) /\ c2b'[i] = c2b[i + 1]
             /\ 1 \in 1..Len(c2b) /\ Head(c2b) = c2b[1] /\ i \in Nat
  BY <1>1, <1>3, HeadTail DEF LinkTypeOK
<1>4. CASE c2b # <<>> /\ c2b' = Tail(c2b) /\ b2c' = b2c
  BY <1>1, <1>3, <1>4 DEF OnlyOne, IsCommand, AckType
<1>5. ASSUME c2b # <<>>, c2b' = Tail(c2b), NEW r \in ToClient,
             Answers(r, Head(c2b)), b2c' = Append(b2c, r)
      PROVE  OnlyOne(a)'
  <2>1. 1 \in 1..Len(c2b) /\ Head(c2b) = c2b[1]
    BY <1>1, <1>5, HeadTail DEF LinkTypeOK
  <2>2. ASSUME NEW i \in 1..Len(b2c')
        PROVE  \/ i \in 1..Len(b2c) /\ b2c'[i] = b2c[i]
               \/ i = Len(b2c) + 1 /\ b2c'[i] = r
    BY <1>1, <1>5, AppendElements DEF LinkTypeOK
  <2>3. r.type \in Acks =>
          /\ IsCommand(c2b[1]) /\ r.type = a /\ r.id = packetid
          /\ \A i \in 1..Len(c2b') : ~IsCommand(c2b'[i])
          /\ \A j \in 1..Len(b2c) : b2c[j].type \notin Acks
    BY <1>3, <1>5, <2>1 DEF OnlyOne, Answers
  <2>4. \A i \in 1..Len(c2b') : IsCommand(c2b'[i]) =>
            AckType(c2b'[i]) = a /\ c2b'[i].id = packetid'
    BY <1>1, <1>3, <1>5 DEF OnlyOne
  <2>5. \A i \in 1..Len(b2c') : b2c'[i].type \in Acks =>
            b2c'[i].type = a /\ b2c'[i].id = packetid'
    BY <1>1, <2>2, <2>3 DEF OnlyOne
  <2>6. \A i, j \in 1..Len(c2b') : IsCommand(c2b'[i]) /\ IsCommand(c2b'[j]) => i = j
    BY <1>3, <1>5 DEF OnlyOne
  <2>7. \A i, j \in 1..Len(b2c') : b2c'[i].type \in Acks /\ b2c'[j].type \in Acks => i = j
    BY <2>2, <2>3 DEF OnlyOne
  <2>8. \A i \in 1..Len(c2b'), j \in 1..Len(b2c') :
            ~(IsCommand(c2b'[i]) /\ b2c'[j].type \in Acks)
    BY <1>3, <1>5, <2>2, <2>3 DEF OnlyOne
  <2>9. QED
    BY <2>4, <2>5, <2>6, <2>7, <2>8 DEF OnlyOne, IsCommand, AckType
<1>6. QED
  BY <1>2, <1>4, <1>5, OutsideWire

LEMMA QuietSame ==
    ASSUME Quiet, c2b' = c2b, b2c' = b2c
    PROVE  Quiet'
  BY DEF Quiet, IsCommand

LEMMA OneSame ==
    ASSUME NEW a, OnlyOne(a), c2b' = c2b, b2c' = b2c \/ b2c' = <<>>, packetid' = packetid
    PROVE  OnlyOne(a)'
<1>1. CASE b2c' = b2c
  BY <1>1 DEF OnlyOne, IsCommand, AckType
<1>2. CASE b2c' = <<>>
  BY <1>2 DEF OnlyOne, IsCommand, AckType
<1>3. QED
  BY <1>1, <1>2

\* The packets a cycle writes and reads besides the one awaited.
LEMMA CycleWire ==
    ASSUME TypeOK, NEW w, cycleOther(w)
    PROVE  /\ Read /\ packetid' = packetid
           /\ c2b' = c2b \/ \E p \in ToBroker : ~IsCommand(p) /\ WriteOk(p)
<1>1. Head(b2c) \in ToClient
  BY ReadType DEF TypeOK, cycleOther
<1>2. Head(b2c).type = "PUBREC" =>
        /\ [type |-> "PUBREL", id |-> Head(b2c).id] \in ToBroker
        /\ ~IsCommand([type |-> "PUBREL", id |-> Head(b2c).id])
  BY <1>1, ToClientFields, PlainPackets DEF IsCommand
<1>3. QED
  BY <1>2 DEF cycleOther, mqttVars

LEMMA WireStep ==
    ASSUME TypeOK, HalvesInv, StateInv, InflightInv, WireInv, Next
    PROVE  WireInv'
<1> USE DEF linkVars, mqttVars, sessVars, ctlVars, Waiting, Awaits
<1>1. LinkTypeOK
  BY DEF TypeOK
<1>2. CASE \/ \E cf \in Configs : StartSession(cf)
           \/ \E c \in Calls : CallInitial(c) \/ CallReconnect(c)
           \/ AuthOk \/ ConnectAgain
  BY <1>2 DEF StartSession, CallInitial, CallReconnect, AuthOk, ConnectAgain, WireInv
<1>3. CASE EndSession
  BY <1>3 DEF EndSession, Disconnect, WireInv, BothUp
<1>4. CASE IsConnected
  BY <1>4
     DEF IsConnected, Reconcile, TakeDown, disconnect, cleanSession, Close, WireInv, BothUp
<1>5. CASE \E c \in Calls : CallConnected(c)
  BY <1>5, QuietSame DEF CallConnected, MayCall, WireInv, BothUp
<1>6. CASE \/ AuthFails \/ ConnectTlsFails \/ ConnectNotSent
           \/ ConnackRefused \/ ConnackTimeout
  BY <1>6
     DEF AuthFails, ConnectTlsFails, TakeDown, ConnectNotSent, connectNotSent, WriteFails,
              ConnackRefused, ConnackTimeout, GiveUp, Close, HalvesInv, WireInv, BothUp
<1>7. CASE \/ RestoreNotSent \/ RestoreRejected \/ RestoreTimeout
           \/ SubscribeRejected \/ CommandNotSent \/ CommandTooLong \/ CommandTimeout
  BY <1>7 DEF RestoreNotSent, RestoreRejected, RestoreTimeout, SubscribeRejected,
              CommandNotSent, CommandTooLong, CommandTimeout, commandNotSent,
              commandTooLong, commandFailed,
              cleanSession, GiveUp, Return, WireInv, BothUp
<1>8. CASE ConnectTls
  <2>1. c2b' = <<>> /\ b2c' = <<>> /\ pc' = "connect"
    BY <1>8 DEF ConnectTls, TlsConnect, HalvesInv, BothUp
  <2>2. QED
    BY <2>1 DEF WireInv, Quiet
<1>9. CASE ConnectSent
  <2>1. /\ [type |-> "CONNECT", clean |-> CleanFlag] \in ToBroker
        /\ ~IsCommand([type |-> "CONNECT", clean |-> CleanFlag])
    BY DEF CleanFlag, TypeOK, AllConfigs, ToBroker, IsCommand
  <2>2. Quiet'
    BY <1>1, <1>9, <2>1, QuietAppend DEF ConnectSent, connectSent, WireInv
  <2>3. QED
    BY <1>9, <2>2 DEF ConnectSent, WireInv
<1>10. CASE ConnackOk
  <2>1. inflight # NoInflight => Resend \in ToBroker /\ ~IsCommand(Resend)
    BY <1>10, PublishPackets
       DEF ConnackOk, Resend, InflightInv, IsCommand, TypeOK, PahoTypeOK, Inflights
  <2>2. Quiet'
    BY <1>1, <1>10, <2>1, QuietRead, QuietAppend DEF ConnackOk, connackOk, WireInv
  <2>3. QED
    BY <1>10, <2>2 DEF ConnackOk, WireInv
<1>11. CASE Connected \/ StartRestore \/ Restored
  BY <1>11, QuietSame DEF Connected, StartRestore, Restored, NowConnected, WireInv
<1>12. ASSUME NEW t \in Topics, RestoreNext(t)
       PROVE  WireInv'
  <2> DEFINE p == [type |-> "SUBSCRIBE", id |-> getNext, topic |-> t]
  <2>1. p \in ToBroker /\ AckType(p) = "SUBACK" /\ p.id = getNext
    BY GetNextType, TopicPackets DEF TypeOK, PahoTypeOK, AckType
  <2>2. OnlyOne("SUBACK")'
    <3>1. Quiet /\ WriteOk(p) /\ b2c' = b2c /\ packetid' = getNext
      BY <1>12 DEF RestoreNext, subscribeSent, WireInv
    <3> HIDE DEF p
    <3>2. QED
      BY <1>1, <2>1, <3>1, OneSent
  <2>3. QED
    BY <1>12, <2>2 DEF RestoreNext, WireInv
<1>13. CASE SubscribeSent
  <2> DEFINE p == [type |-> "SUBSCRIBE", id |-> getNext, topic |-> call.topic]
  <2>1. p \in ToBroker /\ AckType(p) = "SUBACK" /\ p.id = getNext
    <3>1. call.topic \in Topics
      BY <1>13 DEF SubscribeSent, Body, TypeOK, Calls, StartCall
    <3>2. QED
      BY <3>1, GetNextType, TopicPackets DEF TypeOK, PahoTypeOK, AckType
  <2>2. OnlyOne("SUBACK")'
    <3>1. Quiet /\ WriteOk(p) /\ b2c' = b2c /\ packetid' = getNext
      BY <1>13 DEF SubscribeSent, Body, subscribeSent, WireInv
    <3> HIDE DEF p
    <3>2. QED
      BY <1>1, <2>1, <3>1, OneSent
  <2>3. QED
    BY <1>13, <2>2 DEF SubscribeSent, WireInv
<1>14. CASE UnsubscribeSent
  <2> DEFINE p == [type |-> "UNSUBSCRIBE", id |-> getNext, topic |-> call.topic]
  <2>1. p \in ToBroker /\ AckType(p) = "UNSUBACK" /\ p.id = getNext
    <3>1. call.topic \in Topics
      BY <1>14 DEF UnsubscribeSent, Body, TypeOK, Calls, StartCall
    <3>2. QED
      BY <3>1, GetNextType, TopicPackets DEF TypeOK, PahoTypeOK, AckType
  <2>2. OnlyOne("UNSUBACK")'
    <3>1. Quiet /\ WriteOk(p) /\ b2c' = b2c /\ packetid' = getNext
      BY <1>14 DEF UnsubscribeSent, Body, unsubscribeSent, WireInv
    <3> HIDE DEF p
    <3>2. QED
      BY <1>1, <2>1, <3>1, OneSent
  <2>3. QED
    BY <1>14, <2>2 DEF UnsubscribeSent, WireInv
<1>15. CASE PublishSent
  <2> DEFINE p == [type |-> "PUBLISH", id |-> getNext, msg |-> call.msg,
                   qos2 |-> conf.qos2]
  <2>1. p \in ToBroker /\ AckType(p) = "PUBACK" /\ p.id = getNext
    BY <1>15, GetNextType, PublishPackets
       DEF PublishSent, Body, TypeOK, PahoTypeOK, Calls, StartCall, AckType, AllConfigs
  <2>2. Quiet /\ WriteOk(p) /\ b2c' = b2c /\ packetid' = getNext
    BY <1>15 DEF PublishSent, Body, publishSent, WireInv
  <2>3. CASE conf.qos2
    <3>1. ~IsCommand(p)
      BY <2>3 DEF IsCommand
    <3> HIDE DEF p
    <3>2. Quiet'
      BY <1>1, <2>1, <2>2, <3>1, QuietAppend
    <3>3. QED
      BY <1>15, <2>3, <3>2 DEF PublishSent, WireInv
  <2>4. CASE ~conf.qos2
    <3> HIDE DEF p
    <3>1. OnlyOne("PUBACK")'
      BY <1>1, <2>1, <2>2, OneSent
    <3>2. QED
      BY <1>15, <2>4, <3>1 DEF PublishSent, WireInv
  <2>5. QED
    BY <2>3, <2>4
<1>16. CASE RestoreAck \/ SubscribeAck \/ UnsubscribeAck \/ PublishAck
  <2>1. /\ OnlyOne(Awaits[pc]) /\ Read /\ Head(b2c).type \in Acks /\ c2b' = c2b
        /\ pc' \in {"restore", "idle"}
    BY <1>16 DEF RestoreAck, SubscribeAck, UnsubscribeAck, PublishAck, pubackRead,
                 ackRead, Return, WireInv, Acks
  <2>2. Quiet'
    BY <1>1, <2>1, OneRead
  <2>3. QED
    BY <2>1, <2>2 DEF WireInv
<1>17. CASE WaitOther
  <2>1. /\ Read /\ packetid' = packetid /\ pc' = pc /\ pc \in Waiting
        /\ c2b' = c2b \/ \E p \in ToBroker : ~IsCommand(p) /\ WriteOk(p)
    BY <1>17, CycleWire DEF WaitOther
  <2>2. CASE pc = "connack"
    <3>1. Quiet'
      <4>1. Quiet
        BY <2>2 DEF WireInv
      <4>2. QED
        BY <1>1, <2>1, <4>1, QuietRead, QuietAppend
    <3>2. QED
      BY <2>1, <2>2, <3>1 DEF WireInv
  <2>3. CASE pc # "connack"
    <3>1. OnlyOne(Awaits[pc])'
      <4>1. OnlyOne(Awaits[pc])
        BY <2>1, <2>3 DEF WireInv
      <4>2. QED
        BY <1>1, <2>1, <4>1, OneOther
    <3>2. QED
      BY <2>1, <2>3, <3>1 DEF WireInv
  <2>4. QED
    BY <2>2, <2>3
<1>18. CASE WaitReadFails
  <2>1. c2b' = c2b /\ b2c' = <<>> /\ packetid' = packetid /\ pc' = pc /\ pc \in Waiting
    BY <1>18 DEF WaitReadFails, ReadFails, Close
  <2>2. CASE pc = "connack"
    BY <2>1, <2>2 DEF WireInv, Quiet, IsCommand
  <2>3. CASE pc # "connack"
    <3>1. OnlyOne(Awaits[pc])'
      <4>1. OnlyOne(Awaits[pc])
        BY <2>1, <2>3 DEF WireInv
      <4>2. QED
        BY <2>1, <4>1, OneSame
    <3>2. QED
      BY <2>1, <2>3, <3>1 DEF WireInv
  <2>4. QED
    BY <2>2, <2>3
<1>19. CASE LoopRead
  <2>1. Quiet /\ pc' = "body"
    BY <1>19 DEF LoopRead, Body, WireInv
  <2>2. Read /\ (c2b' = c2b \/ \E p \in ToBroker : ~IsCommand(p) /\ WriteOk(p))
    BY <1>19, CycleWire DEF LoopRead
  <2>3. Quiet'
    BY <1>1, <2>1, <2>2, QuietRead, QuietAppend
  <2>4. QED
    BY <2>1, <2>3 DEF WireInv
<1>20. CASE LoopReadTooLate
  <2>1. Quiet /\ Read /\ c2b' = c2b /\ pc' = "idle"
    BY <1>20 DEF LoopReadTooLate, Body, Return, WireInv
  <2>2. QED
    BY <1>1, <2>1, QuietRead DEF WireInv
<1>21. CASE LoopEnd \/ PublishTooLong
  BY <1>21, QuietSame DEF LoopEnd, PublishTooLong, Body, Return, WireInv
<1>22. CASE LoopReadFails
  BY <1>22 DEF LoopReadFails, ReadFails, Close, Return, WireInv, BothUp
<1>23. CASE Outside
  <2>1. UNCHANGED <<pc, isconnected>> /\ (link' = "closed" <=> link = "closed")
    BY <1>23 DEF Outside, clientVars, BrokerStep, BrokerAccept, BrokerRefuse,
       BrokerHangUp, BrokerIgnore, BrokerSubscribe, BrokerReject, BrokerUnsubscribe,
       BrokerPublish1, BrokerPublish2, BrokerPubrel, BrokerDisconnect,
       BrokerLosesSession, Drop, Take, LinkLost
  <2>2. Quiet => Quiet'
    BY <1>23, QuietOutside
  <2>3. pc \in Waiting \ {"connack"} => OnlyOne(Awaits[pc])'
    BY <1>23, <2>1, OneOutside DEF WireInv
  <2>4. QED
    BY <2>1, <2>2, <2>3 DEF WireInv, BothUp
<1>24. QED
  BY <1>2, <1>3, <1>4, <1>5, <1>6, <1>7, <1>8, <1>9, <1>10, <1>11, <1>12, <1>13, <1>14,
     <1>15, <1>16, <1>17, <1>18, <1>19, <1>20, <1>21, <1>22, <1>23
     DEF Next, AppCall, Connecting, InBody

(***************************************************************************)
(* The theorems                                                            *)
(***************************************************************************)
LEMMA Inductive == Spec => []IInv
<1>1. Init => IInv
  <2>1. Init => TypeOK
    BY TypeInit
  <2>2. Init => HalvesInv /\ StateInv /\ InflightInv /\ WireInv
    BY DEF Init, LinkInit, PahoInit, HalvesInv, StateInv, InflightInv, WireInv, BothUp,
           Waiting, Awaits
  <2>3. QED
    BY <2>1, <2>2 DEF IInv
<1>2. IInv /\ [Next]_vars => IInv'
  <2>1. CASE UNCHANGED vars
    <3>1. UNCHANGED <<linkVars, faults, brokerVars, mqttVars, sessVars, sessionPresent,
                      pc, ctlVars, histVars>>
      BY <2>1 DEF vars
    <3>2. IInv => TypeOK'
      BY <2>1, TypeNext DEF IInv
    <3>3. IInv => HalvesInv' /\ StateInv' /\ InflightInv'
      BY <3>1 DEF linkVars, mqttVars, sessVars, ctlVars, IInv, HalvesInv, StateInv,
                  InflightInv, BothUp
    <3>4. IInv => WireInv'
      BY <3>1, QuietSame, OneSame DEF linkVars, mqttVars, IInv, WireInv, BothUp
    <3>5. QED
      BY <3>2, <3>3, <3>4 DEF IInv
  <2>2. IInv /\ Next => IInv'
    BY TypeNext, HalvesStep, StateStep, InflightStep, WireStep DEF IInv
  <2>3. QED
    BY <2>1, <2>2
<1>3. QED
  BY <1>1, <1>2, PTL DEF Spec

\* A session that is not CONNECTED between two calls has no working connection,
\* so CheckState never refuses a call because of a connection it did not expect.
THEOREM NeverStuck == Spec => []NotStuck
<1>1. IInv => NotStuck
  BY DEF IInv, TypeOK, HalvesInv, NotStuck, BothUp
<1>2. QED
  BY <1>1, Inductive, PTL

\* MQTT::Client::connect never runs over an old connection or while connected.
THEOREM FreshConnections == Spec => []ConnectFromScratch
<1>1. IInv => ConnectFromScratch
  BY DEF IInv, HalvesInv, ConnectFromScratch
<1>2. QED
  BY <1>1, Inductive, PTL

\* The acknowledgement a command takes is its own, for any packet id limit.
THEOREM OwnAcknowledgement == Spec => []AckIsForThisCommand
<1>1. IInv => AckIsForThisCommand
  BY DEF IInv, WireInv, Quiet, OnlyOne, AckIsForThisCommand, Waiting, Awaits
<1>2. QED
  BY <1>1, Inductive, PTL

\* connect never sends a QoS 1 publish again.
THEOREM NoQoS1Resend == Spec => []ResendOnlyQoS2
<1>1. IInv => ResendOnlyQoS2
  BY DEF IInv, InflightInv, ResendOnlyQoS2
<1>2. QED
  BY <1>1, Inductive, PTL
=============================================================================
