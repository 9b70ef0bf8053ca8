--------------------------- MODULE SessionProofs ---------------------------
(***************************************************************************)
(* What IotClient promises the application, for every set of topics and    *)
(* messages, every packet id limit and any number and choice of faults:    *)
(* a QoS 1 publish that succeeds arrived exactly once, and the detailed    *)
(* client implements the session of Session.                               *)
(***************************************************************************)
EXTENDS IotClientProofs

(***************************************************************************)
(* The messages under way                                                  *)
(***************************************************************************)

\* No publish of m is under way or kept for sending again.
Silent(m) ==
    /\ \A i \in 1..Len(c2b) : c2b[i].type = "PUBLISH" => c2b[i].msg # m
    /\ inflight # NoInflight => inflight.msg # m

\* Nothing has been done with m so far.
Untouched(m) ==
    /\ Silent(m)
    /\ bRecv[m] = 0
    /\ \A p \in done : p.msg # m

\* While its QoS 1 publish waits for the PUBACK, the message is under way once, or
\* the broker has it once, or both are lost.
AwaitedInv ==
    /\ ~conf.qos2
    /\ \A p \in done : p.msg # call.msg
    /\ \A i \in 1..Len(c2b) : c2b[i].type = "PUBLISH" =>
          IF c2b[i].qos2 THEN c2b[i].msg # call.msg
          ELSE c2b[i].msg = call.msg /\ bRecv[call.msg] = 0
    /\ \A i \in 1..Len(b2c) : b2c[i].type = "PUBACK" => bRecv[call.msg] = 1
    /\ inflight # NoInflight /\ inflight.msg = call.msg => ~inflight.qos2

\* A message is handed to the client once and published by one call: before that
\* nothing is known of it, and after a successful QoS 1 publish nothing is left.
UsedInv == \A m \in Msgs \ used : Untouched(m)

CallInv ==
    /\ pc # "idle" /\ call.op = "Publish" => call.msg \in used
    /\ pc \notin {"idle", "puback"} /\ call.op = "Publish" => Untouched(call.msg)
    /\ pc = "puback" => AwaitedInv

DoneInv == \A p \in done : ~p.qos2 => bRecv[p.msg] = 1 /\ Silent(p.msg)

MInv == UsedInv /\ CallInv /\ DoneInv


(***************************************************************************)
(* What a step does to the messages under way                              *)
(***************************************************************************)

\* Only PublishSent keeps a publish for sending again or writes a new one; connect
\* writes the kept one.
LEMMA PublishesStep ==
    ASSUME IInv, Next, ~PublishSent
    PROVE  /\ inflight' \in {inflight, NoInflight}
           /\ \A i \in 1..Len(c2b') : c2b'[i].type = "PUBLISH" =>
                 \/ \E j \in 1..Len(c2b) : c2b'[i] = c2b[j]
                 \/ /\ ConnackOk /\ inflight # NoInflight
                    /\ c2b'[i].msg = inflight.msg
  <1> USE DEF linkVars, mqttVars, sessVars, ctlVars
  <1>0. TypeOK /\ LinkTypeOK /\ PahoTypeOK /\ InflightInv /\ HalvesInv
    BY DEF IInv, TypeOK
  <1> DEFINE Old == \A i \in 1..Len(c2b') : c2b'[i].type = "PUBLISH" =>
                       \E j \in 1..Len(c2b) : c2b'[i] = c2b[j]
             Kept == inflight' \in {inflight, NoInflight}
  <1>1. ASSUME c2b' = c2b \/ c2b' = <<>>
        PROVE  Old
    BY <1>1
  <1>2. ASSUME NEW e \in ToBroker, e.type # "PUBLISH",
               c2b' = c2b \/ c2b' = Append(c2b, e)
        PROVE  Old
    <2>1. CASE c2b' = Append(c2b, e)
      BY <1>0, <1>2, <2>1, AppendElement DEF LinkTypeOK
    <2> QED
      BY <1>1, <1>2, <2>1
  <1>3. ASSUME NEW e \in ToBroker, e.type # "PUBLISH", WriteOk(e)
        PROVE  Old
    BY <1>2, <1>3 DEF WriteOk
  <1>4. [type |-> "DISCONNECT"] \in ToBroker
    BY DEF ToBroker
  <1>5. CASE \/ \E cf \in Configs : StartSession(cf)
             \/ \E c \in Calls : CallInitial(c) \/ CallConnected(c)
             \/ AuthOk \/ AuthFails \/ Connected \/ StartRestore \/ Restored \/ LoopEnd
    BY <1>1, <1>5 DEF StartSession, CallInitial, CallConnected, AuthOk, AuthFails,
       Connected, StartRestore, Restored, NowConnected, LoopEnd
  <1>6. CASE EndSession \/ ConnectAgain
    <2>1. Disconnect
      BY <1>6 DEF EndSession, ConnectAgain
    <2>2. Kept
      BY <2>1 DEF Disconnect, disconnect, cleanSession
    <2>3. c2b' = c2b \/ c2b' = Append(c2b, [type |-> "DISCONNECT"])
      BY <2>1 DEF Disconnect
    <2> QED
      BY <1>2, <1>4, <2>2, <2>3
  <1>7. CASE IsConnected \/ (\E c \in Calls : CallReconnect(c)) \/ ConnectTlsFails
    <2>1. TakeDown
      BY <1>7 DEF IsConnected, CallReconnect, Reconcile, ConnectTlsFails
    <2>2. Kept /\ c2b' = c2b
      BY <2>1 DEF TakeDown, disconnect, cleanSession, Close
    <2> QED
      BY <1>1, <2>2
  <1>8. CASE ConnectTls
    BY <1>1, <1>8 DEF ConnectTls, TlsConnect, disconnect, cleanSession
  <1>9. CASE ConnectSent
    <2>1. [type |-> "CONNECT", clean |-> CleanFlag] \in ToBroker
      BY <1>0 DEF CleanFlag, TypeOK, AllConfigs, ToBroker
    <2> QED
      BY <1>3, <1>9, <2>1 DEF ConnectSent, connectSent
  <1>10. CASE ConnectNotSent \/ ConnackRefused \/ ConnackTimeout
    BY <1>1, <1>10 DEF ConnectNotSent, connectNotSent, WriteFails, Close, ConnackRefused,
       connackRefused, ConnackTimeout, connectTimeout, cleanSession
  <1>11. CASE ConnackOk
    <2>1. CASE inflight = NoInflight
      BY <1>1, <1>11, <2>1 DEF ConnackOk, connackOk
    <2>2. CASE inflight # NoInflight
      <3>1. Resend \in ToBroker /\ Resend.msg = inflight.msg
        BY <1>0, <2>2, PublishPackets DEF Resend, PahoTypeOK, Inflights
      <3>2. inflight' = inflight /\ (c2b' = c2b \/ c2b' = Append(c2b, Resend))
        BY <1>11, <2>2 DEF ConnackOk, connackOk, WriteOk
      <3>3. CASE c2b' = Append(c2b, Resend)
        <4>1. ASSUME NEW i \in 1..Len(c2b')
              PROVE  (\E j \in 1..Len(c2b) : c2b'[i] = c2b[j]) \/ c2b'[i] = Resend
          BY <1>0, <3>1, <3>3, AppendElement DEF LinkTypeOK
        <4> QED
          BY <1>11, <2>2, <3>1, <3>2, <4>1
      <3> QED
        BY <1>1, <3>2, <3>3
    <2> QED
      BY <2>1, <2>2
  <1>12. CASE (\E t \in Topics : RestoreNext(t)) \/ SubscribeSent \/ UnsubscribeSent
    <2>1. call.op \in {"Subscribe", "Unsubscribe"} => call.topic \in Topics
      BY <1>0 DEF TypeOK, Calls, StartCall
    <2>2. PICK t \in Topics : subscribeSent(t) \/ unsubscribeSent(t)
      BY <1>12, <2>1 DEF RestoreNext, SubscribeSent, UnsubscribeSent, Body
    <2> DEFINE s == [type |-> "SUBSCRIBE", id |-> getNext, topic |-> t]
               u == [type |-> "UNSUBSCRIBE", id |-> getNext, topic |-> t]
    <2>3. s \in ToBroker /\ u \in ToBroker
      BY <1>0, GetNextType, TopicPackets DEF PahoTypeOK
    <2>4. s.type # "PUBLISH" /\ u.type # "PUBLISH" /\ inflight' = inflight
      BY <2>2 DEF subscribeSent, unsubscribeSent
    <2>5. WriteOk(s) \/ WriteOk(u)
      BY <2>2 DEF subscribeSent, unsubscribeSent
    <2> HIDE DEF s, u
    <2> QED
      BY <1>3, <2>3, <2>4, <2>5
  <1>13. CASE RestoreNotSent \/ CommandNotSent
    BY <1>1, <1>13 DEF RestoreNotSent, CommandNotSent, commandNotSent, WriteFails, Close,
       cleanSession
  <1>14. CASE \/ RestoreAck \/ RestoreRejected \/ SubscribeAck \/ SubscribeRejected
              \/ UnsubscribeAck \/ PublishAck \/ LoopReadTooLate
    BY <1>1, <1>14 DEF RestoreAck, RestoreRejected, SubscribeAck, SubscribeRejected,
       UnsubscribeAck, PublishAck, LoopReadTooLate, ackRead, pubackRead, commandFailed,
       cleanSession
  <1>15. CASE RestoreTimeout \/ CommandTimeout \/ CommandTooLong \/ PublishTooLong
    BY <1>1, <1>15 DEF RestoreTimeout, CommandTimeout, CommandTooLong, PublishTooLong,
       commandFailed, commandTooLong, publishTooLong, cleanSession
  <1>16. CASE WaitReadFails \/ LoopReadFails
    BY <1>1, <1>16 DEF WaitReadFails, LoopReadFails, ReadFails, Close
  <1>17. CASE WaitOther \/ LoopRead
    <2>1. PICK w : cycleOther(w)
      BY <1>17 DEF WaitOther, LoopRead
    <2> DEFINE e == [type |-> "PUBREL", id |-> Head(b2c).id]
    <2>2. inflight' = inflight /\ (c2b' = c2b \/ (WriteOk(e) /\ Head(b2c).type = "PUBREC"))
      BY <2>1 DEF cycleOther
    <2>3. Head(b2c).type = "PUBREC" => e \in ToBroker
      BY <1>0, <2>1, ReadType, ToClientFields, PlainPackets DEF cycleOther
    <2>4. e.type # "PUBLISH"
      OBVIOUS
    <2> HIDE DEF e
    <2> QED
      BY <1>1, <1>3, <2>2, <2>3, <2>4
  <1>18. CASE Outside
    <2>1. c2b' = <<>> \/ (c2b # <<>> /\ c2b' = Tail(c2b))
      BY <1>0, <1>18, OutsideWire
    <2>2. inflight' = inflight
      BY <1>18 DEF Outside, clientVars
    <2> QED
      BY <1>0, <1>1, <2>1, <2>2, TailElement DEF LinkTypeOK
  <1> QED
    BY <1>5, <1>6, <1>7, <1>8, <1>9, <1>10, <1>11, <1>12, <1>13, <1>14, <1>15, <1>16,
       <1>17, <1>18
       DEF Next, AppCall, Connecting, InBody


\* The broker counts a message only when it takes a publish of it, and answers
\* with a PUBACK only a QoS 1 publish that it has counted.
LEMMA ReceivedStep ==
    ASSUME IInv, Outside
    PROVE  /\ bRecv' # bRecv =>
                 /\ c2b # <<>> /\ c2b' = Tail(c2b)
                 /\ Head(c2b).type = "PUBLISH" /\ Receive(Head(c2b).msg)
           /\ (c2b # <<>> /\ c2b' = Tail(c2b)) \/ c2b' = <<>>
           /\ \A i \in 1..Len(b2c') : b2c'[i].type = "PUBACK" =>
                 \/ \E j \in 1..Len(b2c) : b2c'[i] = b2c[j]
                 \/ /\ c2b # <<>> /\ c2b' = Tail(c2b)
                    /\ Head(c2b).type = "PUBLISH" /\ ~Head(c2b).qos2
                    /\ Receive(Head(c2b).msg)
  <1> USE DEF linkVars, brokerVars, Pkt
  <1>0. TypeOK /\ LinkTypeOK
    BY DEF IInv, TypeOK
  <1>1. c2b # <<>> => Head(c2b) \in ToBroker
    BY <1>0, HeadTail DEF LinkTypeOK
  <1> DEFINE Old == \A i \in 1..Len(b2c') : b2c'[i].type = "PUBACK" =>
                       \E j \in 1..Len(b2c) : b2c'[i] = b2c[j]
  <1>2. ASSUME NEW r \in ToClient, r.type # "PUBACK", Reply(r)
        PROVE  Old
    <2>1. CASE b2c' = Append(b2c, r)
      BY <1>0, <1>2, <2>1, AppendElement DEF LinkTypeOK
    <2> QED
      BY <1>2, <2>1 DEF Reply
  <1>3. CASE BrokerAccept \/ BrokerRefuse
    <2>1. Head(c2b).clean \in BOOLEAN
      BY <1>1, <1>3, ToBrokerFields DEF BrokerAccept, BrokerRefuse, Take
    <2>2. PICK a \in BOOLEAN, b \in BOOLEAN : Reply([type |-> "CONNACK", accepted |-> a, sp |-> b])
      <3>1. (~Head(c2b).clean /\ bStored) \in BOOLEAN
        OBVIOUS
      <3> QED
        BY <1>3, <3>1 DEF BrokerAccept, BrokerRefuse
    <2>3. [type |-> "CONNACK", accepted |-> a, sp |-> b] \in ToClient
      BY DEF ToClient
    <2>4. bRecv' = bRecv /\ c2b # <<>> /\ c2b' = Tail(c2b)
      BY <1>3 DEF BrokerAccept, BrokerRefuse, Take
    <2> QED
      BY <1>2, <2>2, <2>3, <2>4
  <1>4. CASE BrokerSubscribe \/ BrokerReject
    <2>1. PICK g \in BOOLEAN : Reply([type |-> "SUBACK", id |-> Head(c2b).id, granted |-> g])
      BY <1>4 DEF BrokerSubscribe, BrokerReject
    <2>2. [type |-> "SUBACK", id |-> Head(c2b).id, granted |-> g] \in ToClient
      BY <1>1, <1>4, ToBrokerFields, BrokerPackets DEF BrokerSubscribe, BrokerReject, Take
    <2>3. bRecv' = bRecv /\ c2b # <<>> /\ c2b' = Tail(c2b)
      BY <1>4 DEF BrokerSubscribe, BrokerReject, Take
    <2> QED
      BY <1>2, <2>1, <2>2, <2>3
  <1>5. CASE BrokerUnsubscribe
    <2>1. [type |-> "UNSUBACK", id |-> Head(c2b).id] \in ToClient
      BY <1>1, <1>5, ToBrokerFields, BrokerPackets DEF BrokerUnsubscribe, Take
    <2> QED
      BY <1>2, <1>5, <2>1 DEF BrokerUnsubscribe, Take
  <1>6. CASE BrokerPublish1
    <2>1. /\ c2b # <<>> /\ c2b' = Tail(c2b) /\ Head(c2b).type = "PUBLISH"
          /\ ~Head(c2b).qos2 /\ Receive(Head(c2b).msg)
      BY <1>6 DEF BrokerPublish1, Take
    <2> QED
      BY <2>1
  <1>7. CASE BrokerPublish2
    <2>1. [type |-> "PUBREC", id |-> Head(c2b).id] \in ToClient
      BY <1>1, <1>7, ToBrokerFields, BrokerPackets DEF BrokerPublish2, Take
    <2> QED
      BY <1>2, <1>7, <2>1 DEF BrokerPublish2, Take
  <1>8. CASE BrokerPubrel
    <2>1. [type |-> "PUBCOMP", id |-> Head(c2b).id] \in ToClient
      BY <1>1, <1>8, ToBrokerFields, BrokerPackets DEF BrokerPubrel, Take
    <2> QED
      BY <1>2, <1>8, <2>1 DEF BrokerPubrel, Take
  <1>9. CASE BrokerIgnore \/ BrokerDisconnect
    BY <1>9 DEF BrokerIgnore, BrokerDisconnect, Take
  <1>10. CASE BrokerHangUp \/ BrokerLosesSession \/ (Drop /\ UNCHANGED brokerVars)
    BY <1>10 DEF BrokerHangUp, BrokerLosesSession, Drop, LinkLost
  <1> QED
    BY <1>3, <1>4, <1>5, <1>6, <1>7, <1>8, <1>9, <1>10 DEF Outside, BrokerStep

\* Only the broker counts messages.
LEMMA CountedOutside ==
    ASSUME Next, ~Outside
    PROVE  bRecv' = bRecv
  BY DEF Next, AppCall, Connecting, InBody, brokerVars, StartSession, EndSession,
     IsConnected, CallInitial, CallConnected, CallReconnect, AuthOk, AuthFails, ConnectTls,
     ConnectTlsFails, ConnectSent, ConnectNotSent, ConnackOk, ConnackRefused,
     ConnackTimeout, ConnectAgain, Connected, Restored, NowConnected, StartRestore,
     RestoreNext, RestoreNotSent, RestoreAck, RestoreRejected, RestoreTimeout,
     SubscribeSent, SubscribeAck, SubscribeRejected, UnsubscribeSent, UnsubscribeAck,
     PublishSent, PublishAck, CommandNotSent, CommandTooLong, PublishTooLong,
     CommandTimeout, WaitOther, WaitReadFails, LoopRead, LoopReadTooLate, LoopEnd,
     LoopReadFails

\* A message of which nothing is under way stays so until it is published.
LEMMA SilentStep ==
    ASSUME IInv, Next, NEW m \in Msgs, Silent(m), ~(PublishSent /\ call.msg = m)
    PROVE  Silent(m)' /\ bRecv'[m] = bRecv[m]
  <1>0. TypeOK /\ LinkTypeOK /\ PahoTypeOK /\ bRecv \in [Msgs -> 0..RecvCap]
    BY DEF IInv, TypeOK, BrokerTypeOK
  <1>1. bRecv'[m] = bRecv[m]
    <2>1. CASE bRecv' # bRecv
      <3>1. /\ c2b # <<>> /\ Head(c2b).type = "PUBLISH" /\ Receive(Head(c2b).msg)
        BY <2>1, CountedOutside, ReceivedStep
      <3>2. Head(c2b).msg # m
        BY <1>0, <3>1, HeadTail DEF Silent, LinkTypeOK
      <3> QED
        BY <1>0, <3>1, <3>2 DEF Receive
    <2> QED
      BY <2>1
  <1>2. CASE ~PublishSent
    BY <1>1, <1>2, PublishesStep DEF Silent
  <1>3. CASE PublishSent
    <2> DEFINE e == [type |-> "PUBLISH", id |-> getNext, msg |-> call.msg, qos2 |-> conf.qos2]
    <2>1. call.msg \in Msgs /\ conf.qos2 \in BOOLEAN /\ call.msg # m /\ getNext \in PacketIds
      BY <1>0, <1>3, GetNextType
         DEF PublishSent, Body, TypeOK, Calls, StartCall, AllConfigs, PahoTypeOK
    <2>2. e \in ToBroker /\ e.msg = call.msg
      BY <2>1, PublishPackets
    <2>3. c2b' = c2b \/ c2b' = Append(c2b, e)
      BY <1>3 DEF PublishSent, publishSent, WriteOk
    <2>4. inflight' # NoInflight => inflight'.msg # m
      <3>1. CASE cleansession
        BY <1>3, <3>1 DEF PublishSent, publishSent, Silent
      <3>2. CASE ~cleansession
        BY <1>3, <2>1, <3>2 DEF PublishSent, publishSent
      <3> QED
        BY <3>1, <3>2
    <2> HIDE DEF e
    <2>5. \A i \in 1..Len(c2b') : c2b'[i].type = "PUBLISH" => c2b'[i].msg # m
      <3>1. CASE c2b' = c2b
        BY <3>1 DEF Silent
      <3>2. CASE c2b' = Append(c2b, e)
        <4>1. ASSUME NEW i \in 1..Len(c2b')
              PROVE  (\E j \in 1..Len(c2b) : c2b'[i] = c2b[j]) \/ c2b'[i] = e
          BY <1>0, <2>2, <3>2, AppendElement DEF LinkTypeOK
        <4> QED
          BY <2>1, <2>2, <4>1 DEF Silent
      <3> QED
        BY <2>3, <3>1, <3>2
    <2> QED
      BY <1>1, <2>4, <2>5 DEF Silent
  <1> QED
    BY <1>1, <1>2, <1>3

\* What the calls note of messages.
LEMMA NotedStep ==
    ASSUME Next
    PROVE  /\ used \subseteq used'
           /\ \/ done' = done
              \/ PublishSent /\ conf.qos2 /\ done' = done \cup {[msg |-> call.msg, qos2 |-> TRUE]}
              \/ PublishAck /\ done' = done \cup {[msg |-> call.msg, qos2 |-> FALSE]}
  <1> USE DEF histVars, clientVars
  <1>1. CASE \/ \E cf \in Configs : StartSession(cf)
             \/ EndSession \/ IsConnected \/ (\E c \in Calls : AppCall(c)) \/ Outside
    BY <1>1 DEF StartSession, EndSession, IsConnected, AppCall, CallInitial, CallConnected,
       CallReconnect, Noted, Outside
  <1>2. CASE Connecting
    BY <1>2 DEF Connecting, AuthOk, AuthFails, ConnectTls,
     ConnectTlsFails, ConnectSent, ConnectNotSent, ConnackOk, ConnackRefused,
     ConnackTimeout, ConnectAgain, Connected, Restored, NowConnected, StartRestore,
     RestoreNext, RestoreNotSent, RestoreAck, RestoreRejected, RestoreTimeout
  <1>3. CASE InBody
    <2>1. CASE PublishSent
      BY <2>1 DEF PublishSent
    <2>2. CASE PublishAck
      BY <2>2 DEF PublishAck
    <2> QED
      BY <1>3, <2>1, <2>2 DEF InBody,
       SubscribeSent, SubscribeAck, SubscribeRejected, UnsubscribeSent, UnsubscribeAck,
       CommandNotSent, CommandTooLong, PublishTooLong,
       CommandTimeout, WaitOther, WaitReadFails, LoopRead, LoopReadTooLate, LoopEnd,
       LoopReadFails
  <1> QED
    BY <1>1, <1>2, <1>3 DEF Next

\* Within a call, and when it is over, the call is the same; only PublishSent goes on
\* to the wait for PUBACK.
LEMMA CallStep ==
    ASSUME Next, ~(\E cf \in Configs : StartSession(cf)), ~(\E c \in Calls : AppCall(c))
    PROVE  /\ call' = call /\ used' = used
           /\ conf' = conf
           /\ pc' \notin {"idle", "puback"} => pc \notin {"idle", "puback"}
           /\ pc' = "idle" \/ pc # "idle"
           /\ pc' = "puback" => pc = "puback" \/ (PublishSent /\ ~conf.qos2)
  <1> USE DEF sessVars, ctlVars, histVars, clientVars
  <1>1. CASE EndSession \/ IsConnected \/ Outside
    BY <1>1 DEF EndSession, IsConnected, Outside
  <1>2. CASE \/ AuthOk \/ AuthFails \/ ConnectTls \/ ConnectTlsFails \/ ConnectSent
             \/ ConnectNotSent \/ ConnackOk \/ ConnackRefused \/ ConnackTimeout
             \/ ConnectAgain
    BY <1>2 DEF AuthOk, AuthFails, ConnectTls, ConnectTlsFails, ConnectSent,
       ConnectNotSent, ConnackOk, ConnackRefused, ConnackTimeout, ConnectAgain, GiveUp
  <1>3. CASE \/ Connected \/ Restored \/ StartRestore \/ (\E t \in Topics : RestoreNext(t))
             \/ RestoreNotSent \/ RestoreAck \/ RestoreRejected \/ RestoreTimeout
    BY <1>3 DEF Connected, Restored, NowConnected, StartRestore, RestoreNext,
       RestoreNotSent, RestoreAck, RestoreRejected, RestoreTimeout, GiveUp
  <1>4. CASE \/ SubscribeSent \/ SubscribeAck \/ SubscribeRejected \/ UnsubscribeSent
             \/ UnsubscribeAck \/ PublishSent \/ PublishAck
    BY <1>4 DEF SubscribeSent, SubscribeAck, SubscribeRejected, UnsubscribeSent,
       UnsubscribeAck, PublishSent, PublishAck, Return, Body
  <1>5. CASE \/ CommandNotSent \/ CommandTooLong \/ PublishTooLong \/ CommandTimeout
             \/ WaitOther \/ WaitReadFails \/ LoopRead \/ LoopReadTooLate \/ LoopEnd
             \/ LoopReadFails
    BY <1>5 DEF CommandNotSent, CommandTooLong, PublishTooLong, CommandTimeout, WaitOther,
       WaitReadFails, LoopRead, LoopReadTooLate, LoopEnd, LoopReadFails, Return, Body,
       Waiting, Awaits
  <1> QED
    BY <1>1, <1>2, <1>3, <1>4, <1>5 DEF Next, Connecting, InBody


(***************************************************************************)
(* MInv is inductive                                                       *)
(***************************************************************************)
LEMMA UntouchedStep ==
    ASSUME IInv, Next, NEW m \in Msgs, Untouched(m),
           ~(PublishSent /\ call.msg = m), ~(PublishAck /\ call.msg = m)
    PROVE  Untouched(m)'
  <1>1. Silent(m)' /\ bRecv'[m] = bRecv[m]
    BY SilentStep DEF Untouched
  <1>2. \A p \in done' : p.msg # m
    BY NotedStep DEF Untouched
  <1> QED
    BY <1>1, <1>2 DEF Untouched

LEMMA UsedStep ==
    ASSUME IInv, MInv, Next
    PROVE  UsedInv'
  <1> SUFFICES ASSUME NEW m \in Msgs, m \notin used'
               PROVE  Untouched(m)'
    BY DEF UsedInv
  <1>1. m \notin used /\ Untouched(m)
    BY NotedStep DEF MInv, UsedInv
  <1>2. PublishSent \/ PublishAck => call.msg \in used
    BY DEF MInv, CallInv, PublishSent, Body, PublishAck, IInv, TypeOK
  <1> QED
    BY <1>1, <1>2, UntouchedStep

\* The publish is written: it is the only one under way for its message.
LEMMA AwaitedSent ==
    ASSUME IInv, MInv, PublishSent, ~conf.qos2
    PROVE  AwaitedInv'
  <1>0. TypeOK /\ LinkTypeOK /\ PahoTypeOK /\ conf.qos2 \in BOOLEAN
    BY DEF IInv, TypeOK, AllConfigs
  <1>1. pc = "body" /\ call.op = "Publish" /\ Untouched(call.msg) /\ Quiet
    BY DEF PublishSent, Body, MInv, CallInv, IInv, WireInv
  <1> DEFINE e == [type |-> "PUBLISH", id |-> getNext, msg |-> call.msg, qos2 |-> conf.qos2]
  <1>2. UNCHANGED <<call, conf, bRecv, b2c, done>> /\ (c2b' = c2b \/ c2b' = Append(c2b, e))
    BY DEF PublishSent, publishSent, WriteOk, brokerVars, sessVars, ctlVars
  <1>3. e \in ToBroker
    BY <1>0, <1>1, GetNextType, PublishPackets DEF TypeOK, Calls, StartCall, PahoTypeOK
  <1>4. e.type = "PUBLISH" /\ ~e.qos2 /\ e.msg = call.msg
    OBVIOUS
  <1> HIDE DEF e
  <1>5. ASSUME NEW i \in 1..Len(c2b'), c2b'[i].type = "PUBLISH"
        PROVE  IF c2b'[i].qos2 THEN c2b'[i].msg # call.msg
               ELSE c2b'[i].msg = call.msg /\ bRecv[call.msg] = 0
    <2>1. ASSUME NEW j \in 1..Len(c2b), c2b[j].type = "PUBLISH"
          PROVE  c2b[j].qos2 /\ c2b[j].msg # call.msg
      BY <1>1, <2>1 DEF Quiet, IsCommand, Untouched, Silent
    <2>2. (\E j \in 1..Len(c2b) : c2b'[i] = c2b[j]) \/ c2b'[i] = e
      <3>1. CASE c2b' = Append(c2b, e)
        BY <1>0, <1>3, <3>1, AppendElement DEF LinkTypeOK
      <3> QED
        BY <1>2, <3>1
    <2> QED
      BY <1>1, <1>4, <1>5, <2>1, <2>2 DEF Untouched
  <1>6. \A i \in 1..Len(b2c') : b2c'[i].type # "PUBACK"
    BY <1>1, <1>2 DEF Quiet, Acks
  <1>7. inflight' # NoInflight /\ inflight'.msg = call.msg => ~inflight'.qos2
    BY <1>1 DEF PublishSent, publishSent, Untouched, Silent
  <1> QED
    BY <1>1, <1>2, <1>5, <1>6, <1>7 DEF AwaitedInv, Untouched

\* The wait for the PUBACK goes on, whatever else is read, taken or lost.
LEMMA AwaitedStep ==
    ASSUME IInv, MInv, Next, pc = "puback", pc' = "puback"
    PROVE  AwaitedInv'
  <1>0. /\ TypeOK /\ LinkTypeOK /\ PahoTypeOK /\ OnlyOne("PUBACK") /\ AwaitedInv
        /\ bRecv \in [Msgs -> 0..RecvCap] /\ call.msg \in Msgs
        /\ c2b \in Seq(ToBroker)
    BY DEF IInv, TypeOK, LinkTypeOK, BrokerTypeOK, WireInv, Waiting, Awaits, MInv, CallInv,
       Calls, StartCall
  <1>1. WaitOther \/ WaitReadFails \/ Outside
    BY DEF Next, AppCall, MayCall, Connecting, InBody, StartSession, EndSession,
     IsConnected, CallInitial, CallConnected, CallReconnect, AuthOk, AuthFails, ConnectTls,
     ConnectTlsFails, ConnectSent, ConnectNotSent, ConnackOk, ConnackRefused,
     ConnackTimeout, ConnectAgain, Connected, Restored, NowConnected, StartRestore,
     RestoreNext, RestoreNotSent, RestoreAck, RestoreRejected, RestoreTimeout,
     SubscribeSent, SubscribeAck, SubscribeRejected, UnsubscribeSent, UnsubscribeAck,
     PublishSent, PublishAck, CommandNotSent, CommandTooLong, PublishTooLong,
     CommandTimeout, LoopRead, LoopReadTooLate, LoopEnd, LoopReadFails, Body, Return
  <1>2. UNCHANGED <<call, conf, done, inflight>>
    BY <1>1 DEF WaitOther, cycleOther, WaitReadFails, Outside, clientVars, sessVars,
       ctlVars, histVars, mqttVars
  <1>p. ~PublishSent /\ ~ConnackOk
    BY DEF PublishSent, Body, ConnackOk
  <1>3. \A i \in 1..Len(c2b') : c2b'[i].type = "PUBLISH" =>
           \E j \in 1..Len(c2b) : c2b'[i] = c2b[j]
    BY <1>p, PublishesStep
  <1>4. CASE bRecv' = bRecv /\ \A i \in 1..Len(b2c') : b2c'[i].type = "PUBACK" =>
                                  \E j \in 1..Len(b2c) : b2c'[i] = b2c[j]
    BY <1>0, <1>2, <1>3, <1>4 DEF AwaitedInv
  <1>5. CASE WaitOther
    <2>1. Read /\ bRecv' = bRecv
      BY <1>5 DEF WaitOther, cycleOther, brokerVars
    <2> QED
      BY <1>0, <1>4, <2>1, TailElement DEF Read, LinkTypeOK
  <1>6. CASE WaitReadFails
    BY <1>4, <1>6 DEF WaitReadFails, ReadFails, Close, brokerVars
  <1>7. ASSUME c2b # <<>>, c2b' = Tail(c2b), Head(c2b).type = "PUBLISH", ~Head(c2b).qos2,
               Receive(Head(c2b).msg)
        PROVE  AwaitedInv'
    <2>1. /\ 1 \in 1..Len(c2b) /\ Head(c2b) = c2b[1] /\ IsCommand(c2b[1])
          /\ Head(c2b).msg = call.msg /\ bRecv[call.msg] = 0
      BY <1>0, <1>7, HeadTail DEF AwaitedInv, IsCommand
    <2>2. bRecv'[call.msg] = 1
      BY <1>0, <1>7, <2>1 DEF Receive, RecvCap
    <2>3. ASSUME NEW i \in 1..Len(c2b'), c2b'[i].type = "PUBLISH"
          PROVE  c2b'[i].qos2 /\ c2b'[i].msg # call.msg
      <3>1. i + 1 \in 1..Len(c2b) /\ c2b'[i] = c2b[i + 1] /\ i + 1 # 1
        BY <1>0, <1>7, HeadTail
      <3>2. ~IsCommand(c2b[i + 1])
        BY <1>0, <2>1, <3>1 DEF OnlyOne
      <3> QED
        BY <1>0, <2>3, <3>1, <3>2 DEF IsCommand, AwaitedInv
    <2> QED
      BY <1>0, <1>2, <2>2, <2>3 DEF AwaitedInv
  <1>8. CASE Outside
    <2>1. CASE /\ c2b # <<>> /\ c2b' = Tail(c2b) /\ Head(c2b).type = "PUBLISH"
               /\ Head(c2b).qos2 /\ Receive(Head(c2b).msg) /\ bRecv' # bRecv
      <3>1. Head(c2b).msg # call.msg
        BY <1>0, <2>1, HeadTail DEF AwaitedInv
      <3>2. bRecv'[call.msg] = bRecv[call.msg]
        BY <1>0, <2>1, <3>1 DEF Receive
      <3>3. \A i \in 1..Len(b2c') : b2c'[i].type = "PUBACK" =>
               \E j \in 1..Len(b2c) : b2c'[i] = b2c[j]
        BY <1>8, <2>1, ReceivedStep
      <3> QED
        BY <1>0, <1>2, <1>3, <3>2, <3>3 DEF AwaitedInv
    <2> QED
      BY <1>4, <1>7, <1>8, <2>1, ReceivedStep
  <1> QED
    BY <1>1, <1>5, <1>6, <1>8

LEMMA CallInvStep ==
    ASSUME IInv, MInv, Next
    PROVE  CallInv'
  <1>0. TypeOK /\ UsedInv /\ CallInv
    BY DEF IInv, MInv
  <1>1. CASE \E cf \in Configs : StartSession(cf)
    BY <1>1 DEF StartSession, StartCall, CallInv
  <1>2. ASSUME NEW c \in Calls, AppCall(c)
        PROVE  CallInv'
    <2>1. call' = c /\ pc' # "puback" /\ (c.op = "Publish" => c.msg \notin used /\ c.msg \in used')
      BY <1>2 DEF AppCall, CallInitial, CallConnected, CallReconnect, MayCall, Noted
    <2>2. ASSUME c.op = "Publish"
          PROVE  Untouched(c.msg)'
      <3>1. c.msg \in Msgs /\ pc = "idle"
        BY <1>2, <2>2 DEF Calls, AppCall, CallInitial, CallConnected, CallReconnect, MayCall
      <3>2. Untouched(c.msg)
        BY <1>0, <2>1, <2>2, <3>1 DEF UsedInv
      <3> QED
        BY <3>1, <3>2, UntouchedStep DEF PublishSent, Body, PublishAck
    <2>3. c.op = "Publish" => (Silent(c.msg)' /\ bRecv'[c.msg] = 0 /\ \A p \in done' : p.msg # c.msg)
      BY <2>2 DEF Untouched
    <2> QED
      BY <2>1, <2>3 DEF CallInv, Untouched, Silent
  <1>3. CASE ~(\E cf \in Configs : StartSession(cf)) /\ ~(\E c \in Calls : AppCall(c))
    <2>1. /\ call' = call /\ used' = used
          /\ pc' \notin {"idle", "puback"} => pc \notin {"idle", "puback"}
          /\ pc' = "idle" \/ pc # "idle"
          /\ pc' = "puback" => pc = "puback" \/ (PublishSent /\ ~conf.qos2)
      BY <1>3, CallStep
    <2>2. pc' = "puback" => AwaitedInv'
      BY <2>1, AwaitedSent, AwaitedStep
    <2>3. ASSUME pc' \notin {"idle", "puback"}, call.op = "Publish"
          PROVE  Untouched(call.msg)'
      <3>1. Untouched(call.msg) /\ call.msg \in Msgs
        BY <1>0, <2>1, <2>3 DEF CallInv, TypeOK, Calls, StartCall
      <3>2. ~PublishSent /\ ~PublishAck
        BY <2>3 DEF PublishSent, PublishAck, Return
      <3>3. \A m \in Msgs : Untouched(m) => Untouched(m)'
        BY <3>2, UntouchedStep
      <3>4. \A m \in Msgs : m = call.msg => (Silent(m)' /\ bRecv'[m] = 0 /\ \A p \in done' : p.msg # m)
        BY <3>1, <3>3 DEF Untouched
      <3> QED
        BY <2>1, <3>1, <3>4 DEF Untouched, Silent
    <2> QED
      BY <1>0, <2>1, <2>2, <2>3 DEF CallInv
  <1> QED
    BY <1>1, <1>2, <1>3

LEMMA DoneStep ==
    ASSUME IInv, MInv, Next
    PROVE  DoneInv'
  <1>0. /\ TypeOK /\ LinkTypeOK /\ PahoTypeOK /\ CallInv /\ DoneInv
        /\ done \subseteq [msg : Msgs, qos2 : BOOLEAN]
    BY DEF IInv, MInv, TypeOK
  <1>1. ASSUME NEW p \in done, ~p.qos2
        PROVE  bRecv'[p.msg] = 1 /\ Silent(p.msg)'
    <2>1. p.msg \in Msgs /\ bRecv[p.msg] = 1 /\ Silent(p.msg)
      BY <1>0, <1>1 DEF DoneInv
    <2>2. PublishSent => p.msg # call.msg
      BY <1>0 DEF PublishSent, Body, CallInv, Untouched
    <2> QED
      BY <2>1, <2>2, SilentStep
  <1>2. ASSUME PublishAck
        PROVE  bRecv'[call.msg] = 1 /\ Silent(call.msg)'
    <2>1. /\ pc = "puback" /\ AwaitedInv /\ OnlyOne("PUBACK") /\ call' = call
          /\ bRecv' = bRecv /\ c2b' = c2b
          /\ Read /\ Head(b2c).type = "PUBACK"
          /\ inflight' = IF inflight.id = Head(b2c).id THEN NoInflight ELSE inflight
      BY <1>0, <1>2 DEF PublishAck, pubackRead, ackRead, CallInv, IInv, WireInv, Waiting,
         Awaits, Return, ctlVars, brokerVars
    <2>2. 1 \in 1..Len(b2c) /\ Head(b2c) = b2c[1]
      BY <1>0, <2>1, HeadTail DEF Read, LinkTypeOK
    <2>3. bRecv[call.msg] = 1 /\ Head(b2c).id = packetid
      BY <2>1, <2>2 DEF AwaitedInv, OnlyOne, Acks
    <2>4. \A i \in 1..Len(c2b') : c2b'[i].type = "PUBLISH" => c2b'[i].msg # call.msg
      BY <2>1, <2>3 DEF AwaitedInv
    <2>5. inflight' # NoInflight => inflight'.msg # call.msg
      <3>1. inflight # NoInflight /\ inflight.msg = call.msg => inflight.id = packetid
        BY <2>1 DEF AwaitedInv, IInv, InflightInv
      <3> QED
        BY <2>1, <2>3, <3>1
    <2> QED
      BY <2>1, <2>3, <2>4, <2>5 DEF Silent
  <1>3. ASSUME NEW p \in done', ~p.qos2
        PROVE  p \in done \/ (PublishAck /\ p.msg = call.msg)
    BY <1>3, NotedStep
  <1>4. ASSUME NEW p \in done', ~p.qos2
        PROVE  /\ bRecv'[p.msg] = 1
               /\ \A i \in 1..Len(c2b') : c2b'[i].type = "PUBLISH" => c2b'[i].msg # p.msg
               /\ inflight' # NoInflight => inflight'.msg # p.msg
    <2>1. CASE p \in done
      BY <1>1, <1>4, <2>1 DEF Silent
    <2>2. CASE PublishAck /\ p.msg = call.msg
      <3>1. call' = call
        BY <2>2 DEF PublishAck, Return, ctlVars
      <3> QED
        BY <1>2, <2>2, <3>1 DEF Silent
    <2> QED
      BY <1>3, <1>4, <2>1, <2>2
  <1> QED
    BY <1>4 DEF DoneInv, Silent


LEMMA MessagesInv == Spec => [](IInv /\ MInv)
  <1>1. Init => MInv
    BY DEF Init, LinkInit, PahoInit, BrokerInit, MInv, UsedInv, CallInv, DoneInv,
           Untouched, Silent
  <1>2. IInv /\ MInv /\ [Next]_vars => MInv'
    <2>1. IInv /\ MInv /\ Next => MInv'
      BY UsedStep, CallInvStep, DoneStep DEF MInv
    <2>2. MInv /\ UNCHANGED vars => MInv'
      BY DEF vars, linkVars, brokerVars, mqttVars, sessVars, ctlVars, histVars, MInv,
             UsedInv, CallInv, DoneInv, AwaitedInv, Untouched, Silent
    <2> QED
      BY <2>1, <2>2
  <1> QED
    BY <1>1, <1>2, Inductive, PTL DEF Spec

\* A QoS 1 publish for which Publish returned true reached the broker exactly once,
\* whatever was lost, late or sent again.
THEOREM QoS1Once == Spec => []PublishedOnce
  <1>1. MInv => PublishedOnce
    BY DEF MInv, DoneInv, PublishedOnce
  <1> QED
    BY <1>1, MessagesInv, PTL

(***************************************************************************)
(* IotClient implements Session                                            *)
(***************************************************************************)
LEMMA SessionInit == Init => Abstract!Init
  <1> SUFFICES ASSUME Init PROVE Abstract!Init
    OBVIOUS
  <1>1. conf.qos2 \in BOOLEAN
    BY ConfigsAssumption DEF Init, AllConfigs
  <1>2. {m \in Msgs : bRecv[m] > 0} = {}
    BY DEF Init, BrokerInit
  <1> QED
    BY <1>1, <1>2 DEF Init, Abstract!Init, Abstract!NoCall

\* The call the application is in.
Busy == IF pc = "idle" THEN [op |-> "none"] ELSE call

\* A step inside a call, or of the network.
LEMMA SessionStutters ==
    ASSUME UNCHANGED <<mState, mSubscriptions, used, done, bRecv>>,
           conf'.qos2 = conf.qos2, Busy' = Busy
    PROVE  UNCHANGED Abstract!vars
  BY DEF Abstract!vars, Busy

\* A call that fails.
LEMMA SessionReturns ==
    ASSUME UNCHANGED <<mState, mSubscriptions, conf, used, done, bRecv>>,
           TypeOK, pc # "idle", pc' = "idle"
    PROVE  Abstract!Return
  <1>1. call # [op |-> "none"]
    BY DEF TypeOK, Calls, StartCall
  <1> QED
    BY <1>1 DEF Abstract!Return, Abstract!NoCall


\* The broker takes a message over that it has, or has not, taken over before.
LEMMA SessionArrives ==
    ASSUME IInv, MInv, Outside
    PROVE  (\E m \in Msgs : Abstract!Arrive(m)) \/ UNCHANGED Abstract!vars
  <1>0. /\ TypeOK /\ LinkTypeOK /\ UsedInv /\ bRecv \in [Msgs -> 0..RecvCap]
    BY DEF IInv, TypeOK, BrokerTypeOK, MInv
  <1>1. UNCHANGED <<mState, mSubscriptions, conf, used, done, pc, call>>
    BY DEF Outside, clientVars, sessVars, ctlVars, histVars
  <1>2. CASE bRecv' = bRecv
    BY <1>1, <1>2, SessionStutters DEF Busy
  <1>3. CASE bRecv' # bRecv
    <2>1. c2b # <<>> /\ Head(c2b).type = "PUBLISH" /\ Receive(Head(c2b).msg)
      BY <1>3, ReceivedStep
    <2>2. Head(c2b) \in ToBroker /\ Head(c2b) = c2b[1] /\ 1 \in 1..Len(c2b)
      BY <1>0, <2>1, HeadTail DEF LinkTypeOK
    <2>3. PICK m \in Msgs : m = Head(c2b).msg
      BY <2>1, <2>2, ToBrokerFields
    <2>4. m \in used
      BY <1>0, <2>1, <2>2, <2>3 DEF UsedInv, Untouched, Silent
    <2>5. {n \in Msgs : bRecv'[n] > 0} = {n \in Msgs : bRecv[n] > 0} \cup {m}
      BY <1>0, <2>1, <2>3 DEF Receive, RecvCap
    <2>6. CASE bRecv[m] > 0
      <3>1. {n \in Msgs : bRecv'[n] > 0} = {n \in Msgs : bRecv[n] > 0}
        BY <2>3, <2>5, <2>6
      <3> QED
        BY <1>1, <3>1 DEF Abstract!vars
    <2>7. CASE ~(bRecv[m] > 0)
      <3>1. Abstract!Arrive(m)
        BY <1>1, <2>3, <2>4, <2>5, <2>7 DEF Abstract!Arrive
      <3> QED
        BY <2>3, <3>1
    <2> QED
      BY <2>6, <2>7
  <1> QED
    BY <1>2, <1>3

LEMMA SessionStep == IInv /\ MInv /\ [Next]_vars => [Abstract!Next]_Abstract!vars
  <1> SUFFICES ASSUME IInv, MInv, [Next]_vars
               PROVE  Abstract!Next \/ UNCHANGED Abstract!vars
    OBVIOUS
  <1> USE DEF brokerVars, sessVars, ctlVars, histVars
  <1>0. /\ TypeOK /\ HalvesInv /\ StateInv /\ CallInv /\ LinkTypeOK
        /\ conf \in AllConfigs /\ conf.qos2 \in BOOLEAN
        /\ call \in Calls \cup {StartCall} /\ call # [op |-> "none"]
    BY DEF IInv, MInv, TypeOK, AllConfigs, Calls, StartCall
  <1>1. ASSUME NEW cf \in Configs, StartSession(cf)
        PROVE  Abstract!StartSession
    <2>1. conf'.qos2 \in BOOLEAN
      BY <1>1, ConfigsAssumption DEF StartSession, AllConfigs
    <2>2. call' = [op |-> "StartSession"] /\ pc = "idle" /\ pc' = "auth"
      BY <1>1 DEF StartSession, StartCall
    <2> QED
      BY <1>1, <2>1, <2>2 DEF StartSession, Abstract!StartSession, Abstract!NoCall, Abstract!Start
  <1>2. CASE EndSession
    <2>1. Abstract!EndSession
      BY <1>2 DEF EndSession, Abstract!EndSession, Abstract!NoCall
    <2> QED
      BY <2>1 DEF Abstract!Next
  <1>3. CASE IsConnected
    BY <1>3, SessionStutters DEF IsConnected, Busy
  <1>4. ASSUME NEW c \in Calls, AppCall(c)
        PROVE  c \in Abstract!Calls /\ Abstract!Call(c)
    <2>1. /\ pc = "idle" /\ pc' # "idle" /\ call' = c
          /\ used' = IF c.op = "Publish" THEN used \cup {c.msg} ELSE used
          /\ UNCHANGED <<mSubscriptions, conf, bRecv, done>>
      BY <1>0, <1>4 DEF AppCall, CallInitial, CallConnected, CallReconnect, MayCall, Noted,
         HalvesInv
    <2>2. /\ mState # "NO_SESSION"
          /\ mState' \in IF mState = "CONNECTED" THEN {"CONNECTED", "DISCONNECTED"} ELSE {mState}
      BY <1>4 DEF AppCall, CallInitial, CallConnected, CallReconnect
    <2>3. c \in Abstract!Calls
      BY DEF Calls, Abstract!Calls
    <2> QED
      BY <2>1, <2>2, <2>3 DEF Abstract!Call, Abstract!NoCall
  <1>5. CASE \/ AuthOk \/ ConnectTls \/ ConnectSent \/ ConnackOk \/ ConnectAgain
             \/ StartRestore \/ (\E t \in Topics : RestoreNext(t)) \/ RestoreAck
             \/ SubscribeSent \/ UnsubscribeSent \/ (PublishSent /\ ~conf.qos2)
             \/ WaitOther \/ WaitReadFails \/ LoopRead
    <2>1. /\ UNCHANGED <<mState, mSubscriptions, conf, used, done, bRecv, call>>
          /\ pc # "idle" /\ pc' # "idle"
      BY <1>5 DEF AuthOk, ConnectTls, ConnectSent, ConnackOk, ConnectAgain, StartRestore,
         RestoreNext, RestoreAck, SubscribeSent, UnsubscribeSent, PublishSent, WaitOther,
         WaitReadFails, LoopRead, Body, Waiting, Awaits
    <2> QED
      BY <2>1, SessionStutters DEF Busy
  <1>6. CASE \/ AuthFails \/ ConnectTlsFails \/ ConnectNotSent \/ ConnackRefused
             \/ ConnackTimeout \/ RestoreNotSent \/ RestoreRejected \/ RestoreTimeout
    <2>1. UNCHANGED <<mState, mSubscriptions, conf, used, done, bRecv>> /\ pc # "idle" /\ pc' = "idle"
      BY <1>6 DEF AuthFails, ConnectTlsFails, ConnectNotSent, ConnackRefused,
         ConnackTimeout, RestoreNotSent, RestoreRejected, RestoreTimeout, GiveUp
    <2> QED
      BY <1>0, <2>1, SessionReturns DEF Abstract!Next
  <1>7. CASE \/ SubscribeRejected \/ CommandNotSent \/ CommandTooLong \/ PublishTooLong
             \/ CommandTimeout \/ LoopReadTooLate \/ LoopEnd \/ LoopReadFails
    <2>1. UNCHANGED <<mState, mSubscriptions, conf, used, done, bRecv>> /\ pc # "idle" /\ pc' = "idle"
      BY <1>7 DEF SubscribeRejected, CommandNotSent, CommandTooLong, PublishTooLong,
         CommandTimeout, LoopReadTooLate, LoopEnd, LoopReadFails, Return, Body
    <2> QED
      BY <1>0, <2>1, SessionReturns DEF Abstract!Next
  <1>8. CASE Connected \/ Restored
    <2>1. /\ NowConnected /\ pc # "idle" /\ mState \in {"INITIAL", "DISCONNECTED"}
          /\ UNCHANGED <<call, mSubscriptions, conf, used, done, bRecv>>
      BY <1>0, <1>8 DEF Connected, Restored, NowConnected, StateInv
    <2>2. Abstract!Connect
      BY <1>0, <2>1 DEF NowConnected, StartCall, Abstract!Connect, Abstract!NoCall, Abstract!Start
    <2> QED
      BY <2>2 DEF Abstract!Next
  <1>9. CASE SubscribeAck
    <2>1. mState = "CONNECTED" /\ call.op = "Subscribe" /\ pc = "suback" /\ pc' = "idle"
      BY <1>0, <1>9 DEF SubscribeAck, StateInv, TypeOK, Return
    <2>2. Abstract!Subscribe
      BY <1>9, <2>1 DEF SubscribeAck, Abstract!Subscribe, Abstract!NoCall
    <2> QED
      BY <2>2 DEF Abstract!Next
  <1>10. CASE UnsubscribeAck
    <2>1. mState = "CONNECTED" /\ call.op = "Unsubscribe" /\ pc = "unsuback" /\ pc' = "idle"
      BY <1>0, <1>10 DEF UnsubscribeAck, StateInv, TypeOK, Return
    <2>2. Abstract!Unsubscribe
      BY <1>10, <2>1 DEF UnsubscribeAck, Abstract!Unsubscribe, Abstract!NoCall
    <2> QED
      BY <2>2 DEF Abstract!Next
  <1>11. CASE PublishSent /\ conf.qos2
    <2>1. /\ mState = "CONNECTED" /\ call.op = "Publish" /\ pc = "body" /\ pc' = "idle"
          /\ conf.qos2 = TRUE /\ done' = done \cup {[msg |-> call.msg, qos2 |-> TRUE]}
      BY <1>0, <1>11 DEF PublishSent, StateInv, Body
    <2>2. Abstract!Publish
      BY <1>11, <2>1 DEF PublishSent, Abstract!Publish, Abstract!NoCall
    <2> QED
      BY <2>2 DEF Abstract!Next
  <1>12. CASE PublishAck
    <2>1. /\ mState = "CONNECTED" /\ call.op = "Publish" /\ pc = "puback" /\ pc' = "idle"
          /\ AwaitedInv /\ Read /\ Head(b2c).type = "PUBACK"
      BY <1>0, <1>12 DEF PublishAck, pubackRead, ackRead, StateInv, TypeOK, Return, CallInv
    <2>2. bRecv[call.msg] > 0 /\ conf.qos2 = FALSE
      BY <1>0, <2>1, HeadTail DEF AwaitedInv, Read, LinkTypeOK
    <2>3. call.msg \in {m \in Msgs : bRecv[m] > 0}
      BY <1>0, <2>1, <2>2 DEF Calls, StartCall
    <2>4. Abstract!Publish
      BY <1>12, <2>1, <2>2, <2>3 DEF PublishAck, Abstract!Publish, Abstract!NoCall
    <2> QED
      BY <2>4 DEF Abstract!Next
  <1>13. CASE Outside
    BY <1>13, SessionArrives DEF Abstract!Next
  <1>14. CASE UNCHANGED vars
    BY <1>14, SessionStutters DEF vars, Busy
  <1> QED
    BY <1>1, <1>2, <1>3, <1>4, <1>5, <1>6, <1>7, <1>8, <1>9, <1>10, <1>11, <1>12, <1>13,
       <1>14
       DEF Next, Connecting, InBody, Abstract!Next

\* The client implements Session: whatever happens to packets and connections, the
\* application sees calls with their whole effect or none.
THEOREM SessionImplemented == Spec => ImplementsSession
  BY SessionInit, SessionStep, MessagesInv, PTL DEF Spec, ImplementsSession, Abstract!Spec
=============================================================================
