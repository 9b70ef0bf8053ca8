------------------------- MODULE SubscriptionProofs -------------------------
(***************************************************************************)
(* Client and broker agree on the subscriptions, for every set of topics   *)
(* and any number of faults: in sessions that are not persistent whatever  *)
(* fails, in persistent ones if the broker refuses no connection and keeps *)
(* the session it stores.                                                  *)
(***************************************************************************)
EXTENDS IotClientProofs

(***************************************************************************)
(* The packets under way                                                   *)
(***************************************************************************)
UnderWay(q) == {q[i] : i \in 1..Len(q)}

Sent == UnderWay(c2b)
Answered == UnderWay(b2c)

LEMMA UnderWayRead ==
    ASSUME NEW S, NEW q \in Seq(S), q # <<>>
    PROVE  Head(q) \in UnderWay(q) /\ UnderWay(Tail(q)) \subseteq UnderWay(q)
  BY HeadTail DEF UnderWay

LEMMA UnderWayWrite ==
    ASSUME NEW S, NEW q \in Seq(S), NEW e \in S
    PROVE  UnderWay(Append(q, e)) \subseteq UnderWay(q) \cup {e}
  BY AppendElement DEF UnderWay

LEMMA UnderWayNone ==
    UnderWay(<<>>) = {}
  BY DEF UnderWay

\* What the client's reading and writing do to the packets under way.
LEMMA SentByWrite ==
    ASSUME LinkTypeOK, NEW e \in ToBroker, WriteOk(e) \/ c2b' = Append(c2b, e)
    PROVE  Sent' \subseteq Sent \cup {e}
  BY UnderWayWrite DEF Sent, WriteOk, LinkTypeOK

LEMMA AnsweredByRead ==
    ASSUME LinkTypeOK, Read
    PROVE  Head(b2c) \in Answered /\ Answered' \subseteq Answered
  BY UnderWayRead DEF Answered, Read, LinkTypeOK

\* With nothing awaited, no command and no acknowledgement is under way.
LEMMA QuietSets ==
    ASSUME Quiet
    PROVE  /\ \A p \in Sent : p.type \notin {"SUBSCRIBE", "UNSUBSCRIBE"}
           /\ \A r \in Answered : r.type \notin Acks
  BY DEF Quiet, Sent, Answered, UnderWay, IsCommand

\* While something is awaited, only its own command is under way, or its
\* acknowledgement and no command.
LEMMA OneSets ==
    ASSUME NEW a, OnlyOne(a)
    PROVE  /\ \A p \in Sent : p.type = "SUBSCRIBE" => a = "SUBACK"
           /\ \A p \in Sent : p.type = "UNSUBSCRIBE" => a = "UNSUBACK"
           /\ \A p \in Sent, r \in Answered :
                 ~(p.type \in {"SUBSCRIBE", "UNSUBSCRIBE"} /\ r.type \in Acks)
  BY DEF OnlyOne, Sent, Answered, UnderWay, IsCommand, AckType

(***************************************************************************)
(* The inductive invariant                                                 *)
(***************************************************************************)

\* The stages of connecting and what the session knows in them.
PhaseInv ==
    /\ pc = "auth" => stage # "initPersist"
    /\ stage = "initPersist" /\ pc \in {"tls", "connect", "connack", "connected"} =>
          conf.persistent
    /\ mState \in {"NO_SESSION", "INITIAL"} => mSubscriptions = {}
    /\ toRestore \subseteq mSubscriptions
    /\ pc \notin {"restore", "restoreAck"} => toRestore = {}

\* While a CONNACK is awaited the CONNECT or its answer is all that is under way;
\* while connected neither a CONNECT nor a DISCONNECT is.
ConnectInv ==
    /\ pc = "connack" =>
          /\ Len(c2b) + Len(b2c) <= 1
          /\ \A p \in Sent : p.type = "CONNECT" /\ p.clean = CleanFlag
          /\ \A r \in Answered : r.type = "CONNACK"
    /\ isconnected => \A p \in Sent : p.type \notin {"CONNECT", "DISCONNECT"}

\* The command under way is for the topic of the call, and its acknowledgement
\* tells what the broker has.
AckInv ==
    /\ pc = "suback" =>
          /\ \A p \in Sent : p.type = "SUBSCRIBE" => p.topic = call.topic
          /\ link = "up" => \A r \in Answered : r.type = "SUBACK" /\ r.granted =>
                               call.topic \in bSubs
    /\ pc = "unsuback" =>
          /\ \A p \in Sent : p.type = "UNSUBSCRIBE" => p.topic = call.topic
          /\ link = "up" => \A r \in Answered : r.type = "UNSUBACK" =>
                               call.topic \notin bSubs

\* The client is connected, and so is the broker.
Live == isconnected /\ link = "up" /\ bConn = "accepted"

\* The topics RestoreSubscriptions has sent so far.
Restarted == mSubscriptions \ toRestore

\* A session that is not persistent begins with nothing on each connection, and is
\* restored topic by topic.
CleanInv ==
    ~conf.persistent =>
    /\ pc = "connack" => \A r \in Answered : ~r.sp /\ (bConn = "accepted" => bSubs = {})
    /\ pc = "connected" => ~sessionPresent
    /\ Live /\ pc = "connected" => bSubs = {}
    /\ Live /\ pc = "restore" => bSubs = Restarted
    /\ Live /\ pc = "restoreAck" =>
          /\ bSubs \subseteq Restarted
          /\ \A p \in Sent : p.type = "SUBSCRIBE" =>
                p.topic \in Restarted /\ Restarted \ bSubs \subseteq {p.topic}
          /\ \A r \in Answered : r.type = "SUBACK" /\ r.granted => Restarted \subseteq bSubs
    /\ Live /\ pc \in {"idle", "body", "puback"} => bSubs = mSubscriptions
    /\ Live /\ pc \in {"suback", "unsuback"} =>
          bSubs \ {call.topic} = mSubscriptions \ {call.topic}

InSession == mState \in {"CONNECTED", "DISCONNECTED"}

\* The session the broker stores differs from the client's only in topics whose
\* last command failed, or may still be under way.
StoredAgrees ==
    /\ bStored
    /\ \A t \in Topics : (t \in mSubscriptions) # (t \in bSubs) => t \in unsure
    /\ \A p \in Sent :
          /\ p.type \in {"SUBSCRIBE", "UNSUBSCRIBE"} => p.topic \in unsure
          /\ p.type = "CONNECT" => ~p.clean

\* A persistent session is made by two connections, the first of which makes the
\* broker forget what it stored; after that it is present on every connection.
StoredInv ==
    conf.persistent =>
    /\ InSession =>
          /\ StoredAgrees
          /\ pc = "connack" => \A r \in Answered : r.sp
          /\ pc = "connected" => sessionPresent
          /\ pc \notin {"restore", "restoreAck"}
    /\ stage = "initClean" /\ pc = "connack" => (b2c # <<>> => ~bStored)
    /\ stage = "initClean" /\ pc = "connected" => ~bStored
    /\ stage = "initPersist" /\ pc \in {"tls", "connect"} =>
          ~bStored /\ \A p \in Sent : p.type # "CONNECT"
    /\ stage = "initPersist" /\ pc = "connack" =>
          /\ c2b # <<>> => ~bStored
          /\ b2c # <<>> => bStored /\ bSubs = {}
    /\ stage = "initPersist" /\ pc = "connected" => bStored /\ bSubs = {}

AgreeInv == PhaseInv /\ ConnectInv /\ AckInv /\ CleanInv

\* The faults that a persistent session does not get over.
SessionSafe == "refuse" \notin FaultKinds /\ "sessionLoss" \notin FaultKinds

(***************************************************************************)
(* Steps that take the connection down, and steps that leave it alone      *)
(***************************************************************************)

LEMMA PhaseStep ==
    ASSUME IInv, PhaseInv, Next
    PROVE  PhaseInv'
  <1> USE DEF sessVars, ctlVars
  <1>1. CASE \/ \E cf \in Configs : StartSession(cf)
             \/ EndSession \/ IsConnected \/ \E c \in Calls : AppCall(c)
    <2>1. CASE \/ EndSession \/ IsConnected \/ \E cf \in Configs : StartSession(cf)
      BY <2>1 DEF EndSession, IsConnected, StartSession, PhaseInv
    <2>2. ASSUME NEW c \in Calls, AppCall(c)
          PROVE  PhaseInv'
      <3>1. CASE CallInitial(c)
        BY <3>1 DEF CallInitial, MayCall, PhaseInv
      <3>2. CASE CallConnected(c)
        BY <3>2 DEF CallConnected, MayCall, PhaseInv
      <3>3. CASE CallReconnect(c)
        BY <3>3 DEF CallReconnect, MayCall, PhaseInv
      <3> QED
        BY <2>2, <3>1, <3>2, <3>3 DEF AppCall
    <2> QED
      BY <1>1, <2>1, <2>2
  <1>2. CASE Connecting
    BY <1>2 DEF Connecting, PhaseInv, IInv, StateInv, AuthOk, AuthFails, ConnectTls,
       ConnectTlsFails, ConnectSent, ConnectNotSent, ConnackOk, ConnackRefused,
       ConnackTimeout, ConnectAgain, Connected, Restored, NowConnected, StartRestore,
       RestoreNext, RestoreNotSent, RestoreAck, RestoreRejected, RestoreTimeout, GiveUp
  <1>3. CASE InBody
    BY <1>3 DEF InBody, PhaseInv, IInv, StateInv, TypeOK, Body, Return, Waiting, Awaits,
       SubscribeSent, SubscribeAck, SubscribeRejected, UnsubscribeSent, UnsubscribeAck,
       PublishSent, PublishAck, CommandNotSent, CommandTooLong, PublishTooLong,
       CommandTimeout, WaitOther, WaitReadFails, LoopRead, LoopReadTooLate, LoopEnd,
       LoopReadFails
  <1>4. CASE Outside
    BY <1>4 DEF Outside, clientVars, PhaseInv
  <1> QED
    BY <1>1, <1>2, <1>3, <1>4 DEF Next

\* The invariants survive the end of a connection.
LEMMA DownStep ==
    ASSUME ConnectInv, AckInv, CleanInv,
           isconnected' = FALSE, pc' \in {"idle", "auth"},
           InSession' => /\ InSession
                         /\ UNCHANGED <<conf, bStored, bSubs, c2b, mSubscriptions, unsure>>
    PROVE  ConnectInv' /\ AckInv' /\ CleanInv' /\ (StoredInv => StoredInv')
  <1>1. ConnectInv'
    BY DEF ConnectInv
  <1>2. AckInv'
    BY DEF AckInv
  <1>3. CleanInv'
    BY DEF CleanInv, Live
  <1>4. ASSUME StoredInv
        PROVE  StoredInv'
    <2>1. ASSUME conf.persistent', InSession'
          PROVE  StoredAgrees'
      <3>1. StoredAgrees /\ Sent' = Sent
        BY <1>4, <2>1 DEF StoredInv, Sent
      <3> QED
        BY <2>1, <3>1 DEF StoredAgrees
    <2> QED
      BY <2>1 DEF StoredInv
  <1> QED
    BY <1>1, <1>2, <1>3, <1>4

\* They survive a step that only reads, or writes what the subscriptions do not
\* depend on.
LEMMA KeepStep ==
    ASSUME ConnectInv, AckInv, CleanInv,
           UNCHANGED <<bConn, bStored, bSubs, conf, mState, mSubscriptions, unsure,
                       isconnected, stage, toRestore>>,
           \/ pc' = pc /\ call' = call /\ pc # "connected"
           \/ pc \in {"idle", "body", "puback"} /\ pc' \in {"idle", "body", "puback"},
           link' \in {link, "closed"},
           Answered' \subseteq Answered,
           \A p \in Sent' : p \in Sent \/ p.type \in {"PUBLISH", "PUBREL"},
           pc = "connack" => c2b' = c2b /\ b2c' \in {b2c, <<>>}
    PROVE  ConnectInv' /\ AckInv' /\ CleanInv' /\ (StoredInv => StoredInv')
  <1>1. ConnectInv'
    <2>1. ASSUME pc' = "connack"
          PROVE  /\ Len(c2b') + Len(b2c') <= 1
                 /\ \A p \in Sent' : p.type = "CONNECT" /\ p.clean = CleanFlag'
                 /\ \A r \in Answered' : r.type = "CONNACK"
      <3>1. pc = "connack" /\ CleanFlag' = CleanFlag
        BY <2>1 DEF CleanFlag
      <3>2. Sent' = Sent
        BY <3>1 DEF Sent
      <3>3. Len(c2b) + Len(b2c) <= 1 /\ (b2c' = b2c \/ b2c' = <<>>) /\ c2b' = c2b
        BY <3>1 DEF ConnectInv
      <3>4. Len(c2b') + Len(b2c') <= 1
        BY <3>3
      <3> QED
        BY <3>1, <3>2, <3>4 DEF ConnectInv
    <2> QED
      BY <2>1 DEF ConnectInv
  <1>2. AckInv'
    BY DEF AckInv
  <1>3. Live' => Live
    BY DEF Live
  <1>4. Restarted' = Restarted
    BY DEF Restarted
  <1>5. CleanInv'
    BY <1>3, <1>4 DEF CleanInv
  <1>6. ASSUME StoredInv
        PROVE  StoredInv'
    <2>1. StoredAgrees => StoredAgrees'
      BY DEF StoredAgrees
    <2>2. InSession' = InSession
      BY DEF InSession
    <2> QED
      BY <1>6, <2>1, <2>2 DEF StoredInv
  <1> QED
    BY <1>1, <1>2, <1>5, <1>6

\* The steps after which nothing is connected any more.
Ends ==
    \/ \E cf \in Configs : StartSession(cf)
    \/ EndSession \/ IsConnected
    \/ \E c \in Calls : CallInitial(c) \/ CallReconnect(c)
    \/ AuthFails \/ ConnectTlsFails \/ ConnectNotSent \/ ConnackRefused \/ ConnackTimeout
    \/ RestoreNotSent \/ RestoreRejected \/ RestoreTimeout
    \/ SubscribeRejected \/ CommandNotSent \/ CommandTooLong \/ CommandTimeout

LEMMA EndsStep ==
    ASSUME IInv, AgreeInv, Ends
    PROVE  ConnectInv' /\ AckInv' /\ CleanInv' /\ (StoredInv => StoredInv')
  <1> USE DEF linkVars, brokerVars, mqttVars, sessVars, ctlVars, histVars
  <1>0. HalvesInv /\ isconnected \in BOOLEAN
    BY DEF IInv, TypeOK, PahoTypeOK
  <1> DEFINE Down ==
        /\ isconnected' = FALSE /\ pc' \in {"idle", "auth"}
        /\ InSession' => /\ InSession
                         /\ UNCHANGED <<conf, bStored, bSubs, c2b, mSubscriptions, unsure>>
  <1> SUFFICES Down
    BY DownStep DEF AgreeInv
  <1>1. CASE \E cf \in Configs : StartSession(cf)
    BY <1>0, <1>1 DEF StartSession, HalvesInv, InSession
  <1>2. CASE EndSession
    BY <1>0, <1>2 DEF EndSession, Disconnect, disconnect, cleanSession, InSession
  <1>3. ASSUME TakeDown, ~BothUp
        PROVE  isconnected' = FALSE /\ c2b' = c2b
    BY <1>0, <1>3 DEF TakeDown, BothUp, disconnect, cleanSession, Close
  <1>4. CASE IsConnected
    BY <1>3, <1>4 DEF IsConnected, Reconcile, InSession
  <1>5. CASE \E c \in Calls : CallInitial(c)
    BY <1>0, <1>5 DEF CallInitial, MayCall, Noted, HalvesInv, InSession
  <1>6. CASE \E c \in Calls : CallReconnect(c)
    BY <1>3, <1>6 DEF CallReconnect, Reconcile, Noted, InSession
  <1>7. CASE AuthFails \/ ConnectTlsFails
    BY <1>0, <1>3, <1>7 DEF AuthFails, ConnectTlsFails, GiveUp, HalvesInv, InSession
  <1>8. CASE ConnectNotSent \/ ConnackRefused \/ ConnackTimeout
    BY <1>0, <1>8 DEF ConnectNotSent, connectNotSent, WriteFails, Close, ConnackRefused,
       connackRefused, ConnackTimeout, connectTimeout, cleanSession, GiveUp, HalvesInv,
       InSession
  <1>9. CASE RestoreNotSent \/ RestoreRejected \/ RestoreTimeout
    BY <1>9 DEF RestoreNotSent, commandNotSent, WriteFails, Close, RestoreRejected,
       ackRead, RestoreTimeout, commandFailed, cleanSession, GiveUp, InSession
  <1>10. CASE SubscribeRejected \/ CommandNotSent \/ CommandTooLong \/ CommandTimeout
    BY <1>10 DEF SubscribeRejected, ackRead, CommandNotSent, commandNotSent, WriteFails,
       Close, CommandTooLong, commandTooLong, CommandTimeout, commandFailed, cleanSession,
       Return, InSession
  <1> QED
    BY <1>1, <1>2, <1>4, <1>5, <1>6, <1>7, <1>8, <1>9, <1>10 DEF Ends

\* The steps that the subscriptions do not depend on.
Passes ==
    \/ \E c \in Calls : CallConnected(c)
    \/ PublishSent \/ PublishAck \/ PublishTooLong \/ WaitOther \/ WaitReadFails
    \/ LoopRead \/ LoopReadTooLate \/ LoopEnd \/ LoopReadFails

LEMMA PassesStep ==
    ASSUME IInv, AgreeInv, Passes
    PROVE  ConnectInv' /\ AckInv' /\ CleanInv' /\ (StoredInv => StoredInv')
  <1> USE DEF linkVars, brokerVars, mqttVars, sessVars, ctlVars, histVars
  <1>0. TypeOK /\ LinkTypeOK /\ PahoTypeOK /\ HalvesInv /\ ConnectInv
    BY DEF IInv, TypeOK, AgreeInv
  <1> DEFINE Same == UNCHANGED <<bConn, bStored, bSubs, conf, mState, mSubscriptions,
                                 unsure, isconnected, stage, toRestore>>
             Goes == \/ pc' = pc /\ call' = call /\ pc # "connected"
                     \/ /\ pc \in {"idle", "body", "puback"}
                        /\ pc' \in {"idle", "body", "puback"}
             Reads == Answered' \subseteq Answered
             Writes == \A p \in Sent' : p \in Sent \/ p.type \in {"PUBLISH", "PUBREL"}
             Connack == pc = "connack" => c2b' = c2b /\ b2c' \in {b2c, <<>>}
  <1>1. b2c' = b2c \/ b2c' = <<>> \/ Read => Reads
    BY <1>0, AnsweredByRead, UnderWayNone DEF Answered
  <1>2. c2b' = c2b => Writes
    BY DEF Sent
  <1>3. ASSUME NEW e \in ToBroker, e.type \in {"PUBLISH", "PUBREL"}, WriteOk(e)
        PROVE  Writes
    BY <1>0, <1>3, SentByWrite
  <1>4. ASSUME (pc = "body" /\ cycleOther("none")) \/ (pc \in Waiting /\ cycleOther(Awaits[pc]))
        PROVE  Reads /\ Writes /\ Connack /\ link' = link
    <2> DEFINE e == [type |-> "PUBREL", id |-> Head(b2c).id]
    <2>1. PICK w : cycleOther(w) /\ (pc = "connack" => w = "CONNACK")
      BY <1>4 DEF Waiting, Awaits
    <2>2. /\ Read /\ Head(b2c).type # w
          /\ \/ Head(b2c).type = "PUBREC" /\ WriteOk(e)
             \/ link' = link /\ c2b' = c2b
      BY <2>1 DEF cycleOther
    <2>3. Head(b2c).type = "PUBREC" => e \in ToBroker
      BY <1>0, <2>2, ReadType, ToClientFields, PlainPackets
    <2>4. e.type \in {"PUBLISH", "PUBREL"}
      OBVIOUS
    <2> HIDE DEF e
    <2>5. Writes
      BY <1>2, <1>3, <2>2, <2>3, <2>4
    <2>6. Reads
      BY <1>1, <2>2
    <2>7. link' = link
      BY <2>2 DEF WriteOk
    <2>8. pc # "connack"
      <3>1. Head(b2c) \in Answered
        BY <1>0, <2>2, AnsweredByRead
      <3> QED
        BY <1>0, <2>1, <2>2, <3>1 DEF ConnectInv
    <2> QED
      BY <2>5, <2>6, <2>7, <2>8
  <1> SUFFICES Same /\ Goes /\ Reads /\ Writes /\ Connack /\ link' \in {link, "closed"}
    BY KeepStep DEF AgreeInv
  <1>5. CASE \E c \in Calls : CallConnected(c)
    <2>1. mState = "CONNECTED"
      BY <1>0, <1>5 DEF CallConnected, MayCall, HalvesInv
    <2> QED
      BY <1>1, <1>2, <1>5, <2>1 DEF CallConnected, MayCall, Noted
  <1>6. CASE PublishSent
    <2> DEFINE e == [type |-> "PUBLISH", id |-> getNext, msg |-> call.msg, qos2 |-> conf.qos2]
    <2>1. call.msg \in Msgs /\ conf.qos2 \in BOOLEAN /\ getNext \in PacketIds
      BY <1>0, <1>6, GetNextType
         DEF PublishSent, Body, TypeOK, Calls, StartCall, AllConfigs, PahoTypeOK
    <2>2. e \in ToBroker
      BY <2>1, PublishPackets
    <2>3. e.type \in {"PUBLISH", "PUBREL"}
      OBVIOUS
    <2>4. WriteOk(e)
      BY <1>6 DEF PublishSent, publishSent
    <2> HIDE DEF e
    <2>5. Writes
      BY <1>3, <2>2, <2>3, <2>4
    <2>6. Same /\ Goes /\ Connack /\ link' = link /\ b2c' = b2c
      BY <1>6 DEF PublishSent, publishSent, Body, WriteOk
    <2> QED
      BY <1>1, <2>5, <2>6
  <1>7. CASE PublishAck
    BY <1>1, <1>2, <1>7 DEF PublishAck, pubackRead, ackRead, Return
  <1>8. CASE PublishTooLong \/ LoopEnd \/ LoopReadTooLate
    BY <1>1, <1>2, <1>8 DEF PublishTooLong, publishTooLong, LoopEnd, LoopReadTooLate, Body,
       Return
  <1>9. CASE WaitOther \/ LoopRead
    <2>1. Reads /\ Writes /\ Connack /\ link' = link
      BY <1>4, <1>9 DEF WaitOther, LoopRead, Body
    <2> QED
      BY <1>9, <2>1 DEF WaitOther, LoopRead, Body, cycleOther, Waiting, Awaits
  <1>10. CASE WaitReadFails \/ LoopReadFails
    BY <1>1, <1>2, <1>10 DEF WaitReadFails, LoopReadFails, ReadFails, Close, Body, Return,
       Waiting, Awaits
  <1> QED
    BY <1>5, <1>6, <1>7, <1>8, <1>9, <1>10 DEF Passes

(***************************************************************************)
(* Connecting and restoring                                                *)
(***************************************************************************)

LEMMA OpenStep ==
    ASSUME IInv, AgreeInv, AuthOk \/ ConnectTls
    PROVE  ConnectInv' /\ AckInv' /\ CleanInv' /\ (StoredInv => StoredInv')
  <1> USE DEF linkVars, brokerVars, mqttVars, sessVars, ctlVars, histVars
  <1>0. HalvesInv /\ PhaseInv
    BY DEF IInv, AgreeInv
  <1>1. CASE AuthOk
    <2>1. isconnected' = FALSE /\ pc' = "tls" /\ Sent' = Sent /\ stage # "initPersist"
      BY <1>0, <1>1 DEF AuthOk, HalvesInv, PhaseInv, Sent
    <2>2. ConnectInv' /\ AckInv' /\ CleanInv'
      BY <2>1 DEF ConnectInv, AckInv, CleanInv, Live
    <2>3. StoredInv => StoredInv'
      BY <1>1, <2>1 DEF StoredInv, StoredAgrees, InSession, AuthOk
    <2> QED
      BY <2>2, <2>3
  <1>2. CASE ConnectTls
    <2>1. /\ ~BothUp /\ isconnected' = FALSE /\ pc' = "connect"
          /\ c2b' = <<>> /\ b2c' = <<>>
      BY <1>0, <1>2 DEF ConnectTls, HalvesInv, BothUp, TlsConnect
    <2>2. Sent' = {} /\ Answered' = {}
      BY <2>1, UnderWayNone DEF Sent, Answered
    <2>3. ConnectInv' /\ AckInv' /\ CleanInv'
      BY <2>1 DEF ConnectInv, AckInv, CleanInv, Live
    <2>4. StoredInv => StoredInv'
      BY <1>2, <2>1, <2>2 DEF StoredInv, StoredAgrees, InSession, ConnectTls
    <2> QED
      BY <2>3, <2>4
  <1> QED
    BY <1>1, <1>2

LEMMA ConnectSentStep ==
    ASSUME IInv, AgreeInv, ConnectSent
    PROVE  ConnectInv' /\ AckInv' /\ CleanInv' /\ (StoredInv => StoredInv')
  <1> USE DEF brokerVars, sessVars, ctlVars, histVars
  <1>0. LinkTypeOK /\ HalvesInv /\ PhaseInv /\ StateInv /\ CleanFlag \in BOOLEAN
    BY DEF IInv, AgreeInv, TypeOK, CleanFlag, AllConfigs
  <1> DEFINE e == [type |-> "CONNECT", clean |-> CleanFlag]
  <1>1. e \in ToBroker
    BY <1>0 DEF ToBroker
  <1>2. e.type = "CONNECT" /\ e.clean = CleanFlag
    OBVIOUS
  <1>3. /\ pc = "connect" /\ pc' = "connack" /\ isconnected' = FALSE
        /\ c2b = <<>> /\ b2c = <<>> /\ b2c' = <<>> /\ WriteOk(e)
    BY <1>0 DEF ConnectSent, connectSent, HalvesInv
  <1> HIDE DEF e
  <1>4. Sent' \subseteq {e} /\ Answered' = {}
    BY <1>0, <1>1, <1>3, SentByWrite, UnderWayNone DEF Sent, Answered
  <1>5. Len(c2b') <= 1 /\ Len(b2c') = 0 /\ Len(c2b') \in Nat
    <2>1. c2b' = c2b \/ c2b' = Append(c2b, e)
      BY <1>3 DEF WriteOk
    <2>2. Len(c2b) = 0 /\ c2b \in Seq(ToBroker)
      BY <1>0, <1>3 DEF LinkTypeOK
    <2>3. Len(Append(c2b, e)) = 1
      BY <1>1, <2>2
    <2>4. Len(b2c') = 0
      BY <1>3
    <2>5. CASE c2b' = c2b
      BY <2>2, <2>4, <2>5
    <2>6. CASE c2b' = Append(c2b, e)
      BY <2>3, <2>4, <2>6
    <2> QED
      BY <2>1, <2>5, <2>6
  <1>6. CleanFlag' = CleanFlag
    BY DEF ConnectSent, CleanFlag
  <1>7. ConnectInv' /\ AckInv' /\ CleanInv'
    BY <1>2, <1>3, <1>4, <1>5, <1>6 DEF ConnectInv, AckInv, CleanInv, Live
  <1>8. ASSUME StoredInv
        PROVE  StoredInv'
    <2>1. ASSUME conf.persistent, InSession
          PROVE  ~CleanFlag
      BY <1>0, <1>3, <2>1 DEF StateInv, CleanFlag, InSession
    <2>2. ASSUME conf.persistent, InSession
          PROVE  StoredAgrees'
      BY <1>2, <1>4, <1>8, <2>1, <2>2 DEF StoredInv, StoredAgrees, ConnectSent, InSession
    <2> QED
      BY <1>3, <1>4, <1>8, <2>2 DEF StoredInv, ConnectSent, InSession
  <1> QED
    BY <1>7, <1>8

LEMMA ConnackStep ==
    ASSUME IInv, AgreeInv, ConnackOk
    PROVE  ConnectInv' /\ AckInv' /\ CleanInv' /\ (StoredInv => StoredInv')
  <1> USE DEF brokerVars, sessVars, ctlVars, histVars
  <1>0. LinkTypeOK /\ PahoTypeOK /\ ConnectInv /\ CleanInv /\ StateInv
    BY DEF IInv, AgreeInv, TypeOK
  <1>1. pc = "connack" /\ pc' = "connected" /\ Read /\ sessionPresent' = Head(b2c).sp
    BY DEF ConnackOk, connackOk
  <1>2. Head(b2c) \in Answered /\ b2c # <<>> /\ link = "up"
    BY <1>0, <1>1, AnsweredByRead DEF Read
  <1>3. c2b = <<>>
    <2>1. Len(c2b) + Len(b2c) <= 1 /\ Len(b2c) >= 1 /\ Len(c2b) \in Nat /\ Len(b2c) \in Nat
      BY <1>0, <1>1, <1>2 DEF ConnectInv, LinkTypeOK
    <2> QED
      BY <1>0, <2>1 DEF LinkTypeOK
  <1>4. inflight # NoInflight => Resend \in ToBroker /\ Resend.type = "PUBLISH"
    BY <1>0, PublishPackets DEF Resend, PahoTypeOK, Inflights
  <1>5. \A p \in Sent' : p.type = "PUBLISH"
    <2>1. Sent = {}
      BY <1>3, UnderWayNone DEF Sent
    <2>2. CASE inflight = NoInflight
      <3>1. c2b' = c2b
        BY <2>2 DEF ConnackOk, connackOk
      <3> QED
        BY <2>1, <3>1 DEF Sent
    <2>3. CASE inflight # NoInflight
      <3>1. WriteOk(Resend)
        BY <2>3 DEF ConnackOk, connackOk
      <3> QED
        BY <1>0, <1>4, <2>1, <2>3, <3>1, SentByWrite
    <2> QED
      BY <2>2, <2>3
  <1>6. ConnectInv' /\ AckInv'
    BY <1>1, <1>5 DEF ConnectInv, AckInv
  <1>7. CleanInv'
    BY <1>0, <1>1, <1>2 DEF CleanInv, Live, ConnackOk
  <1>8. StoredInv => StoredInv'
    BY <1>0, <1>1, <1>2, <1>5 DEF StoredInv, StoredAgrees, InSession, ConnackOk
  <1> QED
    BY <1>6, <1>7, <1>8

LEMMA AgainStep ==
    ASSUME IInv, AgreeInv, ConnectAgain
    PROVE  ConnectInv' /\ AckInv' /\ CleanInv' /\ (StoredInv => StoredInv')
  <1> USE DEF brokerVars, mqttVars, sessVars, ctlVars, histVars
  <1>0. LinkTypeOK /\ ConnectInv /\ StateInv /\ HalvesInv
    BY DEF IInv, AgreeInv, TypeOK
  <1> DEFINE e == [type |-> "DISCONNECT"]
  <1>1. e \in ToBroker
    BY DEF ToBroker
  <1>2. e.type = "DISCONNECT"
    OBVIOUS
  <1>3. /\ pc = "connected" /\ pc' = "tls" /\ isconnected' = FALSE /\ isconnected
        /\ c2b' = c2b \/ c2b' = Append(c2b, e)
    BY <1>0 DEF ConnectAgain, Disconnect, disconnect, cleanSession, HalvesInv
  <1> HIDE DEF e
  <1>4. \A p \in Sent' : p.type # "CONNECT"
    BY <1>0, <1>1, <1>2, <1>3, SentByWrite DEF ConnectInv, Sent
  <1>5. ConnectInv' /\ AckInv' /\ CleanInv'
    BY <1>3 DEF ConnectInv, AckInv, CleanInv, Live
  <1>6. mState = "INITIAL" /\ mState' = mState /\ stage = "initClean" /\ stage' = "initPersist"
    BY <1>0, <1>3 DEF StateInv, ConnectAgain
  <1>7. StoredInv => StoredInv'
    BY <1>3, <1>4, <1>6 DEF StoredInv, InSession, ConnectAgain
  <1> QED
    BY <1>5, <1>7

LEMMA ConnectedStep ==
    ASSUME IInv, AgreeInv, Connected
    PROVE  ConnectInv' /\ AckInv' /\ CleanInv' /\ (StoredInv => StoredInv')
  <1> USE DEF linkVars, brokerVars, mqttVars, sessVars, ctlVars, histVars
  <1>0. PhaseInv /\ ConnectInv /\ CleanInv /\ StateInv /\ HalvesInv /\ Quiet
    BY DEF IInv, AgreeInv, WireInv, Connected
  <1>1. /\ pc = "connected" /\ pc' \in {"idle", "body"} /\ mState' = "CONNECTED"
        /\ Sent' = Sent /\ Live' = Live /\ isconnected /\ isconnected' = isconnected
    BY <1>0 DEF Connected, NowConnected, Sent, Live, HalvesInv
  <1>2. ConnectInv' /\ AckInv'
    BY <1>0, <1>1 DEF ConnectInv, AckInv
  <1>3. UNCHANGED <<conf, bSubs, bStored, mSubscriptions, unsure, stage>>
    BY DEF Connected, NowConnected
  <1>4. stage # "reconnect" => mSubscriptions = {}
    BY <1>0, <1>1 DEF StateInv, PhaseInv
  <1>5. CleanInv'
    <2>1. ~conf.persistent => stage # "reconnect"
      BY <1>0, <1>1 DEF CleanInv, PhaseInv, Connected
    <2> QED
      BY <1>0, <1>1, <1>3, <1>4, <2>1 DEF CleanInv
  <1>6. ASSUME StoredInv, conf.persistent
        PROVE  StoredAgrees
    <2>1. CASE stage = "reconnect"
      BY <1>0, <1>1, <1>6, <2>1 DEF StoredInv, StateInv, InSession
    <2>2. CASE stage # "reconnect"
      <3>1. bStored /\ bSubs = {} /\ mSubscriptions = {}
        BY <1>1, <1>4, <1>6, <2>2 DEF Connected, StoredInv
      <3>2. \A p \in Sent : p.type \notin {"SUBSCRIBE", "UNSUBSCRIBE", "CONNECT"}
        BY <1>0, <1>1, QuietSets DEF ConnectInv
      <3> QED
        BY <3>1, <3>2 DEF StoredAgrees
    <2> QED
      BY <2>1, <2>2
  <1>7. StoredInv => StoredInv'
    BY <1>1, <1>3, <1>6 DEF StoredInv, StoredAgrees
  <1> QED
    BY <1>2, <1>5, <1>7

LEMMA RestoreStartStep ==
    ASSUME IInv, AgreeInv, StartRestore \/ Restored
    PROVE  ConnectInv' /\ AckInv' /\ CleanInv' /\ (StoredInv => StoredInv')
  <1> USE DEF linkVars, brokerVars, mqttVars, sessVars, ctlVars, histVars
  <1>0. PhaseInv /\ ConnectInv /\ CleanInv /\ StateInv
    BY DEF IInv, AgreeInv
  <1>1. /\ pc' \in {"idle", "body", "restore"} /\ Sent' = Sent /\ Live' = Live
        /\ isconnected' = isconnected
    BY DEF StartRestore, Restored, NowConnected, Sent, Live
  <1>2. ConnectInv' /\ AckInv'
    BY <1>0, <1>1 DEF ConnectInv, AckInv
  <1>3. CASE StartRestore
    <2>1. Restarted' = {}
      BY <1>3 DEF StartRestore, Restarted
    <2>2. CleanInv'
      BY <1>0, <1>1, <1>3, <2>1 DEF CleanInv, StartRestore
    <2>3. StoredInv => ~conf.persistent
      BY <1>0, <1>3 DEF StoredInv, StartRestore, StateInv, InSession
    <2>4. StoredInv => StoredInv'
      BY <1>3, <2>3 DEF StoredInv, StartRestore
    <2> QED
      BY <1>2, <2>2, <2>4
  <1>4. CASE Restored
    <2>1. Restarted = mSubscriptions
      BY <1>4 DEF Restored, Restarted
    <2>2. CleanInv'
      BY <1>0, <1>1, <1>4, <2>1 DEF CleanInv, Restored, NowConnected
    <2>3. StoredInv => ~conf.persistent
      BY <1>0, <1>4 DEF StoredInv, Restored, StateInv, InSession
    <2>4. StoredInv => StoredInv'
      BY <1>4, <2>3 DEF StoredInv, Restored, NowConnected
    <2> QED
      BY <1>2, <2>2, <2>4
  <1> QED
    BY <1>3, <1>4

LEMMA RestoreNextStep ==
    ASSUME IInv, AgreeInv, NEW t \in Topics, RestoreNext(t)
    PROVE  ConnectInv' /\ AckInv' /\ CleanInv' /\ (StoredInv => StoredInv')
  <1> USE DEF brokerVars, sessVars, ctlVars, histVars
  <1>0. LinkTypeOK /\ PahoTypeOK /\ PhaseInv /\ ConnectInv /\ CleanInv /\ StateInv /\ Quiet
    BY DEF IInv, AgreeInv, TypeOK, WireInv, RestoreNext
  <1> DEFINE e == [type |-> "SUBSCRIBE", id |-> getNext, topic |-> t]
  <1>1. e \in ToBroker
    BY <1>0, GetNextType, TopicPackets DEF PahoTypeOK
  <1>2. e.type = "SUBSCRIBE" /\ e.topic = t
    OBVIOUS
  <1>3. /\ pc = "restore" /\ pc' = "restoreAck" /\ t \in toRestore /\ isconnected' = isconnected
        /\ WriteOk(e) /\ Answered' = Answered /\ isconnected
    BY DEF RestoreNext, subscribeSent, Answered
  <1> HIDE DEF e
  <1>4. Sent' \subseteq Sent \cup {e}
    BY <1>0, <1>1, <1>3, SentByWrite
  <1>5. ConnectInv' /\ AckInv'
    BY <1>0, <1>2, <1>3, <1>4 DEF ConnectInv, AckInv
  <1>6. Restarted' = Restarted \cup {t} /\ Live' = Live
    BY <1>0, <1>3 DEF RestoreNext, Restarted, PhaseInv, Live, WriteOk
  <1>7. CleanInv'
    <2>1. \A p \in Sent' : p.type = "SUBSCRIBE" => p.topic = t
      BY <1>0, <1>2, <1>4, QuietSets
    <2>2. \A r \in Answered' : r.type # "SUBACK"
      BY <1>0, <1>3, QuietSets DEF Acks
    <2>3. ~conf.persistent /\ Live => bSubs = Restarted
      BY <1>0, <1>3 DEF CleanInv
    <2> QED
      BY <1>3, <1>6, <2>1, <2>2, <2>3 DEF CleanInv, RestoreNext
  <1>8. StoredInv => ~conf.persistent
    BY <1>0, <1>3 DEF StoredInv, StateInv, InSession
  <1>9. StoredInv => StoredInv'
    BY <1>8 DEF StoredInv, RestoreNext
  <1> QED
    BY <1>5, <1>7, <1>9

LEMMA RestoreAckStep ==
    ASSUME IInv, AgreeInv, RestoreAck
    PROVE  ConnectInv' /\ AckInv' /\ CleanInv' /\ (StoredInv => StoredInv')
  <1> USE DEF brokerVars, mqttVars, sessVars, ctlVars, histVars
  <1>0. LinkTypeOK /\ ConnectInv /\ CleanInv /\ StateInv
    BY DEF IInv, AgreeInv, TypeOK
  <1>1. /\ pc = "restoreAck" /\ pc' = "restore" /\ Sent' = Sent /\ Live' = Live
        /\ isconnected' = isconnected /\ Restarted' = Restarted
        /\ Read /\ Head(b2c).type = "SUBACK" /\ Head(b2c).granted
    BY DEF RestoreAck, ackRead, Sent, Live, Restarted
  <1>2. Head(b2c) \in Answered
    BY <1>0, <1>1, AnsweredByRead
  <1>3. ConnectInv' /\ AckInv'
    BY <1>0, <1>1 DEF ConnectInv, AckInv
  <1>4. ~conf.persistent /\ Live => bSubs = Restarted
    BY <1>0, <1>1, <1>2 DEF CleanInv
  <1>5. CleanInv'
    BY <1>1, <1>4 DEF CleanInv, RestoreAck
  <1>6. StoredInv => ~conf.persistent
    BY <1>0, <1>1 DEF StoredInv, StateInv, InSession
  <1>7. StoredInv => StoredInv'
    BY <1>6 DEF StoredInv, RestoreAck
  <1> QED
    BY <1>3, <1>5, <1>7

(***************************************************************************)
(* Subscribe and Unsubscribe                                               *)
(***************************************************************************)

LEMMA CommandStep ==
    ASSUME IInv, AgreeInv, SubscribeSent \/ UnsubscribeSent
    PROVE  ConnectInv' /\ AckInv' /\ CleanInv' /\ (StoredInv => StoredInv')
  <1> USE DEF brokerVars, sessVars, ctlVars, histVars
  <1>0. LinkTypeOK /\ PahoTypeOK /\ ConnectInv /\ CleanInv /\ StateInv /\ Quiet
    BY DEF IInv, AgreeInv, TypeOK, WireInv, SubscribeSent, UnsubscribeSent, Body
  <1>1. call.topic \in Topics
    BY DEF IInv, TypeOK, Calls, StartCall, SubscribeSent, UnsubscribeSent, Body
  <1>2. PICK e \in ToBroker :
           /\ e.type \in {"SUBSCRIBE", "UNSUBSCRIBE"} /\ e.topic = call.topic /\ WriteOk(e)
    <2>1. getNext \in PacketIds
      BY <1>0, GetNextType DEF PahoTypeOK
    <2>2. CASE SubscribeSent
      <3>1. WriteOk([type |-> "SUBSCRIBE", id |-> getNext, topic |-> call.topic])
        BY <2>2 DEF SubscribeSent, subscribeSent
      <3> QED
        BY <1>1, <2>1, <3>1, TopicPackets
    <2>3. CASE UnsubscribeSent
      <3>1. WriteOk([type |-> "UNSUBSCRIBE", id |-> getNext, topic |-> call.topic])
        BY <2>3 DEF UnsubscribeSent, unsubscribeSent
      <3> QED
        BY <1>1, <2>1, <3>1, TopicPackets
    <2> QED
      BY <2>2, <2>3
  <1>3. /\ pc = "body" /\ pc' \in {"suback", "unsuback"} /\ call' = call
        /\ isconnected /\ isconnected' = isconnected /\ Answered' = Answered /\ Live' = Live
        /\ UNCHANGED <<conf, mState, mSubscriptions, bSubs, bStored>>
        /\ unsure' = unsure \cup {call.topic}
    BY <1>2 DEF SubscribeSent, UnsubscribeSent, Body, subscribeSent, unsubscribeSent,
       WriteOk, Live, Answered
  <1>4. Sent' \subseteq Sent \cup {e}
    BY <1>0, <1>2, SentByWrite
  <1>5. ConnectInv'
    BY <1>0, <1>2, <1>3, <1>4 DEF ConnectInv
  <1>6. AckInv'
    <2>1. \A p \in Sent' : p.type \in {"SUBSCRIBE", "UNSUBSCRIBE"} => p.topic = call.topic
      BY <1>0, <1>2, <1>4, QuietSets
    <2>2. \A r \in Answered' : r.type \notin {"SUBACK", "UNSUBACK"}
      BY <1>0, <1>3, QuietSets DEF Acks
    <2> QED
      BY <1>3, <2>1, <2>2 DEF AckInv
  <1>7. CleanInv'
    BY <1>0, <1>3 DEF CleanInv
  <1>8. ASSUME StoredInv, conf.persistent
        PROVE  StoredAgrees'
    <2>1. StoredAgrees
      BY <1>0, <1>3, <1>8 DEF StoredInv, StateInv, InSession
    <2> QED
      BY <1>2, <1>3, <1>4, <2>1 DEF StoredAgrees
  <1>9. StoredInv => StoredInv'
    BY <1>3, <1>8 DEF StoredInv
  <1> QED
    BY <1>5, <1>6, <1>7, <1>9

LEMMA AcknowledgedStep ==
    ASSUME IInv, AgreeInv, SubscribeAck \/ UnsubscribeAck
    PROVE  ConnectInv' /\ AckInv' /\ CleanInv' /\ (StoredInv => StoredInv')
  <1> USE DEF brokerVars, mqttVars, sessVars, ctlVars, histVars
  <1>0. LinkTypeOK /\ ConnectInv /\ AckInv /\ CleanInv /\ StateInv /\ WireInv
    BY DEF IInv, AgreeInv, TypeOK
  <1>1. /\ pc \in {"suback", "unsuback"} /\ pc' = "idle" /\ Sent' = Sent /\ Live' = Live
        /\ isconnected' = isconnected /\ Read /\ link = "up" /\ c2b' = c2b
        /\ UNCHANGED <<conf, bSubs, bStored, mState>>
        /\ unsure' = unsure \ {call.topic}
    BY DEF SubscribeAck, UnsubscribeAck, ackRead, Read, Return, Sent, Live
  <1>2. Head(b2c) \in Answered
    BY <1>0, <1>1, AnsweredByRead
  <1>3. \/ mSubscriptions' = mSubscriptions \cup {call.topic} /\ call.topic \in bSubs
        \/ mSubscriptions' = mSubscriptions \ {call.topic} /\ call.topic \notin bSubs
    <2>1. CASE SubscribeAck
      BY <1>0, <1>1, <1>2, <2>1 DEF SubscribeAck, ackRead, AckInv
    <2>2. CASE UnsubscribeAck
      BY <1>0, <1>1, <1>2, <2>2 DEF UnsubscribeAck, ackRead, AckInv
    <2> QED
      BY <2>1, <2>2
  <1>4. ConnectInv' /\ AckInv'
    BY <1>0, <1>1 DEF ConnectInv, AckInv
  <1>5. CleanInv'
    <2>1. ~conf.persistent /\ Live => bSubs \ {call.topic} = mSubscriptions \ {call.topic}
      BY <1>0, <1>1 DEF CleanInv
    <2>2. ~conf.persistent /\ Live => bSubs = mSubscriptions'
      BY <1>3, <2>1
    <2> QED
      BY <1>1, <2>2 DEF CleanInv
  <1>6. ASSUME StoredInv, conf.persistent
        PROVE  StoredAgrees'
    <2>1. StoredAgrees
      BY <1>0, <1>1, <1>6 DEF StoredInv, StateInv, InSession
    <2>2. \A p \in Sent' : p.type \notin {"SUBSCRIBE", "UNSUBSCRIBE"}
      <3>1. PICK a \in {"SUBACK", "UNSUBACK"} : OnlyOne(a) /\ Head(b2c).type \in Acks
        BY <1>0, <1>1 DEF WireInv, Waiting, Awaits, SubscribeAck, UnsubscribeAck, ackRead,
           Acks
      <3> QED
        BY <1>1, <1>2, <3>1, OneSets
    <2>3. \A t \in Topics : (t \in mSubscriptions') # (t \in bSubs) => t \in unsure'
      BY <1>1, <1>3, <2>1 DEF StoredAgrees
    <2> QED
      BY <1>1, <2>1, <2>2, <2>3 DEF StoredAgrees
  <1>7. StoredInv => StoredInv'
    BY <1>1, <1>6 DEF StoredInv
  <1> QED
    BY <1>4, <1>5, <1>7

(***************************************************************************)
(* What the broker does                                                    *)
(***************************************************************************)

\* The connection is lost, and with it, if the broker restarts, the session.
Lost ==
    /\ c2b' = <<>> /\ b2c' = <<>> /\ link' # "up" /\ UNCHANGED bConn
    /\ UNCHANGED <<bStored, bSubs>> \/ "sessionLoss" \in FaultKinds

\* The broker takes packet p and answers it with r, or not at all.
Takes(p, r) ==
    /\ c2b # <<>> /\ p = Head(c2b) /\ c2b' = Tail(c2b) /\ link' = link
    /\ b2c' = b2c \/ b2c' = Append(b2c, r)

Accepts(p, r) ==
    /\ p.type = "CONNECT" /\ r.type = "CONNACK" /\ r.sp = (~p.clean /\ bStored)
    /\ bConn' = "accepted" /\ bStored' = ~p.clean
    /\ bSubs' = IF ~p.clean /\ bStored THEN bSubs ELSE {}

Refuses(p, r) ==
    /\ "refuse" \in FaultKinds
    /\ p.type = "CONNECT" /\ r.type = "CONNACK" /\ ~r.sp
    /\ bConn' = "refused" /\ UNCHANGED <<bStored, bSubs>>

Subscribes(p, r) ==
    /\ p.type = "SUBSCRIBE" /\ r.type = "SUBACK" /\ bConn = "accepted"
    /\ bSubs' = bSubs \cup {p.topic} /\ UNCHANGED <<bConn, bStored>>

Unsubscribes(p, r) ==
    /\ p.type = "UNSUBSCRIBE" /\ r.type = "UNSUBACK" /\ bConn = "accepted"
    /\ bSubs' = bSubs \ {p.topic} /\ UNCHANGED <<bConn, bStored>>

Leaves(p) ==
    /\ p.type = "DISCONNECT" /\ b2c' = b2c /\ UNCHANGED bStored
    /\ bConn' = "none" /\ bSubs' = IF bStored THEN bSubs ELSE {}

OtherTaken(p, r) ==
    /\ p.type # "CONNECT"
    /\ r.type \notin {"CONNACK", "UNSUBACK"} /\ (r.type = "SUBACK" => ~r.granted)
    /\ UNCHANGED <<bConn, bStored, bSubs>>

LEMMA OutsideEffect ==
    ASSUME IInv, Outside
    PROVE  \/ Lost
           \/ \E p \in Sent, r \in ToClient :
                 /\ Takes(p, r)
                 /\ \/ Accepts(p, r) \/ Refuses(p, r) \/ Subscribes(p, r)
                    \/ Unsubscribes(p, r) \/ Leaves(p) \/ OtherTaken(p, r)
  <1> USE DEF linkVars, brokerVars
  <1>0. LinkTypeOK /\ BrokerTypeOK
    BY DEF IInv, TypeOK
  <1>1. CASE BrokerHangUp \/ BrokerLosesSession \/ (Drop /\ UNCHANGED brokerVars)
    BY <1>1 DEF BrokerHangUp, BrokerLosesSession, Drop, Fault, LinkLost, Lost
  <1>2. CASE BrokerStep /\ ~BrokerHangUp
    <2> DEFINE p == Head(c2b)
    <2>1. c2b # <<>> /\ c2b' = Tail(c2b) /\ link' = link
      BY <1>2 DEF BrokerStep, BrokerAccept, BrokerRefuse, BrokerIgnore, BrokerSubscribe,
         BrokerReject, BrokerUnsubscribe, BrokerPublish1, BrokerPublish2, BrokerPubrel,
         BrokerDisconnect, Take
    <2>2. p \in Sent /\ p \in ToBroker
      BY <1>0, <2>1, UnderWayRead, HeadTail DEF LinkTypeOK, Sent
    <2> HIDE DEF p
    <2>3. ASSUME NEW r \in ToClient, Reply(r) \/ b2c' = b2c
          PROVE  Takes(p, r)
      BY <2>1, <2>3 DEF Takes, Reply, p
    <2>4. PICK i \in PacketIds : p.type \notin {"CONNECT", "DISCONNECT"} => p.id = i
      <3>1. 1 \in PacketIds
        BY MaxPacketIdAssumption DEF PacketIds
      <3>2. p.type \notin {"CONNECT", "DISCONNECT"} => p.id \in PacketIds
        BY <2>2 DEF ToBroker
      <3> QED
        BY <3>1, <3>2
    <2>5. CASE BrokerAccept
      <3>1. p.type = "CONNECT" /\ p.clean \in BOOLEAN
        BY <2>2, <2>5, ToBrokerFields DEF BrokerAccept, Take, Pkt, p
      <3> DEFINE r == [type |-> "CONNACK", accepted |-> TRUE, sp |-> ~p.clean /\ bStored]
      <3>2. r \in ToClient /\ r.type = "CONNACK" /\ r.sp = (~p.clean /\ bStored)
        BY <1>0, <3>1 DEF ToClient, BrokerTypeOK
      <3>3. Reply(r)
        BY <2>5 DEF BrokerAccept, Pkt, p
      <3> HIDE DEF r
      <3>4. Accepts(p, r)
        BY <2>5, <3>1, <3>2 DEF BrokerAccept, Accepts, Pkt, p
      <3> QED
        BY <2>2, <2>3, <3>2, <3>3, <3>4
    <2>6. CASE BrokerRefuse
      <3> DEFINE r == [type |-> "CONNACK", accepted |-> FALSE, sp |-> FALSE]
      <3>1. r \in ToClient /\ r.type = "CONNACK" /\ ~r.sp
        BY DEF ToClient
      <3>2. Reply(r)
        BY <2>6 DEF BrokerRefuse
      <3> HIDE DEF r
      <3>3. Refuses(p, r)
        BY <2>6, <3>1 DEF BrokerRefuse, Refuses, Take, Fault, Pkt, p
      <3> QED
        BY <2>2, <2>3, <3>1, <3>2, <3>3
    <2>7. CASE BrokerSubscribe
      <3> DEFINE r == [type |-> "SUBACK", id |-> i, granted |-> TRUE]
      <3>1. r \in ToClient /\ r.type = "SUBACK"
        BY DEF ToClient
      <3>2. Reply(r)
        BY <2>4, <2>7 DEF BrokerSubscribe, Take, Pkt, p
      <3> HIDE DEF r
      <3>3. Subscribes(p, r)
        BY <2>7, <3>1 DEF BrokerSubscribe, Subscribes, Take, Pkt, p
      <3> QED
        BY <2>2, <2>3, <3>1, <3>2, <3>3
    <2>8. CASE BrokerReject
      <3> DEFINE r == [type |-> "SUBACK", id |-> i, granted |-> FALSE]
      <3>1. r \in ToClient /\ r.type = "SUBACK" /\ ~r.granted
        BY DEF ToClient
      <3>2. Reply(r)
        BY <2>4, <2>8 DEF BrokerReject, Take, Pkt, p
      <3> HIDE DEF r
      <3>3. OtherTaken(p, r)
        BY <2>8, <3>1 DEF BrokerReject, OtherTaken, Take, Pkt, p
      <3> QED
        BY <2>2, <2>3, <3>1, <3>2, <3>3
    <2>9. CASE BrokerUnsubscribe
      <3> DEFINE r == [type |-> "UNSUBACK", id |-> i]
      <3>1. r \in ToClient /\ r.type = "UNSUBACK"
        BY DEF ToClient
      <3>2. Reply(r)
        BY <2>4, <2>9 DEF BrokerUnsubscribe, Take, Pkt, p
      <3> HIDE DEF r
      <3>3. Unsubscribes(p, r)
        BY <2>9, <3>1 DEF BrokerUnsubscribe, Unsubscribes, Take, Pkt, p
      <3> QED
        BY <2>2, <2>3, <3>1, <3>2, <3>3
    <2>10. CASE BrokerPublish1 \/ BrokerPublish2 \/ BrokerPubrel \/ BrokerIgnore
      <3>1. PICK r \in ToClient : /\ r.type \in {"PUBACK", "PUBREC", "PUBCOMP"}
                                  /\ Reply(r) \/ b2c' = b2c
        <4>1. CASE BrokerPublish1
          BY <2>4, <4>1, BrokerPackets DEF BrokerPublish1, Take, Pkt, p
        <4>2. CASE BrokerPublish2
          BY <2>4, <4>2, BrokerPackets DEF BrokerPublish2, Take, Pkt, p
        <4>3. CASE BrokerPubrel
          BY <2>4, <4>3, BrokerPackets DEF BrokerPubrel, Take, Pkt, p
        <4>4. CASE BrokerIgnore
          BY <4>4, BrokerPackets DEF BrokerIgnore
        <4> QED
          BY <2>10, <4>1, <4>2, <4>3, <4>4
      <3>2. OtherTaken(p, r)
        BY <2>10, <3>1 DEF BrokerPublish1, BrokerPublish2, BrokerPubrel, BrokerIgnore,
           OtherTaken, Take, Pkt, p
      <3> QED
        BY <2>2, <2>3, <3>1, <3>2
    <2>11. CASE BrokerDisconnect
      <3>1. PICK r \in ToClient : r.type = "PUBACK"
        BY BrokerPackets
      <3>2. Leaves(p)
        BY <2>11 DEF BrokerDisconnect, Leaves, Take, Pkt, p
      <3> QED
        BY <2>2, <2>3, <3>1, <3>2 DEF Leaves
    <2> QED
      BY <1>2, <2>5, <2>6, <2>7, <2>8, <2>9, <2>10, <2>11 DEF BrokerStep
  <1> QED
    BY <1>1, <1>2 DEF Outside

\* What taking a packet does to the packets under way; while the CONNACK is awaited
\* the packet is the CONNECT, and while connected it is neither CONNECT nor DISCONNECT.
LEMMA TakesEffect ==
    ASSUME IInv, ConnectInv, Outside, NEW p \in Sent, NEW r \in ToClient, Takes(p, r)
    PROVE  /\ Sent' \subseteq Sent /\ Answered' \subseteq Answered \cup {r}
           /\ b2c' = b2c => Answered' = Answered
           /\ link' = link /\ c2b # <<>>
           /\ pc = "connack" => /\ c2b' = <<>> /\ b2c = <<>> /\ Answered = {}
                                /\ Len(b2c') <= 1
                                /\ p.type = "CONNECT" /\ p.clean = CleanFlag
           /\ isconnected => p.type \notin {"CONNECT", "DISCONNECT"}
  <1>0. LinkTypeOK
    BY DEF IInv, TypeOK
  <1>1. Sent' \subseteq Sent
    BY <1>0, UnderWayRead DEF Takes, LinkTypeOK, Sent
  <1>2. Answered' \subseteq Answered \cup {r}
    BY <1>0, UnderWayWrite DEF Takes, LinkTypeOK, Answered
  <1>3. b2c' = b2c => Answered' = Answered
    BY DEF Answered
  <1>4. ASSUME pc = "connack"
        PROVE  c2b' = <<>> /\ b2c = <<>> /\ Answered = {} /\ Len(b2c') <= 1
    <2>1. /\ Len(c2b) + Len(b2c) <= 1 /\ Len(c2b) >= 1 /\ Len(c2b) \in Nat
          /\ Len(b2c) \in Nat
      BY <1>0, <1>4 DEF ConnectInv, LinkTypeOK, Takes
    <2>2. Len(c2b) = 1 /\ Len(b2c) = 0
      <3>1. PICK m \in Nat, n \in Nat : m = Len(c2b) /\ n = Len(b2c)
        BY <2>1
      <3>2. m + n <= 1 /\ m >= 1
        BY <2>1, <3>1
      <3>3. m = 1 /\ n = 0
        BY <3>2
      <3> QED
        BY <3>1, <3>3
    <2>3. c2b' = <<>> /\ b2c = <<>>
      BY <1>0, <2>2 DEF Takes, LinkTypeOK
    <2>4. Len(Append(b2c, r)) = 1
      BY <1>0, <2>2 DEF LinkTypeOK
    <2>5. Len(b2c') <= 1
      <3>1. CASE b2c' = b2c
        BY <2>2, <3>1
      <3>2. CASE b2c' = Append(b2c, r)
        BY <2>4, <3>2
      <3> QED
        BY <3>1, <3>2 DEF Takes
    <2> QED
      BY <2>3, <2>5, UnderWayNone DEF Answered
  <1> QED
    BY <1>1, <1>2, <1>3, <1>4 DEF ConnectInv, Takes

LEMMA OutsideConnect ==
    ASSUME IInv, AgreeInv, Outside
    PROVE  ConnectInv'
  <1>0. ConnectInv
    BY DEF AgreeInv
  <1>1. /\ pc' = pc /\ isconnected' = isconnected /\ CleanFlag' = CleanFlag
    BY DEF Outside, clientVars, mqttVars, sessVars, ctlVars, CleanFlag
  <1>2. CASE Lost
    <2>1. Sent' = {} /\ Answered' = {}
      BY <1>2, UnderWayNone DEF Lost, Sent, Answered
    <2>2. Len(c2b') + Len(b2c') <= 1
      BY <1>2 DEF Lost
    <2> QED
      BY <2>1, <2>2 DEF ConnectInv
  <1>3. ASSUME NEW p \in Sent, NEW r \in ToClient, Takes(p, r),
               \/ Accepts(p, r) \/ Refuses(p, r) \/ Subscribes(p, r)
               \/ Unsubscribes(p, r) \/ Leaves(p) \/ OtherTaken(p, r)
        PROVE  ConnectInv'
    <2>1. /\ Sent' \subseteq Sent /\ Answered' \subseteq Answered \cup {r}
          /\ pc = "connack" => /\ c2b' = <<>> /\ Answered = {} /\ Len(b2c') <= 1
                               /\ p.type = "CONNECT"
      BY <1>0, <1>3, TakesEffect
    <2>2. pc = "connack" => r.type = "CONNACK"
      BY <1>3, <2>1 DEF Accepts, Refuses, Subscribes, Unsubscribes, Leaves, OtherTaken
    <2>3. pc = "connack" => Len(c2b') + Len(b2c') <= 1
      <3>1. TypeOK'
        BY TypeOutside DEF IInv
      <3>2. Len(b2c') \in Nat
        BY <3>1 DEF TypeOK, LinkTypeOK
      <3> QED
        BY <2>1, <3>2
    <2> QED
      BY <1>0, <1>1, <2>1, <2>2, <2>3 DEF ConnectInv
  <1> QED
    BY <1>2, <1>3, OutsideEffect

LEMMA OutsideAck ==
    ASSUME IInv, AgreeInv, Outside
    PROVE  AckInv'
  <1>0. ConnectInv /\ AckInv /\ HalvesInv /\ WireInv
    BY DEF AgreeInv, IInv
  <1>1. pc' = pc /\ call' = call /\ isconnected' = isconnected
    BY DEF Outside, clientVars, mqttVars, ctlVars
  <1>2. CASE Lost
    <2>1. Sent' = {} /\ Answered' = {}
      BY <1>2, UnderWayNone DEF Lost, Sent, Answered
    <2> QED
      BY <2>1 DEF AckInv
  <1>3. ASSUME NEW p \in Sent, NEW r \in ToClient, Takes(p, r),
               \/ Accepts(p, r) \/ Refuses(p, r) \/ Subscribes(p, r)
               \/ Unsubscribes(p, r) \/ Leaves(p) \/ OtherTaken(p, r),
               pc \in {"suback", "unsuback"}
        PROVE  AckInv'
    <2>1. /\ Sent' \subseteq Sent /\ Answered' \subseteq Answered \cup {r} /\ link' = link
          /\ isconnected => p.type \notin {"CONNECT", "DISCONNECT"}
      BY <1>0, <1>3, TakesEffect
    <2>2. Subscribes(p, r) \/ Unsubscribes(p, r) \/ OtherTaken(p, r)
      <3>1. isconnected
        BY <1>0, <1>3 DEF HalvesInv, Waiting, Awaits
      <3> QED
        BY <1>3, <2>1, <3>1 DEF Accepts, Refuses, Leaves
    <2>3. PICK a : a = Awaits[pc] /\ OnlyOne(a)
      BY <1>0, <1>3 DEF WireInv, Waiting, Awaits
    <2>5. CASE pc = "suback"
      <3>1. p.type # "UNSUBSCRIBE" /\ (p.type = "SUBSCRIBE" => p.topic = call.topic)
        BY <1>0, <2>3, <2>5, OneSets DEF AckInv, Awaits
      <3>2. ASSUME link = "up", NEW x \in Answered', x.type = "SUBACK", x.granted
            PROVE  call.topic \in bSubs'
        <4>1. CASE Subscribes(p, r)
          BY <3>1, <4>1 DEF Subscribes
        <4>2. CASE OtherTaken(p, r)
          BY <1>0, <2>1, <2>5, <3>2, <4>2 DEF OtherTaken, AckInv
        <4> QED
          BY <2>2, <3>1, <4>1, <4>2 DEF Unsubscribes
      <3> QED
        BY <1>0, <1>1, <2>1, <2>5, <3>2 DEF AckInv
    <2>6. CASE pc = "unsuback"
      <3>1. p.type # "SUBSCRIBE" /\ (p.type = "UNSUBSCRIBE" => p.topic = call.topic)
        BY <1>0, <2>3, <2>6, OneSets DEF AckInv, Awaits
      <3>2. ASSUME link = "up", NEW x \in Answered', x.type = "UNSUBACK"
            PROVE  call.topic \notin bSubs'
        <4>1. CASE Unsubscribes(p, r)
          BY <3>1, <4>1 DEF Unsubscribes
        <4>2. CASE OtherTaken(p, r)
          BY <1>0, <2>1, <2>6, <3>2, <4>2 DEF OtherTaken, AckInv
        <4> QED
          BY <2>2, <3>1, <4>1, <4>2 DEF Subscribes
      <3> QED
        BY <1>0, <1>1, <2>1, <2>6, <3>2 DEF AckInv
    <2> QED
      BY <1>3, <2>5, <2>6
  <1>4. CASE pc \notin {"suback", "unsuback"}
    BY <1>1, <1>4 DEF AckInv
  <1> QED
    BY <1>2, <1>3, <1>4, OutsideEffect

LEMMA OutsideClean ==
    ASSUME IInv, AgreeInv, Outside
    PROVE  CleanInv'
  <1>0. /\ ConnectInv /\ AckInv /\ CleanInv /\ HalvesInv /\ WireInv /\ TypeOK
    BY DEF AgreeInv, IInv
  <1>1. /\ pc' = pc /\ call' = call /\ isconnected' = isconnected /\ conf' = conf
        /\ sessionPresent' = sessionPresent /\ mSubscriptions' = mSubscriptions
        /\ Restarted' = Restarted
    BY DEF Outside, clientVars, mqttVars, sessVars, ctlVars, Restarted
  <1>2. CASE Lost
    <2>1. Answered' = {} /\ ~Live'
      BY <1>2, UnderWayNone DEF Lost, Answered, Live
    <2> QED
      BY <1>0, <1>1, <2>1 DEF CleanInv
  <1>3. ASSUME NEW p \in Sent, NEW r \in ToClient, Takes(p, r),
               \/ Accepts(p, r) \/ Refuses(p, r) \/ Subscribes(p, r)
               \/ Unsubscribes(p, r) \/ Leaves(p) \/ OtherTaken(p, r),
               ~conf.persistent
        PROVE  CleanInv'
    <2>1. /\ Sent' \subseteq Sent /\ Answered' \subseteq Answered \cup {r} /\ link' = link
          /\ pc = "connack" => /\ Answered = {} /\ p.type = "CONNECT" /\ p.clean = CleanFlag
          /\ isconnected => p.type \notin {"CONNECT", "DISCONNECT"}
      BY <1>0, <1>3, TakesEffect
    <2>2. ASSUME pc = "connack"
          PROVE  \A x \in Answered' : ~x.sp /\ (bConn' = "accepted" => bSubs' = {})
      <3>1. p.clean /\ (Accepts(p, r) \/ Refuses(p, r))
        BY <1>3, <2>1, <2>2 DEF CleanFlag, Subscribes, Unsubscribes, Leaves, OtherTaken
      <3>2. ~r.sp /\ (bConn' = "accepted" => bSubs' = {})
        BY <3>1 DEF Accepts, Refuses
      <3> QED
        BY <2>1, <2>2, <3>2
    <2>3. ASSUME Live'
          PROVE  Live /\ (Subscribes(p, r) \/ Unsubscribes(p, r) \/ OtherTaken(p, r))
      <3>1. isconnected /\ link = "up"
        BY <1>1, <2>1, <2>3 DEF Live
      <3>2. Subscribes(p, r) \/ Unsubscribes(p, r) \/ OtherTaken(p, r)
        BY <1>3, <2>1, <3>1 DEF Accepts, Refuses, Leaves
      <3>3. bConn' = bConn
        BY <3>2 DEF Subscribes, Unsubscribes, OtherTaken
      <3> QED
        BY <2>3, <3>1, <3>2, <3>3 DEF Live
    <2>4. ASSUME Live', pc \in {"connected", "restore", "idle", "body", "puback"}
          PROVE  bSubs' = bSubs
      <3>1. p.type \notin {"SUBSCRIBE", "UNSUBSCRIBE"}
        <4>1. CASE pc = "puback"
          <5>1. OnlyOne("PUBACK")
            BY <1>0, <4>1 DEF WireInv, Waiting, Awaits
          <5> QED
            BY <5>1, OneSets
        <4>2. CASE pc # "puback"
          <5>1. Quiet
            BY <1>0, <2>3, <2>4, <4>2 DEF WireInv, BothUp, Live
          <5> QED
            BY <5>1, QuietSets
        <4> QED
          BY <4>1, <4>2
      <3> QED
        BY <2>3, <2>4, <3>1 DEF Subscribes, Unsubscribes, OtherTaken
    <2>5. ASSUME Live', pc = "restoreAck"
          PROVE  /\ bSubs' \subseteq Restarted
                 /\ \A x \in Sent' : x.type = "SUBSCRIBE" =>
                       x.topic \in Restarted /\ Restarted \ bSubs' \subseteq {x.topic}
                 /\ \A x \in Answered' : x.type = "SUBACK" /\ x.granted => Restarted \subseteq bSubs'
      <3>1. OnlyOne("SUBACK")
        BY <1>0, <2>5 DEF WireInv, Waiting, Awaits
      <3>2. p.type # "UNSUBSCRIBE"
        BY <3>1, OneSets
      <3>3. /\ bSubs \subseteq Restarted
            /\ \A x \in Sent : x.type = "SUBSCRIBE" =>
                  x.topic \in Restarted /\ Restarted \ bSubs \subseteq {x.topic}
            /\ \A x \in Answered : x.type = "SUBACK" /\ x.granted => Restarted \subseteq bSubs
        BY <1>0, <1>3, <2>3, <2>5 DEF CleanInv
      <3>4. CASE Subscribes(p, r)
        <4>1. p.topic \in Restarted /\ Restarted \ bSubs \subseteq {p.topic}
          BY <3>3, <3>4 DEF Subscribes
        <4>2. bSubs' = Restarted
          BY <3>3, <3>4, <4>1 DEF Subscribes
        <4> QED
          BY <2>1, <3>3, <4>2
      <3>5. CASE OtherTaken(p, r)
        BY <2>1, <3>3, <3>5 DEF OtherTaken
      <3> QED
        BY <2>3, <2>5, <3>2, <3>4, <3>5 DEF Unsubscribes
    <2>6. ASSUME Live', pc \in {"suback", "unsuback"}
          PROVE  bSubs' \ {call.topic} = mSubscriptions \ {call.topic}
      <3>1. bSubs \ {call.topic} = mSubscriptions \ {call.topic}
        BY <1>0, <1>3, <2>3, <2>6 DEF CleanInv
      <3>2. PICK a : a = Awaits[pc] /\ OnlyOne(a)
        BY <1>0, <2>6 DEF WireInv, Waiting, Awaits
      <3>3. p.type \in {"SUBSCRIBE", "UNSUBSCRIBE"} => p.topic = call.topic
        BY <1>0, <2>6, <3>2, OneSets DEF AckInv, Awaits
      <3> QED
        BY <2>3, <2>6, <3>1, <3>3 DEF Subscribes, Unsubscribes, OtherTaken
    <2>7. Live' => Live
      BY <2>3
    <2> QED
      BY <1>0, <1>1, <2>2, <2>4, <2>5, <2>6, <2>7 DEF CleanInv
  <1>4. CASE conf.persistent
    BY <1>1, <1>4 DEF CleanInv
  <1> QED
    BY <1>2, <1>3, <1>4, OutsideEffect

LEMMA OutsideStored ==
    ASSUME IInv, AgreeInv, StoredInv, SessionSafe, Outside
    PROVE  StoredInv'
  <1>0. ConnectInv /\ HalvesInv /\ WireInv /\ StateInv
    BY DEF AgreeInv, IInv
  <1>1. /\ pc' = pc /\ isconnected' = isconnected /\ conf' = conf /\ stage' = stage
        /\ sessionPresent' = sessionPresent /\ mSubscriptions' = mSubscriptions
        /\ unsure' = unsure /\ InSession' = InSession
    BY DEF Outside, clientVars, mqttVars, sessVars, ctlVars, histVars, InSession
  <1>2. CASE Lost
    <2>1. Sent' = {} /\ Answered' = {} /\ c2b' = <<>> /\ b2c' = <<>>
      BY <1>2, UnderWayNone DEF Lost, Sent, Answered
    <2>2. bStored' = bStored /\ bSubs' = bSubs
      BY <1>2 DEF Lost, SessionSafe
    <2> QED
      BY <1>1, <2>1, <2>2 DEF StoredInv, StoredAgrees
  <1>3. ASSUME NEW p \in Sent, NEW r \in ToClient, Takes(p, r),
               \/ Accepts(p, r) \/ Refuses(p, r) \/ Subscribes(p, r)
               \/ Unsubscribes(p, r) \/ Leaves(p) \/ OtherTaken(p, r),
               conf.persistent
        PROVE  StoredInv'
    <2>1. /\ Sent' \subseteq Sent /\ Answered' \subseteq Answered \cup {r} /\ c2b # <<>>
          /\ pc = "connack" => /\ c2b' = <<>> /\ b2c = <<>> /\ Answered = {}
                               /\ p.type = "CONNECT" /\ p.clean = CleanFlag
          /\ isconnected => p.type \notin {"CONNECT", "DISCONNECT"}
      BY <1>0, <1>3, TakesEffect
    <2>2. \/ Accepts(p, r) \/ Subscribes(p, r) \/ Unsubscribes(p, r)
          \/ Leaves(p) \/ OtherTaken(p, r)
      BY <1>3 DEF Refuses, SessionSafe
    <2>3. ASSUME InSession
          PROVE  StoredAgrees' /\ (p.type = "CONNECT" => r.sp)
      <3>1. StoredAgrees
        BY <1>3, <2>3 DEF StoredInv
      <3>2. /\ p.type \in {"SUBSCRIBE", "UNSUBSCRIBE"} => p.topic \in unsure
            /\ p.type = "CONNECT" => ~p.clean
            /\ bStored
        BY <3>1 DEF StoredAgrees
      <3>3. bStored' /\ (p.type = "CONNECT" => r.sp)
        BY <2>2, <3>2 DEF Accepts, Subscribes, Unsubscribes, Leaves, OtherTaken
      <3>4. \A t \in Topics : (t \in bSubs') # (t \in bSubs) => t \in unsure
        <4>1. CASE Accepts(p, r) \/ Leaves(p) \/ OtherTaken(p, r)
          BY <3>2, <4>1 DEF Accepts, Leaves, OtherTaken
        <4>2. CASE Subscribes(p, r)
          BY <3>2, <4>2 DEF Subscribes
        <4>3. CASE Unsubscribes(p, r)
          BY <3>2, <4>3 DEF Unsubscribes
        <4> QED
          BY <2>2, <4>1, <4>2, <4>3
      <3> QED
        BY <1>1, <2>1, <3>1, <3>3, <3>4 DEF StoredAgrees
    <2>4. ASSUME p.type # "CONNECT"
          PROVE  bStored' = bStored
      BY <2>2, <2>4 DEF Accepts, Subscribes, Unsubscribes, Leaves, OtherTaken
    <2>5. ASSUME pc = "connack"
          PROVE  bStored' = ~CleanFlag /\ (~bStored => bSubs' = {})
      BY <2>1, <2>2, <2>5 DEF Accepts, Subscribes, Unsubscribes, Leaves, OtherTaken
    <2>6. CleanFlag = (stage = "initClean")
      BY <1>3 DEF CleanFlag
    <2>7. ASSUME pc = "connected"
          PROVE  bStored' = bStored /\ bSubs' = bSubs
      <3>1. Quiet /\ isconnected
        BY <1>0, <2>7 DEF WireInv, HalvesInv
      <3>2. p.type \notin {"SUBSCRIBE", "UNSUBSCRIBE", "CONNECT", "DISCONNECT"}
        BY <2>1, <3>1, QuietSets
      <3> QED
        BY <2>2, <3>2 DEF Accepts, Subscribes, Unsubscribes, Leaves, OtherTaken
    <2>8. ASSUME InSession
          PROVE  /\ StoredAgrees'
                 /\ pc = "connack" => \A x \in Answered' : x.sp
                 /\ pc = "connected" => sessionPresent
                 /\ pc \notin {"restore", "restoreAck"}
      BY <1>3, <2>1, <2>3, <2>8 DEF StoredInv
    <2>9. stage = "initClean" /\ pc = "connack" => ~bStored'
      BY <2>5, <2>6
    <2>10. stage = "initClean" /\ pc = "connected" => ~bStored'
      BY <1>3, <2>7 DEF StoredInv
    <2>11. ASSUME stage = "initPersist", pc \in {"tls", "connect"}
           PROVE  ~bStored' /\ \A x \in Sent' : x.type # "CONNECT"
      BY <1>3, <2>1, <2>4, <2>11 DEF StoredInv
    <2>12. ASSUME stage = "initPersist", pc = "connack"
           PROVE  c2b' = <<>> /\ bStored' /\ bSubs' = {}
      BY <1>3, <2>1, <2>5, <2>6, <2>12 DEF StoredInv
    <2>13. stage = "initPersist" /\ pc = "connected" => bStored' /\ bSubs' = {}
      BY <1>3, <2>7 DEF StoredInv
    <2> QED
      BY <1>1, <2>8, <2>9, <2>10, <2>11, <2>12, <2>13 DEF StoredInv
  <1>4. CASE ~conf.persistent
    BY <1>1, <1>4 DEF StoredInv
  <1> QED
    BY <1>2, <1>3, <1>4, OutsideEffect

(***************************************************************************)
(* The theorems                                                            *)
(***************************************************************************)

LEMMA AgreeStep ==
    ASSUME IInv, AgreeInv, Next
    PROVE  AgreeInv' /\ (SessionSafe /\ StoredInv => StoredInv')
  <1>1. PhaseInv'
    BY PhaseStep DEF AgreeInv
  <1> SUFFICES /\ ConnectInv' /\ AckInv' /\ CleanInv'
               /\ SessionSafe /\ StoredInv => StoredInv'
    BY <1>1 DEF AgreeInv
  <1>2. CASE Outside
    BY <1>2, OutsideConnect, OutsideAck, OutsideClean, OutsideStored
  <1>3. CASE Ends \/ Passes
    BY <1>3, EndsStep, PassesStep
  <1>4. CASE AuthOk \/ ConnectTls \/ ConnectSent \/ ConnackOk \/ ConnectAgain \/ Connected
    BY <1>4, OpenStep, ConnectSentStep, ConnackStep, AgainStep, ConnectedStep
  <1>5. CASE StartRestore \/ Restored \/ RestoreAck \/ \E t \in Topics : RestoreNext(t)
    BY <1>5, RestoreStartStep, RestoreNextStep, RestoreAckStep
  <1>6. CASE SubscribeSent \/ UnsubscribeSent \/ SubscribeAck \/ UnsubscribeAck
    BY <1>6, CommandStep, AcknowledgedStep
  <1> QED
    BY <1>2, <1>3, <1>4, <1>5, <1>6 DEF Next, AppCall, Connecting, InBody, Ends, Passes

LEMMA AgreeStutter ==
    ASSUME AgreeInv, UNCHANGED vars
    PROVE  AgreeInv' /\ (StoredInv => StoredInv')
  <1> USE DEF vars, linkVars, brokerVars, mqttVars, sessVars, ctlVars, histVars
  <1>1. /\ Sent' = Sent /\ Answered' = Answered /\ CleanFlag' = CleanFlag
        /\ Live' = Live /\ Restarted' = Restarted /\ InSession' = InSession
    BY DEF Sent, Answered, CleanFlag, Live, Restarted, InSession
  <1>2. PhaseInv' /\ ConnectInv' /\ AckInv'
    BY <1>1 DEF AgreeInv, PhaseInv, ConnectInv, AckInv
  <1>3. CleanInv'
    BY <1>1 DEF AgreeInv, CleanInv
  <1>4. StoredInv => StoredInv'
    BY <1>1 DEF StoredInv, StoredAgrees
  <1> QED
    BY <1>2, <1>3, <1>4 DEF AgreeInv

LEMMA AgreeInit == Init => AgreeInv /\ StoredInv
  <1> SUFFICES ASSUME Init PROVE AgreeInv /\ StoredInv
    OBVIOUS
  <1>1. pc = "idle" /\ mState = "NO_SESSION" /\ mSubscriptions = {} /\ toRestore = {}
        /\ isconnected = FALSE
    BY DEF Init, PahoInit
  <1> QED
    BY <1>1 DEF AgreeInv, PhaseInv, ConnectInv, AckInv, CleanInv, StoredInv, Live, InSession

\* The invariant gives what the property says of the two kinds of session.
LEMMA AgreeEnough ==
    ASSUME IInv, AgreeInv
    PROVE  /\ ~conf.persistent => SubscriptionsAgree
           /\ StoredInv => SubscriptionsAgree
  <1>1. ~conf.persistent => SubscriptionsAgree
    BY DEF AgreeInv, CleanInv, Live, SubscriptionsAgree, Settled
  <1>2. conf.persistent /\ StoredInv => SubscriptionsAgree
    BY DEF StoredInv, StoredAgrees, InSession, SubscriptionsAgree, Settled
  <1> QED
    BY <1>1, <1>2

\* A session that is not persistent agrees with the broker on the subscriptions
\* between calls, whatever has failed: each reconnection restores exactly the topics
\* whose Subscribe succeeded last.
THEOREM CleanSessionAgrees == Spec => [](~conf.persistent => SubscriptionsAgree)
  <1>1. Init => AgreeInv
    BY AgreeInit
  <1>2. IInv /\ AgreeInv /\ [Next]_vars => AgreeInv'
    BY AgreeStep, AgreeStutter
  <1>3. IInv /\ AgreeInv => (~conf.persistent => SubscriptionsAgree)
    BY AgreeEnough
  <1> QED
    BY <1>1, <1>2, <1>3, Inductive, PTL DEF Spec

\* As long as the broker refuses no connection and keeps the session it stores, client
\* and broker agree in every session, persistent or not, except on topics whose last
\* Subscribe or Unsubscribe failed in a persistent one.
THEOREM SessionAgrees ==
    ASSUME SessionSafe
    PROVE  Spec => []SubscriptionsAgree
  <1>1. Init => AgreeInv /\ StoredInv
    BY AgreeInit
  <1>2. IInv /\ AgreeInv /\ StoredInv /\ [Next]_vars => AgreeInv' /\ StoredInv'
    BY AgreeStep, AgreeStutter
  <1>3. IInv /\ AgreeInv /\ StoredInv => SubscriptionsAgree
    BY AgreeEnough
  <1> QED
    BY <1>1, <1>2, <1>3, Inductive, PTL DEF Spec
=============================================================================
