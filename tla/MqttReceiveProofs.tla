------------------------- MODULE MqttReceiveProofs -------------------------
(***************************************************************************)
(* Theorems about MqttReceive, for every set of messages, every size of    *)
(* the table, every packet id limit and any number and choice of faults.   *)
(***************************************************************************)
EXTENDS MqttReceive, SequenceLemmas, FiniteSetTheorems,
        WellFoundedInduction

(***************************************************************************)
(* The packets under way                                                   *)
(***************************************************************************)
ToSender ==
         [type : {"CONNECT"}, clean : BOOLEAN]
    \cup [type : {"PUBACK", "PUBREC", "PUBCOMP"}, id : PacketIds]
    \cup [type : {"PINGREQ"}]

ToReceiver ==
         [type : {"CONNACK"}, sp : BOOLEAN]
    \cup [type : {"PUBLISH"}, id : PacketIds, msg : Msgs, qos2 : BOOLEAN]
    \cup [type : {"PUBREL"}, id : PacketIds]
    \cup [type : {"PINGRESP"}]

PacketsOK == c2b \in Seq(ToSender) /\ b2c \in Seq(ToReceiver)

\* The packet carries the packet id of a message in flight.
Numbered(p) == p.type \in {"PUBLISH", "PUBREL", "PUBACK", "PUBREC", "PUBCOMP"}

\* No packet of q carries the id i; no two packets of q carry the same id; no
\* packet of q carries an id that one of r carries.
Free(i, q) == \A k \in 1..Len(q) : Numbered(q[k]) => q[k].id # i
Distinct(q) ==
    \A j, k \in 1..Len(q) :
        Numbered(q[j]) /\ Numbered(q[k]) /\ q[j].id = q[k].id => j = k
Apart(q, r) ==
    \A j \in 1..Len(q), k \in 1..Len(r) :
        Numbered(q[j]) /\ Numbered(r[k]) => q[j].id # r[k].id

(***************************************************************************)
(* The inductive invariant                                                 *)
(***************************************************************************)

\* A CONNECT is the first packet of its connection and the broker has nothing to
\* say before it has read it; the client reads only from a connection that is up.
ConnInv ==
    /\ connecting => ~isconnected
    /\ b2c # <<>> => bOpen /\ link = "up"
    /\ link = "up" /\ ~bOpen => c2b # <<>> /\ c2b[1].type = "CONNECT"
    /\ \A k \in 1..Len(c2b) : Numbered(c2b[k]) => bOpen
    /\ \A k \in 1..Len(c2b) : c2b[k].type = "CONNECT" =>
          /\ k = 1
          /\ ~bOpen
          /\ ~isconnected
          /\ c2b[k].clean = ~usePersistentSession

\* Messages in flight have packet ids of their own; the broker keeps a session
\* exactly as the client asked for it.
SenderInv ==
    /\ \A m \in InFlight : bId[m] \in PacketIds
    /\ \A m, n \in InFlight : bId[m] = bId[n] => m = n
    /\ \A m \in Msgs : bSt[m] = "released" => m \in QoS2Msgs
    /\ bAgain \subseteq InFlight
    /\ IsFiniteSet(InFlight)
    /\ Cardinality(InFlight) <= Window

KeptInv ==
    /\ usePersistentSession /\ bOpen => bKept
    /\ usePersistentSession /\ ~bKept /\ "broker" \notin forgotBy => InFlight = {}
    /\ ~usePersistentSession => ~bKept /\ bAgain = {}

\* There is at most one packet under way for a message in flight, none for one
\* that is still to be sent again.
OneEach ==
    /\ Distinct(b2c)
    /\ Distinct(c2b)
    /\ Apart(b2c, c2b)
    /\ \A m \in bAgain : Free(bId[m], b2c) /\ Free(bId[m], c2b)

\* A packet under way tells where the message it is about is: to the client, and to
\* the broker.  st, id and del are bSt, bId and delivered.
TellsClient(p, st, id) ==
    /\ p.type = "PUBLISH" =>
          /\ st[p.msg] = "sent"
          /\ id[p.msg] = p.id
          /\ p.qos2 = (p.msg \in QoS2Msgs)
    /\ p.type = "PUBREL" =>
          \E m \in QoS2Msgs : st[m] = "released" /\ id[m] = p.id

TellsBroker(p, st, id, del) ==
    /\ p.type = "PUBACK" =>
          \E m \in Msgs \ QoS2Msgs : st[m] = "sent" /\ id[m] = p.id /\ del[m] >= 1
    /\ p.type = "PUBREC" =>
          \E m \in QoS2Msgs : st[m] = "sent" /\ id[m] = p.id
    /\ p.type = "PUBCOMP" =>
          \E m \in QoS2Msgs : st[m] = "released" /\ id[m] = p.id

Tells ==
    /\ \A k \in 1..Len(b2c) : TellsClient(b2c[k], bSt, bId)
    /\ \A k \in 1..Len(c2b) : TellsBroker(c2b[k], bSt, bId, delivered)

\* The table tab holds the id i.
Holds(tab, i) == \E s \in Slots : tab[s] = i

\* The table holds the ids of delivered messages that are still in flight.
TableInv ==
    /\ "broker" \notin forgotBy =>
          \A s \in Slots : incomingQoS2messages[s] # 0 =>
              \E m \in QoS2Msgs \cap InFlight :
                  bId[m] = incomingQoS2messages[s] /\ delivered[m] >= 1
    /\ \A r, s \in Slots :
          incomingQoS2messages[r] = incomingQoS2messages[s] =>
              r = s \/ incomingQoS2messages[r] = 0
    /\ ~usePersistentSession /\ ~isconnected => incomingQoS2messages = NoIds
    /\ \A k \in 1..Len(c2b) : c2b[k].type = "PUBCOMP" =>
          ~Holds(incomingQoS2messages, c2b[k].id)

PingInv ==
    commandTimeout = "shorter" =>
        /\ ~isconnected => ~ping_outstanding
        /\ isconnected /\ link = "up" /\ ping_outstanding =>
              \/ \E i \in 1..Len(c2b) : c2b[i].type = "PINGREQ"
              \/ \E i \in 1..Len(b2c) : b2c[i].type = "PINGRESP"

RInv ==
    /\ ReceiveTypeOK
    /\ PacketsOK
    /\ ConnInv
    /\ SenderInv
    /\ KeptInv
    /\ OneEach
    /\ Tells
    /\ TableInv
    /\ AcknowledgedDelivered
    /\ PingInv

\* A QoS 2 message is delivered once before its PUBREC is written; one that may
\* still arrive after its delivery is in the table.
CountedOnce ==
    \A m \in QoS2Msgs :
        /\ delivered[m] <= 1
        /\ bSt[m] = "new" => delivered[m] = 0
        /\ bSt[m] \in {"released", "done"} => delivered[m] = 1
        /\ usePersistentSession /\ bSt[m] = "sent" /\ delivered[m] = 1 =>
              Holds(incomingQoS2messages, bId[m])

UnreadNew ==
    \A k \in 1..Len(b2c) :
        b2c[k].type = "PUBLISH" /\ b2c[k].qos2 /\ ~usePersistentSession =>
            delivered[b2c[k].msg] = 0

RecDelivered ==
    \A k \in 1..Len(c2b) : c2b[k].type = "PUBREC" =>
        \A m \in QoS2Msgs : bSt[m] = "sent" /\ bId[m] = c2b[k].id => delivered[m] = 1

OnceInv == forgotBy = {} => CountedOnce /\ UnreadNew /\ RecDelivered

(***************************************************************************)
(* Lemmas: packets and queues                                              *)
(***************************************************************************)

\* What a packet of each type carries.
LEMMA SenderFields ==
    ASSUME NEW p \in ToSender
    PROVE  /\ p.type \in {"CONNECT", "PUBACK", "PUBREC", "PUBCOMP", "PINGREQ"}
           /\ p.type = "CONNECT" => p.clean \in BOOLEAN
           /\ Numbered(p) => p.id \in PacketIds
           /\ Numbered(p) <=> p.type \in {"PUBACK", "PUBREC", "PUBCOMP"}
  BY DEF ToSender, Numbered

LEMMA ReceiverFields ==
    ASSUME NEW p \in ToReceiver
    PROVE  /\ p.type \in {"CONNACK", "PUBLISH", "PUBREL", "PINGRESP"}
           /\ Numbered(p) => p.id \in PacketIds
           /\ Numbered(p) <=> p.type \in {"PUBLISH", "PUBREL"}
           /\ p.type = "PUBLISH" => p.msg \in Msgs /\ p.qos2 \in BOOLEAN
  BY DEF ToReceiver, Numbered

\* The packets that are written are packets.
LEMMA OtherPackets ==
    ASSUME NEW b \in BOOLEAN
    PROVE  /\ [type |-> "CONNECT", clean |-> b] \in ToSender
           /\ [type |-> "PINGREQ"] \in ToSender
           /\ [type |-> "CONNACK", sp |-> b] \in ToReceiver
           /\ [type |-> "PINGRESP"] \in ToReceiver
  BY DEF ToSender, ToReceiver

LEMMA ReceiverPackets ==
    ASSUME NEW i \in PacketIds, NEW m \in Msgs
    PROVE  /\ [type |-> "PUBLISH", id |-> i, msg |-> m, qos2 |-> m \in QoS2Msgs] \in ToReceiver
           /\ [type |-> "PUBREL", id |-> i] \in ToReceiver
  <1> DEFINE b == m \in QoS2Msgs
  <1>1. b \in BOOLEAN
    OBVIOUS
  <1> HIDE DEF b
  <1>2. [type |-> "PUBLISH", id |-> i, msg |-> m, qos2 |-> b] \in ToReceiver
    BY <1>1 DEF ToReceiver
  <1> QED
    BY <1>2 DEF b, ToReceiver

\* Reading frees the id of the packet read.
LEMMA TailIds ==
    ASSUME NEW S, NEW q \in Seq(S), q # <<>>
    PROVE  /\ Distinct(q) => Distinct(Tail(q))
           /\ Distinct(q) /\ Numbered(Head(q)) => Free(Head(q).id, Tail(q))
           /\ \A i : Free(i, q) => Free(i, Tail(q)) /\ (Numbered(Head(q)) => Head(q).id # i)
  BY HeadTail DEF Distinct, Free

LEMMA TailApart ==
    ASSUME NEW S, NEW q \in Seq(S), q # <<>>, NEW r
    PROVE  /\ Apart(q, r) => Apart(Tail(q), r)
           /\ Apart(r, q) => Apart(r, Tail(q))
           /\ Apart(q, r) /\ Numbered(Head(q)) => Free(Head(q).id, r)
           /\ Apart(r, q) /\ Numbered(Head(q)) => Free(Head(q).id, r)
  BY HeadTail DEF Apart, Free

\* Writing a packet whose id no other packet carries.
LEMMA AppendIds ==
    ASSUME NEW S, NEW q \in Seq(S), NEW e \in S
    PROVE  /\ Distinct(q) /\ (Numbered(e) => Free(e.id, q)) => Distinct(Append(q, e))
           /\ \A i : Free(i, q) /\ (Numbered(e) => e.id # i) => Free(i, Append(q, e))
  BY AppendElements DEF Distinct, Free

LEMMA AppendApart ==
    ASSUME NEW S, NEW q \in Seq(S), NEW e \in S, NEW r
    PROVE  /\ Apart(q, r) /\ (Numbered(e) => Free(e.id, r)) => Apart(Append(q, e), r)
           /\ Apart(r, q) /\ (Numbered(e) => Free(e.id, r)) => Apart(r, Append(q, e))
  BY AppendElements DEF Apart, Free

LEMMA EmptyIds ==
    /\ Distinct(<<>>)
    /\ \A i : Free(i, <<>>)
    /\ \A q : Apart(<<>>, q) /\ Apart(q, <<>>)
  BY DEF Distinct, Free, Apart

(***************************************************************************)
(* Lemmas: what the parts of a step do                                     *)
(***************************************************************************)

\* keepalive writes a ping or nothing.
LEMMA KeepaliveDoes ==
    ASSUME PacketsOK, NEW o \in BOOLEAN, keepalive(o)
    PROVE  /\ c2b' = c2b \/ c2b' = Append(c2b, [type |-> "PINGREQ"])
           /\ c2b' \in Seq(ToSender)
           /\ ping_outstanding' \in BOOLEAN
           /\ ping_outstanding' =>
                o \/ link # "up" \/ c2b' = Append(c2b, [type |-> "PINGREQ"])
  <1>1. [type |-> "PINGREQ"] \in ToSender
    BY OtherPackets
  <1>2. PICK expired \in BOOLEAN :
          LET ping == expired /\ ~o IN
          /\ c2b' = IF ping /\ link = "up" THEN Append(c2b, [type |-> "PINGREQ"]) ELSE c2b
          /\ ping_outstanding' = (o \/ ping)
    BY DEF keepalive
  <1>3. ping_outstanding' \in BOOLEAN
    BY <1>2, Zenon
  <1> QED
    BY <1>1, <1>2, <1>3 DEF PacketsOK

\* cycle takes the next packet.
LEMMA ReadDoes ==
    ASSUME PacketsOK, NEW t, ReadPacket(t)
    PROVE  /\ link = "up" /\ link' = "up"
           /\ b2c # <<>> /\ 1 \in 1..Len(b2c) /\ Head(b2c) = b2c[1]
           /\ b2c' = Tail(b2c) /\ b2c' \in Seq(ToReceiver)
           /\ \A k \in 1..Len(b2c') : k + 1 \in 1..Len(b2c) /\ b2c'[k] = b2c[k + 1]
           /\ Head(b2c) \in ToReceiver /\ Head(b2c).type = t
           /\ UNCHANGED <<bSt, bId, bAgain, bOpen, bKept, confVars, forgotBy>>
  BY HeadTail DEF PacketsOK, ReadPacket, Read, senderVars

\* The acknowledgement is written, or left out.
LEMMA AcknowledgeDoes ==
    ASSUME ReceiveTypeOK, PacketsOK, NEW t \in {"PUBACK", "PUBREC", "PUBCOMP"},
           Acknowledge(t), link = "up", Head(b2c).id \in PacketIds
    PROVE  /\ c2b' \in Seq(ToSender)
           /\ c2b' = c2b \/ c2b' = Append(c2b, [type |-> t, id |-> Head(b2c).id])
           /\ faults' \in 0..MaxFaults
           /\ late' \in BOOLEAN
           /\ UNCHANGED ping_outstanding
  <1>0. [type |-> t, id |-> Head(b2c).id] \in ToSender
    BY DEF ToSender
  <1>1. CASE Written(t)
    BY <1>0, <1>1 DEF ReceiveTypeOK, PacketsOK, Written, WriteOk
  <1>2. CASE TooLate
    BY <1>2, MaxFaultsAssumption DEF ReceiveTypeOK, PacketsOK, TooLate, Fault
  <1> QED
    BY <1>1, <1>2 DEF Acknowledge

\* The broker takes the next packet.
LEMMA TakeDoes ==
    ASSUME PacketsOK, NEW t, SenderTake(t)
    PROVE  /\ c2b # <<>> /\ 1 \in 1..Len(c2b) /\ Head(c2b) = c2b[1]
           /\ c2b' = Tail(c2b) /\ c2b' \in Seq(ToSender)
           /\ \A k \in 1..Len(c2b') : k + 1 \in 1..Len(c2b) /\ c2b'[k] = c2b[k + 1]
           /\ Head(c2b) \in ToSender /\ Head(c2b).type = t
           /\ UNCHANGED <<link, faults>>
  BY HeadTail DEF PacketsOK, SenderTake

\* Delivering counts the message and no other.
LEMMA DeliverDoes ==
    ASSUME ReceiveTypeOK, NEW m \in Msgs, deliverMessage(m)
    PROVE  /\ delivered' \in [Msgs -> 0..2]
           /\ delivered'[m] >= 1
           /\ delivered[m] = 0 => delivered'[m] = 1
           /\ \A n \in Msgs : delivered'[n] >= delivered[n]
           /\ \A n \in Msgs : n # m => delivered'[n] = delivered[n]
  BY DEF ReceiveTypeOK, deliverMessage

(***************************************************************************)
(* Lemmas: the table                                                       *)
(***************************************************************************)

\* FirstWith finds a place that holds the id, if there is one: there is a first
\* one among the finitely many places.
LEMMA FirstWithFound ==
    ASSUME ReceiveTypeOK, NEW i, Holds(incomingQoS2messages, i)
    PROVE  FirstWith(i) \in Slots /\ incomingQoS2messages[FirstWith(i)] = i
  <1> DEFINE H == {s \in Slots : incomingQoS2messages[s] = i}
             R == OpToRel(<, Nat)
  <1>1. H \subseteq Nat /\ H # {}
    BY TableAssumption DEF Slots, Holds
  <1>2. IsWellFoundedOn(R, Nat)
    BY NatLessThanWellFounded, Zenon
  <1>3. \A r, s \in Nat : r < s => <<r, s>> \in R
    BY DEF OpToRel
  <1> HIDE DEF H, R
  <1>4. PICK s \in H : \A r \in H : ~(<<r, s>> \in R)
    BY <1>1, <1>2, WFMin
  <1>5. ASSUME NEW r \in H PROVE s <= r
    <2>1. r \in Nat /\ s \in Nat
      BY <1>1
    <2>2. ~(r < s)
      BY <1>3, <1>4, <2>1, Zenon
    <2> QED
      BY <2>1, <2>2
  <1>6. \E f \in Slots : /\ incomingQoS2messages[f] = i
                         /\ \A r \in Slots : incomingQoS2messages[r] = i => f <= r
    BY <1>5 DEF H
  <1> QED
    BY <1>6 DEF FirstWith

\* Every place holds an id of its own, or none.
OwnPlaces ==
    \A r, s \in Slots :
        incomingQoS2messages[r] = incomingQoS2messages[s] =>
            r = s \/ incomingQoS2messages[r] = 0

\* useQoS2msgid puts an id that is not in the table into a free place.
LEMMA UseDoes ==
    ASSUME ReceiveTypeOK, OwnPlaces, NEW i \in PacketIds,
           isQoS2msgidFree(i), ~TableFull, useQoS2msgid(i)
    PROVE  /\ incomingQoS2messages' \in [Slots -> 0..MaxPacketId]
           /\ Holds(incomingQoS2messages', i)
           /\ OwnPlaces'
           /\ \A s \in Slots :
                 \/ incomingQoS2messages'[s] = incomingQoS2messages[s]
                 \/ incomingQoS2messages[s] = 0 /\ incomingQoS2messages'[s] = i
  <1> DEFINE f == FirstWith(0)
  <1>1. Holds(incomingQoS2messages, 0)
    BY DEF TableFull, Holds
  <1>2. f \in Slots /\ incomingQoS2messages[f] = 0
    BY <1>1, FirstWithFound
  <1>3. /\ incomingQoS2messages \in [Slots -> 0..MaxPacketId]
        /\ incomingQoS2messages' = [incomingQoS2messages EXCEPT ![f] = i]
    BY DEF ReceiveTypeOK, useQoS2msgid
  <1> HIDE DEF f
  <1>4. incomingQoS2messages' \in [Slots -> 0..MaxPacketId]
    BY <1>2, <1>3, MaxPacketIdAssumption DEF PacketIds
  <1>5. incomingQoS2messages'[f] = i /\ Holds(incomingQoS2messages', i)
    BY <1>2, <1>3 DEF Holds
  <1>6. \A s \in Slots : s # f => incomingQoS2messages'[s] = incomingQoS2messages[s]
    BY <1>3
  <1>7. OwnPlaces'
    BY <1>2, <1>5, <1>6 DEF OwnPlaces, isQoS2msgidFree
  <1> QED
    BY <1>2, <1>4, <1>5, <1>6, <1>7

\* freeQoS2msgid removes the id, and only that.
LEMMA FreeDoes ==
    ASSUME ReceiveTypeOK, OwnPlaces, NEW i \in PacketIds, freeQoS2msgid(i)
    PROVE  /\ incomingQoS2messages' \in [Slots -> 0..MaxPacketId]
           /\ ~Holds(incomingQoS2messages', i)
           /\ OwnPlaces'
           /\ \A s \in Slots :
                 \/ incomingQoS2messages'[s] = incomingQoS2messages[s]
                 \/ incomingQoS2messages[s] = i /\ incomingQoS2messages'[s] = 0
  <1>1. CASE isQoS2msgidFree(i)
    BY <1>1 DEF ReceiveTypeOK, OwnPlaces, freeQoS2msgid, isQoS2msgidFree, Holds
  <1>2. CASE ~isQoS2msgidFree(i)
    <2> DEFINE f == FirstWith(i)
    <2>1. Holds(incomingQoS2messages, i)
      BY <1>2 DEF isQoS2msgidFree, Holds
    <2>2. f \in Slots /\ incomingQoS2messages[f] = i
      BY <2>1, FirstWithFound
    <2>3. /\ incomingQoS2messages \in [Slots -> 0..MaxPacketId]
          /\ incomingQoS2messages' = [incomingQoS2messages EXCEPT ![f] = 0]
      BY <1>2 DEF ReceiveTypeOK, freeQoS2msgid
    <2> HIDE DEF f
    <2>4. incomingQoS2messages' \in [Slots -> 0..MaxPacketId]
      BY <2>2, <2>3, MaxPacketIdAssumption
    <2>5. /\ incomingQoS2messages'[f] = 0
          /\ \A s \in Slots : s # f => incomingQoS2messages'[s] = incomingQoS2messages[s]
      BY <2>2, <2>3
    <2>6. i # 0
      BY DEF PacketIds
    <2>7. ~Holds(incomingQoS2messages', i)
      <3>1. \A s \in Slots : incomingQoS2messages[s] = i => s = f
        BY <2>2, <2>6 DEF OwnPlaces
      <3>2. \A s \in Slots : incomingQoS2messages'[s] # i
        BY <2>5, <2>6, <3>1
      <3> QED
        BY <3>2 DEF Holds
    <2>8. OwnPlaces'
      BY <2>2, <2>5 DEF OwnPlaces
    <2> QED
      BY <2>2, <2>4, <2>5, <2>7, <2>8
  <1> QED
    BY <1>1, <1>2

(***************************************************************************)
(* Types                                                                   *)
(***************************************************************************)

\* The end of a session, as the client sees it.
LEMMA CleanDoes ==
    ASSUME ReceiveTypeOK, cleanSession \/ disconnect
    PROVE  /\ isconnected' = FALSE
           /\ ping_outstanding' = FALSE
           /\ incomingQoS2messages' \in [Slots -> 0..MaxPacketId]
           /\ incomingQoS2messages' = NoIds \/ (disconnect /\ usePersistentSession
                 /\ incomingQoS2messages' = incomingQoS2messages)
  <1>1. NoIds \in [Slots -> 0..MaxPacketId]
    BY MaxPacketIdAssumption DEF NoIds
  <1> QED
    BY <1>1 DEF ReceiveTypeOK, cleanSession, disconnect

LEMMA ForgetsDoes ==
    ASSUME ReceiveTypeOK, NEW w \in {"client", "broker"}, Forgets(w)
    PROVE  /\ forgotBy' \subseteq {"client", "broker"}
           /\ forgotBy \subseteq forgotBy'
           /\ usePersistentSession => w \in forgotBy'
           /\ ~usePersistentSession => forgotBy' = forgotBy
           /\ forgotBy' \subseteq forgotBy \cup {w}
  BY DEF ReceiveTypeOK, Forgets

LEMMA FaultDoes ==
    ASSUME ReceiveTypeOK, NEW k, Fault(k)
    PROVE  faults' \in 0..MaxFaults
  BY MaxFaultsAssumption DEF ReceiveTypeOK, Fault

\* The broker's answer reaches a connection that is up.
LEMMA ReplyDoes ==
    ASSUME PacketsOK, NEW p \in ToReceiver, SenderReply(p)
    PROVE  /\ b2c' \in Seq(ToReceiver)
           /\ link = "up" => b2c' = Append(b2c, p)
           /\ link # "up" => b2c' = b2c
  BY DEF PacketsOK, SenderReply

LEMMA ForgetDoes ==
    ASSUME ReceiveTypeOK, Forget
    PROVE  /\ bSt' \in [Msgs -> {"new", "sent", "released", "done", "dropped"}]
           /\ bId' \in [Msgs -> 0..MaxPacketId]
           /\ \A m \in Msgs : bSt'[m] = IF m \in InFlight THEN "dropped" ELSE bSt[m]
           /\ InFlight' = {}
  <1>1. 0 \in 0..MaxPacketId
    BY MaxPacketIdAssumption
  <1> QED
    BY <1>1 DEF ReceiveTypeOK, SenderTypeOK, Forget, InFlight

\* Every step keeps the types of the variables and of the packets under way.
LEMMA TypeStep == RInv /\ [Next]_vars => ReceiveTypeOK' /\ PacketsOK'
  <1> SUFFICES ASSUME RInv, [Next]_vars
               PROVE  ReceiveTypeOK' /\ PacketsOK'
    OBVIOUS
  <1>0. ReceiveTypeOK /\ PacketsOK /\ SenderInv /\ Tells /\ TableInv /\ OwnPlaces
    BY DEF RInv, TableInv, OwnPlaces
  <1> USE DEF ReceiveTypeOK, PacketsOK, linkVars, senderVars, confVars, clientVars,
              recvVars, histVars
  <1>a. /\ <<>> \in Seq(ToSender) /\ <<>> \in Seq(ToReceiver)
        /\ usePersistentSession \in BOOLEAN
    BY <1>0, SessionKindsAssumption
  <1>1. CASE Connect
    <2>1. [type |-> "CONNECT", clean |-> ~usePersistentSession] \in ToSender
      BY <1>a, OtherPackets
    <2>2. c2b' \in Seq(ToSender)
      BY <1>1, <2>1 DEF Connect
    <2>3. CASE isconnected
      <3>1. disconnect
        BY <1>1, <2>3 DEF Connect
      <3> QED
        BY <1>0, <1>1, <1>a, <2>2, <3>1, CleanDoes DEF Connect, SenderTypeOK
    <2>4. CASE ~isconnected
      BY <1>0, <1>1, <1>a, <2>2, <2>4 DEF Connect, SenderTypeOK
    <2> QED
      BY <2>3, <2>4
  <1>2. CASE ConnectFails
    BY <1>0, <1>2, <1>a, FaultDoes DEF ConnectFails, Close, SenderTypeOK
  <1>3. CASE ConnectFailsWithPublish
    BY <1>0, <1>3, <1>a, FaultDoes, CleanDoes, ForgetsDoes
       DEF ConnectFailsWithPublish, Close, SenderTypeOK
  <1>4. CASE CommandFails
    BY <1>0, <1>4, FaultDoes, CleanDoes, ForgetsDoes DEF CommandFails, SenderTypeOK
  <1>5. CASE Connack
    <2>1. CASE commandTimeout = "longer"
      BY <1>0, <1>5, <2>1, ReadDoes, KeepaliveDoes DEF Connack, SenderTypeOK
    <2>2. CASE commandTimeout # "longer"
      BY <1>0, <1>5, <2>2, ReadDoes DEF Connack, SenderTypeOK
    <2> QED
      BY <2>1, <2>2
  <1>6. CASE PublishQoS1
    <2>1. ReadPacket("PUBLISH") /\ deliverMessage(Head(b2c).msg) /\ Acknowledge("PUBACK")
      BY <1>6 DEF PublishQoS1
    <2>2. Head(b2c).msg \in Msgs /\ Head(b2c).id \in PacketIds
      BY <1>0, <2>1, ReadDoes, ReceiverFields DEF Numbered
    <2>3. c2b' \in Seq(ToSender)
      BY <1>0, <2>1, <2>2, ReadDoes, AcknowledgeDoes
    <2> QED
      BY <1>0, <1>6, <2>1, <2>2, <2>3, ReadDoes, AcknowledgeDoes, DeliverDoes
         DEF PublishQoS1, SenderTypeOK
  <1>7. CASE PublishQoS2
    <2> DEFINE p == Head(b2c)
    <2>1. ReadPacket("PUBLISH") /\ Acknowledge("PUBREC")
      BY <1>7 DEF PublishQoS2
    <2>2. p.msg \in Msgs /\ p.id \in PacketIds
      BY <1>0, <2>1, ReadDoes, ReceiverFields DEF Numbered
    <2>3. c2b' \in Seq(ToSender)
      BY <1>0, <2>1, <2>2, ReadDoes, AcknowledgeDoes
    <2>4. incomingQoS2messages' \in [Slots -> 0..MaxPacketId] /\ delivered' \in [Msgs -> 0..2]
      <3>1. CASE isQoS2msgidFree(p.id) /\ ~TableFull
        <4>1. useQoS2msgid(p.id) /\ deliverMessage(p.msg)
          BY <1>7, <3>1 DEF PublishQoS2
        <4> HIDE DEF p
        <4> QED
          BY <1>0, <2>2, <3>1, <4>1, UseDoes, DeliverDoes
      <3>2. CASE ~(isQoS2msgidFree(p.id) /\ ~TableFull)
        BY <1>0, <1>7, <3>2 DEF PublishQoS2
      <3> QED
        BY <3>1, <3>2
    <2> QED
      BY <1>0, <1>7, <2>1, <2>2, <2>3, <2>4, ReadDoes, AcknowledgeDoes
         DEF PublishQoS2, SenderTypeOK
  <1>8. CASE Pubrel
    <2> DEFINE p == Head(b2c)
    <2>1. ReadPacket("PUBREL") /\ Acknowledge("PUBCOMP")
      BY <1>8 DEF Pubrel, Acknowledge
    <2>2. p.id \in PacketIds
      BY <1>0, <2>1, ReadDoes, ReceiverFields DEF Numbered
    <2>3. c2b' \in Seq(ToSender)
      BY <1>0, <2>1, <2>2, ReadDoes, AcknowledgeDoes
    <2>4. incomingQoS2messages' \in [Slots -> 0..MaxPacketId]
      <3>1. freeQoS2msgid(p.id) \/ UNCHANGED incomingQoS2messages
        BY <1>8 DEF Pubrel
      <3> HIDE DEF p
      <3> QED
        BY <1>0, <2>2, <3>1, FreeDoes
    <2> QED
      BY <1>0, <1>8, <2>1, <2>2, <2>3, <2>4, ReadDoes, AcknowledgeDoes
         DEF Pubrel, SenderTypeOK
  <1>9. CASE Pingresp
    BY <1>0, <1>9, ReadDoes, KeepaliveDoes DEF Pingresp, SenderTypeOK
  <1>10. CASE NothingRead
    BY <1>0, <1>10, KeepaliveDoes DEF NothingRead, SenderTypeOK
  <1>11. CASE ReadError
    BY <1>0, <1>11, <1>a DEF ReadError, ReadFails, Close, SenderTypeOK
  <1>12. CASE Network
    BY <1>0, <1>12, <1>a, FaultDoes DEF Network, Drop, LinkLost, SenderTypeOK
  <1>13. CASE SenderAccept /\ UNCHANGED <<recvVars, histVars>>
    <2> DEFINE sp == ~Head(c2b).clean /\ bKept
    <2>1. SenderTake("CONNECT")
      BY <1>13 DEF SenderAccept
    <2>2. Head(c2b).clean \in BOOLEAN
      BY <1>0, <2>1, TakeDoes, SenderFields
    <2>3. [type |-> "CONNACK", sp |-> sp] \in ToReceiver
      <3> HIDE DEF sp
      <3>1. sp \in BOOLEAN
        BY DEF sp
      <3> QED
        BY <3>1, OtherPackets
    <2>4. b2c' \in Seq(ToReceiver)
      BY <1>0, <1>13, <2>3, ReplyDoes DEF SenderAccept
    <2>5. /\ bSt' \in [Msgs -> {"new", "sent", "released", "done", "dropped"}]
          /\ bId' \in [Msgs -> 0..MaxPacketId]
      BY <1>0, <1>13, ForgetDoes DEF SenderAccept, SenderTypeOK
    <2>6. bAgain' \subseteq Msgs /\ bOpen' \in BOOLEAN /\ bKept' \in BOOLEAN
      BY <1>13, <2>2 DEF SenderAccept, InFlight
    <2> QED
      BY <1>0, <1>13, <2>1, <2>4, <2>5, <2>6, TakeDoes DEF SenderAccept, SenderTypeOK
  <1>14. ASSUME NEW m \in Msgs, NEW i \in PacketIds, SendPublish(m, i),
                UNCHANGED <<recvVars, histVars>>
         PROVE  ReceiveTypeOK' /\ PacketsOK'
    <2>1. i \in 0..MaxPacketId
      BY DEF PacketIds
    <2>2. /\ bSt' \in [Msgs -> {"new", "sent", "released", "done", "dropped"}]
          /\ bId' \in [Msgs -> 0..MaxPacketId] /\ bId'[m] = i
      BY <1>0, <1>14, <2>1 DEF SendPublish, SenderTypeOK
    <2>3. Publish(m)' = [type |-> "PUBLISH", id |-> i, msg |-> m, qos2 |-> m \in QoS2Msgs]
      BY <2>2 DEF Publish
    <2>4. Publish(m)' \in ToReceiver
      BY <2>3, ReceiverPackets
    <2> QED
      BY <1>0, <1>14, <2>2, <2>4 DEF SendPublish, SenderTypeOK
  <1>15. ASSUME NEW m \in Msgs, SendAgain(m), UNCHANGED <<recvVars, histVars>>
         PROVE  ReceiveTypeOK' /\ PacketsOK'
    <2>1. bId[m] \in PacketIds
      BY <1>0, <1>15 DEF SenderInv, SendAgain
    <2>2. Publish(m) \in ToReceiver /\ [type |-> "PUBREL", id |-> bId[m]] \in ToReceiver
      BY <2>1, ReceiverPackets DEF Publish
    <2> QED
      BY <1>0, <1>15, <2>2 DEF SendAgain, SenderTypeOK
  <1>16. ASSUME NEW m \in Msgs, SenderPuback(m) \/ SenderPubcomp(m),
                UNCHANGED <<recvVars, histVars>>
         PROVE  ReceiveTypeOK' /\ PacketsOK'
    <2>1. PICK t : SenderTake(t)
      BY <1>16 DEF SenderPuback, SenderPubcomp
    <2>2. Done(m) /\ UNCHANGED <<b2c, bAgain, bOpen, bKept>>
      BY <1>16 DEF SenderPuback, SenderPubcomp
    <2>3. 0 \in 0..MaxPacketId
      BY MaxPacketIdAssumption
    <2> QED
      BY <1>0, <1>16, <2>1, <2>2, <2>3, TakeDoes DEF Done, SenderTypeOK
  <1>17. ASSUME NEW m \in Msgs, SenderPubrec(m), UNCHANGED <<recvVars, histVars>>
         PROVE  ReceiveTypeOK' /\ PacketsOK'
    <2>1. bId[m] \in PacketIds
      BY <1>0, <1>17 DEF SenderInv, InFlight, SenderPubrec
    <2>2. [type |-> "PUBREL", id |-> bId[m]] \in ToReceiver
      BY <2>1, ReceiverPackets
    <2> QED
      BY <1>0, <1>17, <2>2, TakeDoes, ReplyDoes DEF SenderPubrec, SenderTypeOK
  <1>18. CASE SenderPing /\ UNCHANGED <<recvVars, histVars>>
    BY <1>0, <1>18, TakeDoes, ReplyDoes, OtherPackets DEF SenderPing, SenderTypeOK
  <1>19. CASE SenderLosesSession /\ Forgets("broker") /\ UNCHANGED <<recvVars, late>>
    BY <1>0, <1>19, <1>a, FaultDoes, ForgetDoes, ForgetsDoes
       DEF SenderLosesSession, LinkLost, SenderTypeOK
  <1>20. CASE UNCHANGED vars
    BY <1>0, <1>20 DEF vars, SenderTypeOK
  <1> QED
    BY <1>1, <1>2, <1>3, <1>4, <1>5, <1>6, <1>7, <1>8, <1>9, <1>10, <1>11, <1>12,
       <1>13, <1>14, <1>15, <1>16, <1>17, <1>18, <1>19, <1>20
       DEF Next, Client, Sender, SenderStep

(***************************************************************************)
(* The connection                                                          *)
(***************************************************************************)

\* A ping changes nothing of what ConnInv says about the packets to the broker.
LEMMA PingQueue ==
    ASSUME PacketsOK, c2b' = c2b \/ c2b' = Append(c2b, [type |-> "PINGREQ"])
    PROVE  /\ \A k \in 1..Len(c2b') :
                 \/ k \in 1..Len(c2b) /\ c2b'[k] = c2b[k]
                 \/ k = Len(c2b) + 1 /\ c2b'[k] = [type |-> "PINGREQ"]
           /\ c2b # <<>> => c2b' # <<>> /\ c2b'[1] = c2b[1]
  <1>1. [type |-> "PINGREQ"] \in ToSender
    BY OtherPackets
  <1>2. CASE c2b' = c2b
    BY <1>2
  <1>3. CASE c2b' = Append(c2b, [type |-> "PINGREQ"])
    <2> DEFINE e == [type |-> "PINGREQ"]
    <2> HIDE DEF e
    <2>1. e \in ToSender /\ c2b' = Append(c2b, e)
      BY <1>1, <1>3 DEF e
    <2>2. \A k \in 1..Len(c2b') : \/ k \in 1..Len(c2b) /\ c2b'[k] = c2b[k]
                                  \/ k = Len(c2b) + 1 /\ c2b'[k] = e
      BY <2>1, AppendElements DEF PacketsOK
    <2>3. c2b # <<>> => c2b' # <<>> /\ c2b'[1] = c2b[1]
      BY <2>1, AppendFirst DEF PacketsOK
    <2> QED
      BY <2>2, <2>3 DEF e
  <1> QED
    BY <1>2, <1>3

LEMMA ConnStep == RInv /\ [Next]_vars => ConnInv'
  <1> SUFFICES ASSUME RInv, [Next]_vars
               PROVE  ConnInv'
    OBVIOUS
  <1>0. ReceiveTypeOK /\ PacketsOK /\ ConnInv
    BY DEF RInv
  <1> USE DEF ConnInv, linkVars, senderVars, confVars, clientVars, recvVars, histVars
  <1>1. CASE Connect
    <2>1. isconnected' = FALSE
      BY <1>0, <1>1, CleanDoes DEF Connect, ReceiveTypeOK
    <2>2. /\ Len(c2b') = 1 /\ c2b'[1].type = "CONNECT"
          /\ c2b'[1].clean = ~usePersistentSession
      BY <1>1 DEF Connect
    <2> QED
      BY <1>1, <2>1, <2>2 DEF Connect, Numbered
  <1>2. CASE ConnectFails
    BY <1>0, <1>2 DEF ConnectFails, Close
  <1>3. CASE ConnectFailsWithPublish
    BY <1>0, <1>3, CleanDoes DEF ConnectFailsWithPublish, Close
  <1>4. CASE CommandFails
    BY <1>0, <1>4, CleanDoes DEF CommandFails
  <1>5. CASE Connack
    <2>1. ReadPacket("CONNACK")
      BY <1>5 DEF Connack
    <2>2. c2b' = c2b \/ c2b' = Append(c2b, [type |-> "PINGREQ"])
      BY <1>0, <1>5, KeepaliveDoes DEF Connack, ReceiveTypeOK
    <2> QED
      BY <1>0, <1>5, <2>1, <2>2, ReadDoes, PingQueue DEF Connack, Numbered
  <1>6. CASE PublishQoS1 \/ PublishQoS2 \/ Pubrel
    <2>1. PICK t \in {"PUBLISH", "PUBREL"}, a \in {"PUBACK", "PUBREC", "PUBCOMP"} :
             ReadPacket(t) /\ Acknowledge(a)
      BY <1>6 DEF PublishQoS1, PublishQoS2, Pubrel, Acknowledge
    <2>2. Head(b2c).id \in PacketIds
      BY <1>0, <2>1, ReadDoes, ReceiverFields DEF Numbered
    <2>3. \A k \in 1..Len(c2b') : \/ k \in 1..Len(c2b) /\ c2b'[k] = c2b[k]
                                  \/ c2b'[k].type # "CONNECT"
      <3>1. c2b' = c2b \/ c2b' = Append(c2b, [type |-> a, id |-> Head(b2c).id])
        BY <1>0, <2>1, <2>2, ReadDoes, AcknowledgeDoes
      <3>2. [type |-> a, id |-> Head(b2c).id] \in ToSender
        BY <2>2 DEF ToSender
      <3> QED
        BY <1>0, <3>1, <3>2, AppendElements, SMTT(30) DEF PacketsOK
    <2>4. bOpen /\ bOpen' /\ link' = "up"
      BY <1>0, <2>1, ReadDoes
    <2> QED
      BY <1>0, <1>6, <2>1, <2>3, <2>4, ReadDoes DEF PublishQoS1, PublishQoS2, Pubrel
  <1>9. CASE Pingresp
    <2>1. ReadPacket("PINGRESP") /\ keepalive(FALSE)
      BY <1>9 DEF Pingresp
    <2>2. c2b' = c2b \/ c2b' = Append(c2b, [type |-> "PINGREQ"])
      BY <1>0, <2>1, KeepaliveDoes
    <2> QED
      BY <1>0, <1>9, <2>1, <2>2, ReadDoes, PingQueue DEF Pingresp, Numbered
  <1>10. CASE NothingRead
    BY <1>0, <1>10, KeepaliveDoes, PingQueue DEF NothingRead, Numbered, ReceiveTypeOK
  <1>11. CASE ReadError
    BY <1>0, <1>11 DEF ReadError, ReadFails, Close
  <1>12. CASE Network
    BY <1>0, <1>12 DEF Network, Drop, LinkLost
  <1>13. CASE SenderAccept /\ UNCHANGED <<recvVars, histVars>>
    <2>1. SenderTake("CONNECT")
      BY <1>13 DEF SenderAccept
    <2>2. ~bOpen /\ b2c = <<>>
      BY <1>0, <2>1, TakeDoes
    <2>a. \A k \in 1..Len(c2b') : k + 1 \in 1..Len(c2b) /\ c2b'[k] = c2b[k + 1]
      BY <1>0, <2>1, TakeDoes
    <2>3. \A k \in 1..Len(c2b') : c2b'[k].type # "CONNECT"
      BY <1>0, <2>a
    <2>4. b2c' # <<>> => link = "up"
      BY <1>13, <2>2 DEF SenderAccept, SenderReply
    <2> QED
      BY <1>0, <1>13, <2>1, <2>3, <2>4, TakeDoes DEF SenderAccept
  <1>14. ASSUME NEW m \in Msgs, NEW i \in PacketIds, SendPublish(m, i),
                UNCHANGED <<recvVars, histVars>>
         PROVE  ConnInv'
    BY <1>0, <1>14 DEF SendPublish
  <1>15. ASSUME NEW m \in Msgs, SendAgain(m), UNCHANGED <<recvVars, histVars>>
         PROVE  ConnInv'
    BY <1>0, <1>15 DEF SendAgain
  <1>16. ASSUME NEW m \in Msgs, SenderPuback(m) \/ SenderPubcomp(m) \/ SenderPubrec(m),
                UNCHANGED <<recvVars, histVars>>
         PROVE  ConnInv'
    <2>1. PICK t \in {"PUBACK", "PUBCOMP", "PUBREC"} : SenderTake(t)
      BY <1>16 DEF SenderPuback, SenderPubcomp, SenderPubrec
    <2>2. Numbered(c2b[1]) /\ bOpen
      BY <1>0, <2>1, TakeDoes DEF Numbered
    <2>3. bOpen' /\ \A k \in 1..Len(c2b') : c2b'[k].type # "CONNECT"
      BY <1>0, <1>16, <2>1, <2>2, TakeDoes
         DEF SenderPuback, SenderPubcomp, SenderPubrec
    <2>4. b2c' # <<>> => link' = "up"
      BY <1>0, <1>16, <2>1, TakeDoes
         DEF SenderPuback, SenderPubcomp, SenderPubrec, SenderReply
    <2> QED
      BY <1>0, <1>16, <2>3, <2>4
  <1>18. CASE SenderPing /\ UNCHANGED <<recvVars, histVars>>
    <2>1. SenderTake("PINGREQ") /\ UNCHANGED senderVars
      BY <1>18 DEF SenderPing
    <2>2. c2b[1].type = "PINGREQ" /\ c2b # <<>>
      BY <1>0, <2>1, TakeDoes
    <2>3. link = "up" => bOpen
      BY <1>0, <2>2
    <2>4. \A k \in 1..Len(c2b') : c2b'[k].type # "CONNECT"
      BY <1>0, <2>1, TakeDoes
    <2>5. b2c' # <<>> => link = "up"
      BY <1>0, <1>18 DEF SenderPing, SenderReply
    <2> QED
      BY <1>0, <1>18, <2>1, <2>3, <2>4, <2>5, TakeDoes
  <1>19. CASE SenderLosesSession /\ Forgets("broker") /\ UNCHANGED <<recvVars, late>>
    BY <1>0, <1>19 DEF SenderLosesSession, LinkLost
  <1>20. CASE UNCHANGED vars
    BY <1>0, <1>20 DEF vars
  <1> QED
    BY <1>1, <1>2, <1>3, <1>4, <1>5, <1>6, <1>9, <1>10, <1>11, <1>12,
       <1>13, <1>14, <1>15, <1>16, <1>18, <1>19, <1>20
       DEF Next, Client, Sender, SenderStep

(***************************************************************************)
(* The broker's messages                                                   *)
(***************************************************************************)

\* Every packet that carries an id is about a message in flight.
LEMMA OwnMessage ==
    ASSUME PacketsOK, Tells
    PROVE  /\ \A k \in 1..Len(b2c) : Numbered(b2c[k]) =>
                 \E m \in InFlight : bId[m] = b2c[k].id
           /\ \A k \in 1..Len(c2b) : Numbered(c2b[k]) =>
                 \E m \in InFlight : bId[m] = c2b[k].id
  <1>1. ASSUME NEW k \in 1..Len(b2c), Numbered(b2c[k])
        PROVE  \E m \in InFlight : bId[m] = b2c[k].id
    <2>1. b2c[k] \in ToReceiver
      BY DEF PacketsOK
    <2>2. CASE b2c[k].type = "PUBLISH"
      BY <2>1, <2>2, ReceiverFields DEF Tells, TellsClient, InFlight
    <2>3. CASE b2c[k].type = "PUBREL"
      BY <2>3, QoS2MsgsAssumption DEF Tells, TellsClient, InFlight
    <2> QED
      BY <1>1, <2>1, <2>2, <2>3, ReceiverFields
  <1>2. ASSUME NEW k \in 1..Len(c2b), Numbered(c2b[k])
        PROVE  \E m \in InFlight : bId[m] = c2b[k].id
    <2>1. c2b[k] \in ToSender
      BY DEF PacketsOK
    <2>2. c2b[k].type \in {"PUBACK", "PUBREC", "PUBCOMP"}
      BY <1>2, <2>1, SenderFields
    <2> QED
      BY <2>2, QoS2MsgsAssumption DEF Tells, TellsBroker, InFlight
  <1> QED
    BY <1>1, <1>2

\* An acknowledgement the broker reads is about one message: the one it then
\* moves on, which is not one it has still to send again.
LEMMA AckedMessage ==
    ASSUME RInv, NEW t \in {"PUBACK", "PUBREC", "PUBCOMP"}, SenderTake(t),
           NEW m \in InFlight, bId[m] = Head(c2b).id
    PROVE  /\ m \notin bAgain
           /\ t = "PUBACK" => m \notin QoS2Msgs /\ bSt[m] = "sent" /\ delivered[m] >= 1
           /\ t = "PUBREC" => m \in QoS2Msgs /\ bSt[m] = "sent"
           /\ t = "PUBCOMP" => m \in QoS2Msgs /\ bSt[m] = "released"
           /\ Numbered(Head(c2b))
           /\ Free(bId[m], c2b') /\ Free(bId[m], b2c)
  <1>0. PacketsOK /\ SenderInv /\ OneEach /\ Tells
    BY DEF RInv
  <1>1. /\ 1 \in 1..Len(c2b) /\ Head(c2b) = c2b[1] /\ c2b[1].type = t /\ c2b' = Tail(c2b)
        /\ Numbered(c2b[1]) /\ c2b # <<>>
    BY <1>0, TakeDoes DEF Numbered
  <1>2. m \notin bAgain
    BY <1>0, <1>1 DEF OneEach, Free
  <1>3. /\ t = "PUBACK" => m \notin QoS2Msgs /\ bSt[m] = "sent" /\ delivered[m] >= 1
        /\ t = "PUBREC" => m \in QoS2Msgs /\ bSt[m] = "sent"
        /\ t = "PUBCOMP" => m \in QoS2Msgs /\ bSt[m] = "released"
    <2>1. \A n \in InFlight : bId[n] = c2b[1].id => n = m
      BY <1>0, <1>1 DEF SenderInv
    <2>2. \A n \in Msgs : bSt[n] \in {"sent", "released"} => n \in InFlight
      BY DEF InFlight
    <2> QED
      BY <1>0, <1>1, <2>1, <2>2, QoS2MsgsAssumption DEF Tells, TellsBroker
  <1>4. Free(bId[m], c2b') /\ Free(bId[m], b2c)
    BY <1>0, <1>1, TailIds, TailApart DEF OneEach, PacketsOK
  <1> QED
    BY <1>1, <1>2, <1>3, <1>4

LEMMA SenderInvStep == RInv /\ [Next]_vars => SenderInv'
  <1> SUFFICES ASSUME RInv, [Next]_vars
               PROVE  SenderInv'
    OBVIOUS
  <1>0. ReceiveTypeOK /\ PacketsOK /\ SenderInv /\ SenderTypeOK
    BY DEF RInv, ReceiveTypeOK
  <1> USE DEF linkVars, senderVars, confVars, clientVars, recvVars, histVars
  <1>1. CASE UNCHANGED <<bSt, bId, bAgain>>
    BY <1>0, <1>1 DEF SenderInv, InFlight
  <1>2. CASE Client
    <2>1. UNCHANGED <<bSt, bId, bAgain>>
      BY <1>2 DEF Client, Connect, ConnectFails, ConnectFailsWithPublish, CommandFails,
         Connack, PublishQoS1, PublishQoS2, Pubrel, Pingresp, NothingRead, ReadError,
         ReadPacket
    <2> QED
      BY <1>1, <2>1
  <1>3. ASSUME Forget, bAgain' = {}
        PROVE  SenderInv'
    <2>1. InFlight' = {}
      BY <1>0, <1>3, ForgetDoes
    <2>2. \A m \in Msgs : bSt'[m] # "released"
      BY <2>1 DEF InFlight
    <2> QED
      BY <1>3, <2>1, <2>2, FS_EmptySet, WindowAssumption DEF SenderInv
  <1>13. CASE SenderAccept
    <2>1. CASE Forget /\ bAgain' = {}
      BY <1>3, <2>1
    <2>2. CASE UNCHANGED <<bSt, bId>> /\ bAgain' = InFlight
      BY <1>0, <2>2 DEF SenderInv, InFlight
    <2> QED
      BY <1>13, <2>1, <2>2 DEF SenderAccept
  <1>14. ASSUME NEW m \in Msgs, NEW i \in PacketIds, SendPublish(m, i)
         PROVE  SenderInv'
    <2>1. m \notin InFlight /\ InFlight' = InFlight \cup {m}
      BY <1>0, <1>14 DEF SendPublish, InFlight, SenderTypeOK
    <2>2. /\ bId'[m] = i /\ bSt'[m] = "sent"
          /\ \A n \in Msgs : n # m => bId'[n] = bId[n] /\ bSt'[n] = bSt[n]
      BY <1>0, <1>14 DEF SendPublish, SenderTypeOK
    <2>3. \A n \in InFlight : n \in Msgs /\ n # m /\ bId[n] # i
      BY <1>14, <2>1 DEF SendPublish, InFlight
    <2>4. IsFiniteSet(InFlight') /\ Cardinality(InFlight') <= Window
      <3>1. IsFiniteSet(InFlight) /\ Cardinality(InFlight) \in Nat
        BY <1>0, FS_CardinalityType DEF SenderInv
      <3>2. Cardinality(InFlight) < Window
        BY <1>14 DEF SendPublish
      <3> QED
        BY <2>1, <3>1, <3>2, FS_AddElement, WindowAssumption
    <2>5. bAgain' = bAgain
      BY <1>14 DEF SendPublish
    <2>6. \A n \in InFlight' : bId'[n] \in PacketIds
      BY <1>0, <2>1, <2>2, <2>3 DEF SenderInv
    <2>7. \A n, o \in InFlight' : bId'[n] = bId'[o] => n = o
      BY <1>0, <2>1, <2>2, <2>3 DEF SenderInv
    <2>8. \A n \in Msgs : bSt'[n] = "released" => n \in QoS2Msgs
      BY <1>0, <2>2 DEF SenderInv
    <2> QED
      BY <1>0, <2>1, <2>4, <2>5, <2>6, <2>7, <2>8 DEF SenderInv
  <1>15. ASSUME NEW m \in Msgs, SendAgain(m)
         PROVE  SenderInv'
    BY <1>0, <1>15 DEF SendAgain, SenderInv, InFlight
  <1>16. ASSUME NEW m \in Msgs, SenderPuback(m) \/ SenderPubcomp(m)
         PROVE  SenderInv'
    <2>1. PICK t \in {"PUBACK", "PUBCOMP"} : SenderTake(t)
      BY <1>16 DEF SenderPuback, SenderPubcomp
    <2>2. m \in InFlight /\ bId[m] = Head(c2b).id /\ Done(m) /\ bAgain' = bAgain
      BY <1>16 DEF SenderPuback, SenderPubcomp, InFlight
    <2>3. m \notin bAgain
      BY <2>1, <2>2, AckedMessage
    <2>4. /\ bSt'[m] = "done"
          /\ \A n \in Msgs : n # m => bId'[n] = bId[n] /\ bSt'[n] = bSt[n]
      BY <1>0, <2>2 DEF Done, SenderTypeOK
    <2>5. InFlight' = InFlight \ {m}
      BY <2>4 DEF InFlight
    <2>6. IsFiniteSet(InFlight') /\ Cardinality(InFlight') <= Window
      <3>1. IsFiniteSet(InFlight) /\ Cardinality(InFlight) \in Nat
        BY <1>0, FS_CardinalityType DEF SenderInv
      <3>2. IsFiniteSet(InFlight') /\ Cardinality(InFlight') = Cardinality(InFlight) - 1
        BY <2>2, <2>5, <3>1, FS_RemoveElement
      <3>3. Cardinality(InFlight) <= Window
        BY <1>0 DEF SenderInv
      <3> QED
        BY <3>1, <3>2, <3>3, WindowAssumption
    <2>7. \A n \in InFlight' : n \in InFlight /\ bId'[n] = bId[n]
      BY <2>4, <2>5 DEF InFlight
    <2>8. \A n \in Msgs : bSt'[n] = "released" => n \in QoS2Msgs
      BY <1>0, <2>4 DEF SenderInv
    <2> QED
      BY <1>0, <2>2, <2>3, <2>5, <2>6, <2>7, <2>8 DEF SenderInv
  <1>17. ASSUME NEW m \in Msgs, SenderPubrec(m)
         PROVE  SenderInv'
    <2>1. SenderTake("PUBREC") /\ m \in InFlight /\ bId[m] = Head(c2b).id
      BY <1>17 DEF SenderPubrec, InFlight
    <2>2. m \in QoS2Msgs
      BY <2>1, AckedMessage
    <2>3. /\ bSt'[m] = "released"
          /\ \A n \in Msgs : n # m => bSt'[n] = bSt[n]
      BY <1>0, <1>17 DEF SenderPubrec, SenderTypeOK
    <2>4. InFlight' = InFlight /\ bId' = bId /\ bAgain' = bAgain
      BY <1>17, <2>1, <2>3 DEF InFlight, SenderPubrec
    <2> QED
      BY <1>0, <2>2, <2>3, <2>4 DEF SenderInv
  <1>18. CASE SenderPing
    BY <1>1, <1>18 DEF SenderPing
  <1>19. CASE SenderLosesSession
    BY <1>3, <1>19 DEF SenderLosesSession
  <1> QED
    BY <1>1, <1>2, <1>13, <1>14, <1>15, <1>16, <1>17, <1>18, <1>19
       DEF Next, Sender, SenderStep, Network, vars

\* The broker keeps the session of a client that asked for a persistent one, and of
\* no other, until it loses it.
LEMMA KeptStep == RInv /\ [Next]_vars => KeptInv'
  <1> SUFFICES ASSUME RInv, [Next]_vars
               PROVE  KeptInv'
    OBVIOUS
  <1>0. /\ ReceiveTypeOK /\ PacketsOK /\ ConnInv /\ SenderInv /\ KeptInv /\ SenderTypeOK
        /\ usePersistentSession \in BOOLEAN
    BY SessionKindsAssumption DEF RInv, ReceiveTypeOK
  <1> USE DEF linkVars, senderVars, confVars, clientVars, recvVars, histVars, KeptInv
  <1>1. CASE /\ UNCHANGED <<bSt, bAgain, bKept, usePersistentSession>>
             /\ bOpen' => bOpen
             /\ forgotBy \subseteq forgotBy'
    BY <1>0, <1>1 DEF InFlight
  <1>2. CASE Client
    <2>1. CASE Connect
      BY <1>1, <2>1 DEF Connect
    <2>2. CASE ConnectFailsWithPublish \/ CommandFails
      BY <1>0, <1>1, <2>2, ForgetsDoes DEF ConnectFailsWithPublish, CommandFails
    <2>3. CASE UNCHANGED <<senderVars, confVars, forgotBy>>
      BY <1>1, <2>3
    <2> QED
      BY <1>2, <2>1, <2>2, <2>3 DEF Client, ConnectFails, Connack, PublishQoS1,
         PublishQoS2, Pubrel, Pingresp, NothingRead, ReadError, ReadPacket
  <1>13. CASE SenderAccept /\ UNCHANGED <<recvVars, histVars>>
    <2>1. Head(c2b).clean = ~usePersistentSession
      BY <1>0, <1>13, TakeDoes DEF SenderAccept, ConnInv
    <2>2. CASE usePersistentSession
      BY <1>13, <2>1, <2>2 DEF SenderAccept
    <2>3. CASE ~usePersistentSession
      BY <1>13, <2>1, <2>3 DEF SenderAccept
    <2> QED
      BY <2>2, <2>3
  <1>14. ASSUME NEW m \in Msgs, NEW i \in PacketIds, SendPublish(m, i),
                UNCHANGED <<recvVars, histVars>>
         PROVE  KeptInv'
    BY <1>0, <1>14 DEF SendPublish
  <1>15. ASSUME NEW m \in Msgs, SendAgain(m), UNCHANGED <<recvVars, histVars>>
         PROVE  KeptInv'
    BY <1>0, <1>15 DEF SendAgain, InFlight
  <1>16. ASSUME NEW m \in Msgs, SenderPuback(m) \/ SenderPubcomp(m) \/ SenderPubrec(m),
                UNCHANGED <<recvVars, histVars>>
         PROVE  KeptInv'
    <2>1. m \in InFlight
      BY <1>16 DEF SenderPuback, SenderPubcomp, SenderPubrec, InFlight
    <2>2. UNCHANGED <<bAgain, bOpen, bKept>>
      BY <1>16 DEF SenderPuback, SenderPubcomp, SenderPubrec
    <2>3. usePersistentSession /\ ~bKept => "broker" \in forgotBy
      BY <1>0, <2>1
    <2> QED
      BY <1>0, <1>16, <2>2, <2>3
  <1>18. CASE SenderPing /\ UNCHANGED <<recvVars, histVars>>
    BY <1>1, <1>18 DEF SenderPing
  <1>19. CASE SenderLosesSession /\ Forgets("broker") /\ UNCHANGED <<recvVars, late>>
    BY <1>0, <1>19, ForgetsDoes DEF SenderLosesSession
  <1>20. CASE UNCHANGED vars \/ Network
    BY <1>1, <1>20 DEF vars, Network
  <1> QED
    BY <1>2, <1>13, <1>14, <1>15, <1>16, <1>18, <1>19, <1>20
       DEF Next, Sender, SenderStep

(***************************************************************************)
(* One packet for each message in flight                                   *)
(***************************************************************************)

\* cycle answers the packet it has read with the same id, or not at all; a ping
\* carries none.
LEMMA OneRead ==
    ASSUME PacketsOK, OneEach, bAgain' = bAgain, bId' = bId, b2c # <<>>, b2c' = Tail(b2c),
           NEW p \in ToSender, c2b' = c2b \/ c2b' = Append(c2b, p),
           Numbered(p) => Numbered(Head(b2c)) /\ p.id = Head(b2c).id
    PROVE  OneEach'
  <1>1. Distinct(b2c) /\ Distinct(c2b) /\ Apart(b2c, c2b)
    BY DEF OneEach
  <1>2. Distinct(b2c') /\ Apart(b2c', c2b)
    BY <1>1, TailIds, TailApart DEF PacketsOK
  <1>3. Numbered(p) => Free(p.id, b2c') /\ Free(p.id, c2b)
    BY <1>1, TailIds, TailApart DEF PacketsOK
  <1>4. Distinct(c2b') /\ Apart(b2c', c2b')
    BY <1>1, <1>2, <1>3, AppendIds, AppendApart DEF PacketsOK
  <1>5. ASSUME NEW m \in bAgain
        PROVE  Free(bId[m], b2c') /\ Free(bId[m], c2b')
    <2>1. Free(bId[m], b2c) /\ Free(bId[m], c2b)
      BY DEF OneEach
    <2>2. Free(bId[m], b2c') /\ (Numbered(p) => p.id # bId[m])
      BY <2>1, TailIds DEF PacketsOK
    <2> QED
      BY <2>1, <2>2, AppendIds DEF PacketsOK
  <1> QED
    BY <1>2, <1>4, <1>5 DEF OneEach

\* An acknowledgement that is read and a packet that carries the same id or none
\* in answer.
LEMMA OneTaken ==
    ASSUME PacketsOK, OneEach, c2b # <<>>, c2b' = Tail(c2b), bAgain' = bAgain,
           \A m \in bAgain : bId'[m] = bId[m],
           NEW p \in ToReceiver, b2c' = b2c \/ b2c' = Append(b2c, p),
           Numbered(p) => Numbered(Head(c2b)) /\ p.id = Head(c2b).id
    PROVE  OneEach'
  <1>1. Distinct(b2c) /\ Distinct(c2b) /\ Apart(b2c, c2b)
    BY DEF OneEach
  <1>2. Distinct(c2b') /\ Apart(b2c, c2b')
    BY <1>1, TailIds, TailApart DEF PacketsOK
  <1>3. Numbered(p) => Free(p.id, c2b') /\ Free(p.id, b2c)
    BY <1>1, TailIds, TailApart DEF PacketsOK
  <1>4. Distinct(b2c') /\ Apart(b2c', c2b')
    BY <1>1, <1>2, <1>3, AppendIds, AppendApart DEF PacketsOK
  <1>5. ASSUME NEW m \in bAgain
        PROVE  Free(bId'[m], b2c') /\ Free(bId'[m], c2b')
    <2>1. Free(bId[m], b2c) /\ Free(bId[m], c2b)
      BY DEF OneEach
    <2>2. Free(bId[m], c2b') /\ (Numbered(p) => p.id # bId[m])
      BY <2>1, TailIds DEF PacketsOK
    <2>3. Free(bId[m], b2c') /\ Free(bId[m], c2b')
      BY <2>1, <2>2, AppendIds DEF PacketsOK
    <2> QED
      BY <2>3
  <1> QED
    BY <1>2, <1>4, <1>5 DEF OneEach

\* What the client does without reading: a ping at most is added, or the packets
\* to the client are gone.
LEMMA OneUnread ==
    ASSUME PacketsOK, OneEach, UNCHANGED <<bId, bAgain>>, b2c' = b2c \/ b2c' = <<>>,
           \/ c2b' = c2b \/ c2b' = <<>>
           \/ c2b' = Append(c2b, [type |-> "PINGREQ"])
           \/ \E b : c2b' = <<[type |-> "CONNECT", clean |-> b]>>
    PROVE  OneEach'
  <1>1. /\ Distinct(b2c) /\ Distinct(c2b) /\ Apart(b2c, c2b)
        /\ \A m \in bAgain : Free(bId[m], b2c) /\ Free(bId[m], c2b)
    BY DEF OneEach
  <1>2. Distinct(c2b') /\ Apart(b2c, c2b') /\ \A m \in bAgain : Free(bId[m], c2b')
    <2>1. CASE c2b' = c2b
      BY <1>1, <2>1
    <2>2. CASE c2b' = <<>>
      BY <2>2, EmptyIds
    <2>3. CASE c2b' = Append(c2b, [type |-> "PINGREQ"])
      <3> DEFINE e == [type |-> "PINGREQ"]
      <3>1. e \in ToSender /\ ~Numbered(e)
        BY OtherPackets DEF Numbered
      <3> HIDE DEF e
      <3> QED
        BY <1>1, <2>3, <3>1, AppendIds, AppendApart DEF PacketsOK, e
    <2>4. CASE \E b : c2b' = <<[type |-> "CONNECT", clean |-> b]>>
      BY <2>4 DEF Distinct, Apart, Free, Numbered
    <2> QED
      BY <2>1, <2>2, <2>3, <2>4
  <1>3. Distinct(b2c') /\ Apart(b2c', c2b') /\ \A m \in bAgain : Free(bId[m], b2c')
    BY <1>1, <1>2, EmptyIds
  <1> QED
    BY <1>2, <1>3 DEF OneEach

LEMMA OneStep == RInv /\ [Next]_vars => OneEach'
  <1> SUFFICES ASSUME RInv, [Next]_vars
               PROVE  OneEach'
    OBVIOUS
  <1>0. ReceiveTypeOK /\ PacketsOK /\ ConnInv /\ SenderInv /\ OneEach /\ Tells /\ SenderTypeOK
    BY DEF RInv, ReceiveTypeOK
  <1> USE DEF linkVars, senderVars, confVars, clientVars, recvVars, histVars
  <1>1. CASE Connect
    BY <1>0, <1>1, OneUnread DEF Connect
  <1>2. CASE ConnectFails \/ ConnectFailsWithPublish \/ CommandFails \/ ReadError
    BY <1>0, <1>2, OneUnread
       DEF ConnectFails, ConnectFailsWithPublish, CommandFails, ReadError, ReadFails, Close
  <1>5. CASE Connack \/ Pingresp
    <2>1. PICK t \in {"CONNACK", "PINGRESP"} : ReadPacket(t)
      BY <1>5 DEF Connack, Pingresp
    <2>2. c2b' = c2b \/ c2b' = Append(c2b, [type |-> "PINGREQ"])
      BY <1>0, <1>5, KeepaliveDoes DEF Connack, Pingresp, ReceiveTypeOK
    <2> DEFINE p == [type |-> "PINGREQ"]
    <2>3. p \in ToSender /\ ~Numbered(p)
      BY OtherPackets DEF Numbered
    <2> HIDE DEF p
    <2>4. c2b' = c2b \/ c2b' = Append(c2b, p)
      BY <2>2 DEF p
    <2> QED
      BY <1>0, <2>1, <2>3, <2>4, ReadDoes, OneRead
  <1>6. CASE PublishQoS1 \/ PublishQoS2 \/ Pubrel
    <2>1. PICK t \in {"PUBLISH", "PUBREL"}, a \in {"PUBACK", "PUBREC", "PUBCOMP"} :
             ReadPacket(t) /\ Acknowledge(a)
      BY <1>6 DEF PublishQoS1, PublishQoS2, Pubrel, Acknowledge
    <2> DEFINE p == [type |-> a, id |-> Head(b2c).id]
    <2>2. Numbered(Head(b2c)) /\ Head(b2c).id \in PacketIds
      BY <1>0, <2>1, ReadDoes, ReceiverFields DEF Numbered
    <2>3. p \in ToSender /\ p.id = Head(b2c).id
      BY <2>2 DEF ToSender
    <2>4. c2b' = c2b \/ c2b' = Append(c2b, p)
      BY <1>0, <2>1, <2>2, ReadDoes, AcknowledgeDoes
    <2> HIDE DEF p
    <2> QED
      BY <1>0, <2>1, <2>2, <2>3, <2>4, ReadDoes, OneRead
  <1>10. CASE NothingRead
    BY <1>0, <1>10, KeepaliveDoes, OneUnread DEF NothingRead, ReceiveTypeOK
  <1>12. CASE Network
    BY <1>0, <1>12, OneUnread DEF Network, Drop, LinkLost
  <1>13. CASE SenderAccept /\ UNCHANGED <<recvVars, histVars>>
    <2>1. SenderTake("CONNECT")
      BY <1>13 DEF SenderAccept
    <2>2. ~bOpen /\ b2c = <<>>
      BY <1>0, <2>1, TakeDoes DEF ConnInv
    <2>3. \A k \in 1..Len(c2b) : ~Numbered(c2b[k])
      BY <1>0, <2>2 DEF ConnInv
    <2>4. \A k \in 1..Len(c2b') : ~Numbered(c2b'[k])
      BY <1>0, <2>1, <2>3, TakeDoes
    <2>5. \A k \in 1..Len(b2c') : ~Numbered(b2c'[k])
      BY <1>13, <2>2 DEF SenderAccept, SenderReply, Numbered
    <2> QED
      BY <2>4, <2>5 DEF OneEach, Distinct, Apart, Free
  <1>14. ASSUME NEW m \in Msgs, NEW i \in PacketIds, SendPublish(m, i)
         PROVE  OneEach'
    <2> DEFINE p == Publish(m)'
    <2>1. bId'[m] = i /\ bAgain' = {} /\ c2b' = c2b /\ b2c' = Append(b2c, p)
      BY <1>0, <1>14 DEF SendPublish, SenderTypeOK
    <2>2. p.id = i /\ p \in ToReceiver
      BY <2>1, ReceiverPackets DEF Publish
    <2>3. Free(i, b2c) /\ Free(i, c2b)
      BY <1>0, <1>14, OwnMessage DEF SendPublish, Free
    <2> HIDE DEF p
    <2>4. Distinct(b2c') /\ Apart(b2c', c2b)
      BY <1>0, <2>1, <2>2, <2>3, AppendIds, AppendApart DEF OneEach, PacketsOK
    <2> QED
      BY <1>0, <2>1, <2>4 DEF OneEach
  <1>15. ASSUME NEW m \in Msgs, SendAgain(m)
         PROVE  OneEach'
    <2> DEFINE p == IF bSt[m] = "sent" THEN Publish(m)
                    ELSE [type |-> "PUBREL", id |-> bId[m]]
    <2>1. /\ bId' = bId /\ m \in bAgain /\ bAgain' = bAgain \ {m}
          /\ c2b' = c2b /\ b2c' = Append(b2c, p)
      BY <1>15 DEF SendAgain
    <2>2. m \in InFlight /\ bId[m] \in PacketIds
      BY <1>0, <2>1 DEF SenderInv
    <2>3. p.id = bId[m] /\ p \in ToReceiver
      BY <2>2, ReceiverPackets DEF Publish
    <2>4. Free(bId[m], b2c) /\ Free(bId[m], c2b)
      BY <1>0, <2>1 DEF OneEach
    <2> HIDE DEF p
    <2>5. Distinct(b2c') /\ Apart(b2c', c2b)
      BY <1>0, <2>1, <2>3, <2>4, AppendIds, AppendApart DEF OneEach, PacketsOK
    <2>6. ASSUME NEW n \in bAgain'
          PROVE  Free(bId[n], b2c') /\ Free(bId[n], c2b)
      <3>1. bId[n] # bId[m]
        BY <1>0, <2>1, <2>2 DEF SenderInv
      <3>2. Free(bId[n], b2c) /\ Free(bId[n], c2b)
        BY <1>0, <2>1 DEF OneEach
      <3> QED
        BY <1>0, <2>1, <2>3, <3>1, <3>2, AppendIds DEF PacketsOK
    <2> QED
      BY <1>0, <2>1, <2>5, <2>6 DEF OneEach
  <1>16. ASSUME NEW m \in Msgs, SenderPuback(m) \/ SenderPubcomp(m)
         PROVE  OneEach'
    <2>1. PICK t \in {"PUBACK", "PUBCOMP"} : SenderTake(t)
      BY <1>16 DEF SenderPuback, SenderPubcomp
    <2>2. /\ m \in InFlight /\ bId[m] = Head(c2b).id
          /\ Done(m) /\ bAgain' = bAgain /\ b2c' = b2c
      BY <1>16 DEF SenderPuback, SenderPubcomp, InFlight
    <2>3. m \notin bAgain
      BY <2>1, <2>2, AckedMessage
    <2>4. \A n \in bAgain : bId'[n] = bId[n]
      BY <1>0, <2>2, <2>3 DEF Done, SenderTypeOK
    <2> DEFINE p == [type |-> "PINGRESP"]
    <2>5. p \in ToReceiver /\ ~Numbered(p)
      BY OtherPackets DEF Numbered
    <2> HIDE DEF p
    <2> QED
      BY <1>0, <2>1, <2>2, <2>4, <2>5, TakeDoes, OneTaken
  <1>17. ASSUME NEW m \in Msgs, SenderPubrec(m)
         PROVE  OneEach'
    <2> DEFINE p == [type |-> "PUBREL", id |-> bId[m]]
    <2>1. /\ SenderTake("PUBREC") /\ m \in InFlight /\ bId[m] = Head(c2b).id
          /\ SenderReply(p) /\ UNCHANGED <<bId, bAgain>>
      BY <1>17 DEF SenderPubrec, InFlight
    <2>2. p.id = Head(c2b).id /\ p \in ToReceiver
      BY <1>0, <2>1, ReceiverPackets DEF SenderInv
    <2>3. Numbered(Head(c2b))
      BY <2>1, AckedMessage
    <2> HIDE DEF p
    <2>4. b2c' = b2c \/ b2c' = Append(b2c, p)
      BY <2>1 DEF SenderReply
    <2> QED
      BY <1>0, <2>1, <2>2, <2>3, <2>4, TakeDoes, OneTaken
  <1>18. CASE SenderPing
    <2> DEFINE p == [type |-> "PINGRESP"]
    <2>1. SenderTake("PINGREQ") /\ UNCHANGED <<bId, bAgain>> /\ SenderReply(p)
      BY <1>18 DEF SenderPing
    <2>2. p \in ToReceiver /\ ~Numbered(p)
      BY OtherPackets DEF Numbered
    <2> HIDE DEF p
    <2>3. b2c' = b2c \/ b2c' = Append(b2c, p)
      BY <2>1 DEF SenderReply
    <2> QED
      BY <1>0, <2>1, <2>2, <2>3, TakeDoes, OneTaken
  <1>19. CASE SenderLosesSession
    BY <1>19, EmptyIds DEF SenderLosesSession, LinkLost, OneEach
  <1>20. CASE UNCHANGED vars
    BY <1>0, <1>20, OneUnread DEF vars
  <1> QED
    BY <1>1, <1>2, <1>5, <1>6, <1>10, <1>12,
       <1>13, <1>14, <1>15, <1>16, <1>17, <1>18, <1>19, <1>20
       DEF Next, Client, Sender, SenderStep

(***************************************************************************)
(* What the packets tell                                                   *)
(***************************************************************************)

\* A packet goes on telling the truth when a message other than its own moves on.
LEMMA OtherMovesClient ==
    ASSUME NEW p \in ToReceiver, NEW m, NEW st, NEW id, NEW st2, NEW id2,
           \A n \in Msgs : n # m => st2[n] = st[n] /\ id2[n] = id[n],
           Numbered(p) => p.id # id[m],
           TellsClient(p, st, id)
    PROVE  TellsClient(p, st2, id2)
  <1>1. CASE p.type = "PUBLISH"
    BY <1>1, ReceiverFields DEF TellsClient, Numbered
  <1>2. CASE p.type = "PUBREL"
    BY <1>2, QoS2MsgsAssumption DEF TellsClient, Numbered
  <1> QED
    BY <1>1, <1>2 DEF TellsClient

LEMMA OtherMovesBroker ==
    ASSUME NEW p \in ToSender, NEW m, NEW st, NEW id, NEW st2, NEW id2, NEW del,
           \A n \in Msgs : n # m => st2[n] = st[n] /\ id2[n] = id[n],
           Numbered(p) => p.id # id[m],
           TellsBroker(p, st, id, del)
    PROVE  TellsBroker(p, st2, id2, del)
  <1>1. CASE p.type = "PUBACK"
    BY <1>1 DEF TellsBroker, Numbered
  <1>2. CASE p.type = "PUBREC"
    BY <1>2, QoS2MsgsAssumption DEF TellsBroker, Numbered
  <1>3. CASE p.type = "PUBCOMP"
    BY <1>3, QoS2MsgsAssumption DEF TellsBroker, Numbered
  <1> QED
    BY <1>1, <1>2, <1>3 DEF TellsBroker

\* A delivery makes no packet untrue.
LEMMA DeliveryTells ==
    ASSUME NEW p, NEW st, NEW id,
           NEW del \in [Msgs -> 0..2], NEW del2 \in [Msgs -> 0..2],
           \A n \in Msgs : del2[n] >= del[n],
           TellsBroker(p, st, id, del)
    PROVE  TellsBroker(p, st, id, del2)
  <1>1. CASE p.type = "PUBACK"
    <2>1. PICK n \in Msgs \ QoS2Msgs : st[n] = "sent" /\ id[n] = p.id /\ del[n] >= 1
      BY <1>1 DEF TellsBroker
    <2>2. del2[n] >= 1
      BY <2>1
    <2> QED
      BY <1>1, <2>1, <2>2 DEF TellsBroker
  <1> QED
    BY <1>1 DEF TellsBroker

\* A packet without an id tells nothing.
LEMMA NothingTold ==
    ASSUME NEW p, ~Numbered(p), NEW st, NEW id, NEW del
    PROVE  TellsClient(p, st, id) /\ TellsBroker(p, st, id, del)
  BY DEF Numbered, TellsClient, TellsBroker

\* The client reads at most one packet, writes at most one, and delivers.
LEMMA TellsClientStep ==
    ASSUME RInv, UNCHANGED <<bSt, bId>>, delivered' \in [Msgs -> 0..2],
           \A n \in Msgs : delivered'[n] >= delivered[n],
           b2c' = b2c \/ b2c' = <<>> \/ (b2c # <<>> /\ b2c' = Tail(b2c)),
           NEW p \in ToSender, TellsBroker(p, bSt, bId, delivered'),
           c2b' \in {c2b, <<>>, Append(c2b, p), <<p>>}
    PROVE  Tells'
  <1>0. PacketsOK /\ Tells /\ delivered \in [Msgs -> 0..2]
    BY DEF RInv, ReceiveTypeOK
  <1>1. \A k \in 1..Len(b2c') : TellsClient(b2c'[k], bSt, bId)
    <2>1. ASSUME NEW k \in 1..Len(b2c')
          PROVE  \E j \in 1..Len(b2c) : b2c'[k] = b2c[j]
      <3>1. CASE b2c' = b2c
        BY <3>1
      <3>2. CASE b2c' = <<>>
        BY <3>2
      <3>3. CASE b2c # <<>> /\ b2c' = Tail(b2c)
        BY <1>0, <3>3, TailElement DEF PacketsOK
      <3> QED
        BY <3>1, <3>2, <3>3
    <2> QED
      BY <1>0, <2>1 DEF Tells
  <1>2. \A k \in 1..Len(c2b') : TellsBroker(c2b'[k], bSt, bId, delivered')
    <2>1. \A k \in 1..Len(c2b') : \/ \E j \in 1..Len(c2b) : c2b'[k] = c2b[j]
                                  \/ c2b'[k] = p
      <3>1. CASE c2b' = Append(c2b, p)
        BY <1>0, <3>1, AppendElements DEF PacketsOK
      <3>2. CASE c2b' \in {c2b, <<>>, <<p>>}
        BY <3>2
      <3> QED
        BY <3>1, <3>2
    <2>2. ASSUME NEW j \in 1..Len(c2b)
          PROVE  TellsBroker(c2b[j], bSt, bId, delivered')
      <3>1. TellsBroker(c2b[j], bSt, bId, delivered)
        BY <1>0 DEF Tells
      <3> QED
        BY <1>0, <3>1, DeliveryTells, Zenon
    <2> QED
      BY <2>1, <2>2
  <1> QED
    BY <1>1, <1>2 DEF Tells

\* The broker takes the acknowledgement of m, which moves on, and answers it.
LEMMA TellsBrokerStep ==
    ASSUME RInv, ReceiveTypeOK', delivered' = delivered, NEW m \in Msgs,
           \A n \in Msgs : n # m => bSt'[n] = bSt[n] /\ bId'[n] = bId[n],
           c2b # <<>>, c2b' = Tail(c2b), Free(bId[m], c2b'), Free(bId[m], b2c),
           NEW p \in ToReceiver, TellsClient(p, bSt', bId'),
           b2c' = b2c \/ b2c' = Append(b2c, p)
    PROVE  Tells'
  <1>0. PacketsOK /\ Tells /\ delivered \in [Msgs -> 0..2]
    BY DEF RInv, ReceiveTypeOK
  <1>a. \A n \in Msgs : n # m => bSt'[n] = bSt[n] /\ bId'[n] = bId[n]
    OBVIOUS
  <1>1. ASSUME NEW k \in 1..Len(c2b')
        PROVE  TellsBroker(c2b'[k], bSt', bId', delivered)
    <2> DEFINE q == c2b'[k]
    <2>1. PICK j \in 1..Len(c2b) : q = c2b[j]
      BY <1>0, TailElement DEF PacketsOK
    <2>a. q \in ToSender
      BY <1>0, <2>1 DEF PacketsOK
    <2>2. TellsBroker(q, bSt, bId, delivered)
      BY <1>0, <2>1 DEF Tells
    <2>3. Numbered(q) => q.id # bId[m]
      BY DEF Free
    <2> HIDE DEF q
    <2>4. TellsBroker(q, bSt', bId', delivered)
      BY <1>a, <2>a, <2>2, <2>3, OtherMovesBroker
    <2> QED
      BY <2>4 DEF q
  <1>2. ASSUME NEW k \in 1..Len(b2c)
        PROVE  TellsClient(b2c[k], bSt', bId')
    <2> DEFINE q == b2c[k]
    <2>1. TellsClient(q, bSt, bId) /\ q \in ToReceiver
      BY <1>0 DEF Tells, PacketsOK
    <2>2. Numbered(q) => q.id # bId[m]
      BY DEF Free
    <2> HIDE DEF q
    <2>3. TellsClient(q, bSt', bId')
      BY <1>a, <2>1, <2>2, OtherMovesClient
    <2> QED
      BY <2>3 DEF q
  <1>3. \A k \in 1..Len(b2c') : TellsClient(b2c'[k], bSt', bId')
    <2>1. ASSUME NEW k \in 1..Len(b2c')
          PROVE  (\E j \in 1..Len(b2c) : b2c'[k] = b2c[j]) \/ b2c'[k] = p
      BY <1>0, AppendElement, SMTT(30) DEF PacketsOK
    <2> QED
      BY <1>2, <2>1
  <1> QED
    BY <1>1, <1>3 DEF Tells

LEMMA TellsStep == RInv /\ [Next]_vars => Tells'
  <1> SUFFICES ASSUME RInv, [Next]_vars
               PROVE  Tells'
    OBVIOUS
  <1>0. /\ ReceiveTypeOK /\ PacketsOK /\ ConnInv /\ SenderInv /\ OneEach /\ Tells
        /\ SenderTypeOK /\ usePersistentSession \in BOOLEAN
        /\ delivered \in [Msgs -> 0..2] /\ \A n \in Msgs : delivered[n] >= delivered[n]
    BY SessionKindsAssumption DEF RInv, ReceiveTypeOK
  <1>t. ReceiveTypeOK'
    BY TypeStep
  <1> USE DEF linkVars, senderVars, confVars, clientVars, recvVars, histVars
  <1> DEFINE ping == [type |-> "PINGREQ"]
             connect == [type |-> "CONNECT", clean |-> ~usePersistentSession]
  <1>p. ping \in ToSender /\ TellsBroker(ping, bSt, bId, delivered)
    BY OtherPackets, NothingTold DEF Numbered
  <1>c. connect \in ToSender /\ TellsBroker(connect, bSt, bId, delivered)
    BY <1>0, OtherPackets, NothingTold DEF Numbered
  <1>1. CASE Connect
    <2>1. UNCHANGED <<bSt, bId, delivered>> /\ b2c' = <<>> /\ c2b' = <<connect>>
      BY <1>1 DEF Connect
    <2> HIDE DEF connect
    <2> QED
      BY <1>0, <1>c, <2>1, TellsClientStep
  <1>u. ASSUME UNCHANGED <<bSt, bId, delivered>>, NEW t, ReadPacket(t) \/ b2c' = b2c \/ b2c' = <<>>,
               c2b' = c2b \/ c2b' = <<>> \/ c2b' = Append(c2b, ping)
        PROVE  Tells'
    <2>1. b2c' = b2c \/ b2c' = <<>> \/ (b2c # <<>> /\ b2c' = Tail(b2c))
      BY <1>0, <1>u, ReadDoes
    <2> HIDE DEF ping
    <2> QED
      BY <1>0, <1>p, <1>u, <2>1, TellsClientStep
  <1>2. CASE ConnectFails \/ ConnectFailsWithPublish \/ CommandFails \/ ReadError
    BY <1>2, <1>u
       DEF ConnectFails, ConnectFailsWithPublish, CommandFails, ReadError, ReadFails, Close
  <1>5. CASE Connack \/ Pingresp
    <2>1. PICK t \in {"CONNACK", "PINGRESP"} : ReadPacket(t)
      BY <1>5 DEF Connack, Pingresp
    <2>2. c2b' = c2b \/ c2b' = Append(c2b, [type |-> "PINGREQ"])
      BY <1>0, <1>5, KeepaliveDoes DEF Connack, Pingresp, ReceiveTypeOK
    <2>3. UNCHANGED <<bSt, bId, delivered>>
      BY <1>0, <1>5, <2>1, ReadDoes DEF Connack, Pingresp
    <2> QED
      BY <1>u, <2>1, <2>2, <2>3
  <1>6. ASSUME PublishQoS1 \/ PublishQoS2 \/ Pubrel
        PROVE  Tells'
    <2>1. PICK t \in {"PUBLISH", "PUBREL"}, a \in {"PUBACK", "PUBREC", "PUBCOMP"} :
             /\ ReadPacket(t) /\ Acknowledge(a)
             /\ t = "PUBLISH" /\ PublishQoS1 => a = "PUBACK" /\ ~Head(b2c).qos2
             /\ a = "PUBACK" => t = "PUBLISH" /\ ~Head(b2c).qos2
                                /\ deliverMessage(Head(b2c).msg)
             /\ a = "PUBREC" => t = "PUBLISH" /\ Head(b2c).qos2
             /\ a = "PUBCOMP" => t = "PUBREL"
      <3>1. CASE PublishQoS1
        BY <3>1 DEF PublishQoS1
      <3>2. CASE PublishQoS2
        BY <3>2 DEF PublishQoS2, PublishQoS1
      <3>3. CASE Pubrel
        BY <3>3 DEF Pubrel, Acknowledge
      <3> QED
        BY <1>6, <3>1, <3>2, <3>3
    <2> DEFINE h == Head(b2c)
               p == [type |-> a, id |-> h.id]
    <2>2. /\ h \in ToReceiver /\ h.type = t /\ h.id \in PacketIds
          /\ t = "PUBLISH" => h.msg \in Msgs
          /\ TellsClient(h, bSt, bId)
          /\ b2c # <<>> /\ b2c' = Tail(b2c) /\ UNCHANGED <<bSt, bId>>
      BY <1>0, <2>1, ReadDoes, ReceiverFields DEF Numbered, Tells
    <2>3. c2b' = c2b \/ c2b' = Append(c2b, p)
      BY <1>0, <2>1, <2>2, ReadDoes, AcknowledgeDoes
    <2>4. p \in ToSender /\ p.type = a /\ p.id = h.id
      BY <2>2 DEF ToSender
    <2>5. delivered' \in [Msgs -> 0..2] /\ \A n \in Msgs : delivered'[n] >= delivered[n]
      <3>1. delivered' = delivered \/ (t = "PUBLISH" /\ deliverMessage(h.msg))
        <4>1. CASE PublishQoS1
          BY <2>1, <4>1 DEF PublishQoS1, ReadPacket
        <4>2. CASE PublishQoS2
          BY <2>1, <4>2 DEF PublishQoS2, ReadPacket
        <4>3. CASE Pubrel
          BY <4>3 DEF Pubrel
        <4> QED
          BY <1>6, <4>1, <4>2, <4>3
      <3> HIDE DEF h
      <3> QED
        BY <1>0, <2>2, <3>1, DeliverDoes
    <2>6. TellsBroker(p, bSt, bId, delivered')
      <3> HIDE DEF p
      <3>1. CASE a = "PUBACK"
        <4>1. h.msg \in Msgs \ QoS2Msgs /\ bSt[h.msg] = "sent" /\ bId[h.msg] = p.id
          BY <2>1, <2>2, <2>4, <3>1 DEF TellsClient
        <4>2. delivered'[h.msg] >= 1
          BY <1>0, <2>1, <2>2, <3>1, DeliverDoes
        <4> QED
          BY <2>4, <3>1, <4>1, <4>2 DEF TellsBroker
      <3>2. CASE a = "PUBREC"
        BY <2>1, <2>2, <2>4, <3>2 DEF TellsBroker, TellsClient
      <3>3. CASE a = "PUBCOMP"
        BY <2>1, <2>2, <2>4, <3>3 DEF TellsBroker, TellsClient
      <3> QED
        BY <2>1, <3>1, <3>2, <3>3
    <2> HIDE DEF p
    <2> QED
      BY <2>2, <2>3, <2>4, <2>5, <2>6, TellsClientStep
  <1>10. CASE NothingRead
    <2>1. c2b' = c2b \/ c2b' = Append(c2b, ping)
      BY <1>0, <1>10, KeepaliveDoes DEF NothingRead, ReceiveTypeOK
    <2>2. UNCHANGED <<bSt, bId, delivered, b2c>>
      BY <1>10 DEF NothingRead
    <2> QED
      BY <1>u, <2>1, <2>2
  <1>12. CASE Network
    BY <1>12, <1>u DEF Network, Drop, LinkLost
  <1>13. CASE SenderAccept /\ UNCHANGED <<recvVars, histVars>>
    <2>1. SenderTake("CONNECT")
      BY <1>13 DEF SenderAccept
    <2>2. ~bOpen /\ b2c = <<>>
      BY <1>0, <2>1, TakeDoes DEF ConnInv
    <2>3. \A k \in 1..Len(c2b) : ~Numbered(c2b[k])
      BY <1>0, <2>2 DEF ConnInv
    <2>4. \A k \in 1..Len(c2b') : ~Numbered(c2b'[k])
      BY <1>0, <2>1, <2>3, TakeDoes
    <2>5. \A k \in 1..Len(b2c') : ~Numbered(b2c'[k])
      BY <1>13, <2>2 DEF SenderAccept, SenderReply, Numbered
    <2> QED
      BY <2>4, <2>5, NothingTold DEF Tells
  <1>14. ASSUME NEW m \in Msgs, NEW i \in PacketIds, SendPublish(m, i),
                UNCHANGED <<recvVars, histVars>>
         PROVE  Tells'
    <2> DEFINE p == Publish(m)'
    <2>1. /\ bId'[m] = i /\ bSt'[m] = "sent" /\ c2b' = c2b /\ b2c' = Append(b2c, p)
          /\ \A n \in Msgs : n # m => bSt'[n] = bSt[n] /\ bId'[n] = bId[n]
          /\ m \notin InFlight /\ delivered' = delivered
      BY <1>0, <1>14 DEF SendPublish, SenderTypeOK, InFlight
    <2>2. p \in ToReceiver /\ TellsClient(p, bSt', bId')
      BY <2>1, ReceiverPackets DEF Publish, TellsClient
    <2> HIDE DEF p
    <2>3. ASSUME NEW k \in 1..Len(b2c)
          PROVE  TellsClient(b2c[k], bSt', bId')
      <3>1. TellsClient(b2c[k], bSt, bId) /\ b2c[k] \in ToReceiver
        BY <1>0 DEF Tells, PacketsOK
      <3>2. bSt[m] \notin {"sent", "released"}
        BY <2>1 DEF InFlight
      <3> QED
        BY <2>1, <3>1, <3>2, ReceiverFields, QoS2MsgsAssumption DEF TellsClient
    <2>4. ASSUME NEW k \in 1..Len(c2b)
          PROVE  TellsBroker(c2b[k], bSt', bId', delivered)
      <3>1. TellsBroker(c2b[k], bSt, bId, delivered)
        BY <1>0 DEF Tells
      <3>2. bSt[m] \notin {"sent", "released"}
        BY <2>1 DEF InFlight
      <3> QED
        BY <2>1, <3>1, <3>2, QoS2MsgsAssumption DEF TellsBroker
    <2>5. ASSUME NEW k \in 1..Len(b2c')
          PROVE  (\E j \in 1..Len(b2c) : b2c'[k] = b2c[j]) \/ b2c'[k] = p
      BY <1>0, <2>1, <2>2, AppendElement DEF PacketsOK
    <2>6. \A k \in 1..Len(b2c') : TellsClient(b2c'[k], bSt', bId')
      BY <2>2, <2>3, <2>5
    <2> QED
      BY <2>1, <2>4, <2>6 DEF Tells
  <1>15. ASSUME NEW m \in Msgs, SendAgain(m), UNCHANGED <<recvVars, histVars>>
         PROVE  Tells'
    <2> DEFINE p == IF bSt[m] = "sent" THEN Publish(m)
                    ELSE [type |-> "PUBREL", id |-> bId[m]]
    <2>1. /\ UNCHANGED <<bSt, bId, delivered>> /\ c2b' = c2b /\ b2c' = Append(b2c, p)
          /\ m \in InFlight
      BY <1>0, <1>15 DEF SendAgain, SenderInv
    <2>2. bId[m] \in PacketIds /\ (bSt[m] = "sent" \/ (bSt[m] = "released" /\ m \in QoS2Msgs))
      BY <1>0, <2>1 DEF SenderInv, InFlight
    <2>3. p \in ToReceiver
      BY <2>2, ReceiverPackets DEF Publish
    <2>4. TellsClient(p, bSt, bId)
      BY <2>2 DEF TellsClient, Publish
    <2> HIDE DEF p
    <2>5. ASSUME NEW k \in 1..Len(b2c')
          PROVE  (\E j \in 1..Len(b2c) : b2c'[k] = b2c[j]) \/ b2c'[k] = p
      BY <1>0, <2>1, <2>3, AppendElement DEF PacketsOK
    <2>6. \A k \in 1..Len(b2c') : TellsClient(b2c'[k], bSt, bId)
      BY <1>0, <2>4, <2>5 DEF Tells
    <2> QED
      BY <1>0, <2>1, <2>6 DEF Tells
  <1>16. ASSUME NEW m \in Msgs, SenderPuback(m) \/ SenderPubcomp(m),
                UNCHANGED <<recvVars, histVars>>
         PROVE  Tells'
    <2>1. PICK t \in {"PUBACK", "PUBCOMP"} : SenderTake(t)
      BY <1>16 DEF SenderPuback, SenderPubcomp
    <2>2. /\ m \in InFlight /\ bId[m] = Head(c2b).id
          /\ Done(m) /\ b2c' = b2c /\ delivered' = delivered
      BY <1>16 DEF SenderPuback, SenderPubcomp, InFlight
    <2>3. Free(bId[m], c2b') /\ Free(bId[m], b2c) /\ c2b # <<>> /\ c2b' = Tail(c2b)
      BY <1>0, <2>1, <2>2, AckedMessage, TakeDoes
    <2>4. \A n \in Msgs : n # m => bSt'[n] = bSt[n] /\ bId'[n] = bId[n]
      BY <1>0, <2>2 DEF Done, SenderTypeOK
    <2> DEFINE p == [type |-> "PINGRESP"]
    <2>5. p \in ToReceiver /\ TellsClient(p, bSt', bId')
      BY OtherPackets, NothingTold DEF Numbered
    <2> HIDE DEF p
    <2> QED
      BY <1>t, <2>2, <2>3, <2>4, <2>5, TellsBrokerStep
  <1>17. ASSUME NEW m \in Msgs, SenderPubrec(m), UNCHANGED <<recvVars, histVars>>
         PROVE  Tells'
    <2> DEFINE p == [type |-> "PUBREL", id |-> bId[m]]
    <2>1. /\ SenderTake("PUBREC") /\ m \in InFlight /\ bId[m] = Head(c2b).id
          /\ SenderReply(p) /\ bId' = bId /\ delivered' = delivered
      BY <1>17 DEF SenderPubrec, InFlight
    <2>2. p \in ToReceiver
      BY <1>0, <2>1, ReceiverPackets DEF SenderInv
    <2>3. /\ m \in QoS2Msgs /\ Free(bId[m], c2b') /\ Free(bId[m], b2c)
          /\ c2b # <<>> /\ c2b' = Tail(c2b)
      BY <1>0, <2>1, AckedMessage, TakeDoes
    <2>4. bSt'[m] = "released" /\ \A n \in Msgs : n # m => bSt'[n] = bSt[n] /\ bId'[n] = bId[n]
      BY <1>0, <1>17 DEF SenderPubrec, SenderTypeOK
    <2>5. TellsClient(p, bSt', bId')
      BY <2>1, <2>3, <2>4 DEF TellsClient
    <2> HIDE DEF p
    <2>6. b2c' = b2c \/ b2c' = Append(b2c, p)
      BY <2>1 DEF SenderReply
    <2> QED
      BY <1>t, <2>1, <2>2, <2>3, <2>4, <2>5, <2>6, TellsBrokerStep
  <1>18. CASE SenderPing /\ UNCHANGED <<recvVars, histVars>>
    <2> DEFINE p == [type |-> "PINGRESP"]
    <2>1. /\ SenderTake("PINGREQ") /\ SenderReply(p)
          /\ UNCHANGED <<bSt, bId, delivered>>
      BY <1>18 DEF SenderPing
    <2>2. p \in ToReceiver /\ TellsClient(p, bSt, bId)
      BY OtherPackets, NothingTold DEF Numbered
    <2> HIDE DEF p
    <2>3. b2c' = b2c \/ b2c' = Append(b2c, p)
      BY <2>1 DEF SenderReply
    <2>4. ASSUME NEW k \in 1..Len(b2c')
          PROVE  (\E j \in 1..Len(b2c) : b2c'[k] = b2c[j]) \/ b2c'[k] = p
      BY <1>0, <2>2, <2>3, AppendElement DEF PacketsOK
    <2>5. ASSUME NEW k \in 1..Len(c2b')
          PROVE  \E j \in 1..Len(c2b) : c2b'[k] = c2b[j]
      BY <1>0, <2>1, TakeDoes
    <2>6. \A k \in 1..Len(b2c') : TellsClient(b2c'[k], bSt, bId)
      BY <1>0, <2>2, <2>4 DEF Tells
    <2>7. \A k \in 1..Len(c2b') : TellsBroker(c2b'[k], bSt, bId, delivered)
      BY <1>0, <2>5 DEF Tells
    <2> QED
      BY <2>1, <2>6, <2>7 DEF Tells
  <1>19. CASE SenderLosesSession
    BY <1>19 DEF SenderLosesSession, LinkLost, Tells
  <1>20. CASE UNCHANGED vars
    BY <1>20, <1>u DEF vars
  <1> QED
    BY <1>1, <1>2, <1>5, <1>6, <1>10, <1>12,
       <1>13, <1>14, <1>15, <1>16, <1>17, <1>18, <1>19, <1>20
       DEF Next, Client, Sender, SenderStep

(***************************************************************************)
(* The table                                                               *)
(***************************************************************************)

\* An empty table claims nothing.
LEMMA TableCleared ==
    ASSUME PacketsOK', incomingQoS2messages' = NoIds
    PROVE  TableInv'
  <1>1. \A s \in Slots : incomingQoS2messages'[s] = 0
    BY DEF NoIds
  <1>3. \A k \in 1..Len(c2b') : c2b'[k].type = "PUBCOMP" =>
           ~Holds(incomingQoS2messages', c2b'[k].id)
    <2> SUFFICES ASSUME NEW k \in 1..Len(c2b'), c2b'[k].type = "PUBCOMP"
                 PROVE  ~Holds(incomingQoS2messages', c2b'[k].id)
      OBVIOUS
    <2>1. c2b'[k].id \in PacketIds
      BY SenderFields DEF PacketsOK, Numbered
    <2> QED
      BY <1>1, <2>1 DEF Holds, PacketIds
  <1> QED
    BY <1>1, <1>3 DEF TableInv

\* A step that changes neither the table nor the messages in it, and adds no
\* PUBCOMP.
LEMMA TableSame ==
    ASSUME TableInv, UNCHANGED <<incomingQoS2messages, usePersistentSession>>,
           isconnected => isconnected' \/ usePersistentSession,
           "broker" \notin forgotBy' => "broker" \notin forgotBy,
           \A m \in QoS2Msgs :
               m \in InFlight /\ delivered[m] >= 1 /\ Holds(incomingQoS2messages, bId[m]) =>
                   m \in InFlight' /\ delivered'[m] >= 1 /\ bId'[m] = bId[m],
           \A k \in 1..Len(c2b') : c2b'[k].type = "PUBCOMP" =>
               \E j \in 1..Len(c2b) : c2b'[k] = c2b[j]
    PROVE  TableInv'
  <1>2. \A k \in 1..Len(c2b') : c2b'[k].type = "PUBCOMP" =>
           ~Holds(incomingQoS2messages', c2b'[k].id)
    BY DEF TableInv, Holds
  <1>3. ASSUME "broker" \notin forgotBy', NEW s \in Slots, incomingQoS2messages'[s] # 0
        PROVE  \E m \in QoS2Msgs \cap InFlight' :
                  bId'[m] = incomingQoS2messages'[s] /\ delivered'[m] >= 1
    <2>1. PICK m \in QoS2Msgs \cap InFlight :
             bId[m] = incomingQoS2messages[s] /\ delivered[m] >= 1
      BY <1>3 DEF TableInv
    <2>2. Holds(incomingQoS2messages, bId[m])
      BY <2>1 DEF Holds
    <2> QED
      BY <2>1, <2>2
  <1> QED
    BY <1>2, <1>3 DEF TableInv

LEMMA TableStep == RInv /\ [Next]_vars => TableInv'
  <1> SUFFICES ASSUME RInv, [Next]_vars
               PROVE  TableInv'
    OBVIOUS
  <1>0. /\ ReceiveTypeOK /\ PacketsOK /\ ConnInv /\ SenderInv /\ KeptInv /\ OneEach /\ Tells
        /\ TableInv /\ OwnPlaces /\ SenderTypeOK /\ usePersistentSession \in BOOLEAN
        /\ delivered \in [Msgs -> 0..2]
    BY SessionKindsAssumption DEF RInv, ReceiveTypeOK, TableInv, OwnPlaces
  <1>t. PacketsOK'
    BY TypeStep
  <1> USE DEF linkVars, senderVars, confVars, clientVars, recvVars, histVars
  <1>u. ASSUME UNCHANGED <<incomingQoS2messages, usePersistentSession, bSt, bId, delivered>>,
               isconnected => isconnected' \/ usePersistentSession,
               "broker" \notin forgotBy' => "broker" \notin forgotBy,
               \/ c2b' = c2b \/ c2b' = Append(c2b, [type |-> "PINGREQ"])
               \/ \A k \in 1..Len(c2b') : c2b'[k].type # "PUBCOMP"
        PROVE  TableInv'
    <2>1. \A k \in 1..Len(c2b') : c2b'[k].type = "PUBCOMP" =>
             \E j \in 1..Len(c2b) : c2b'[k] = c2b[j]
      BY <1>0, <1>u, PingQueue
    <2>2. InFlight' = InFlight
      BY <1>u DEF InFlight
    <2> QED
      BY <1>0, <1>u, <2>1, <2>2, TableSame
  <1>1. CASE Connect
    <2>1. CASE incomingQoS2messages' = NoIds
      BY <1>t, <2>1, TableCleared
    <2>2. CASE incomingQoS2messages' # NoIds
      <3>1. /\ incomingQoS2messages' = incomingQoS2messages
            /\ isconnected => usePersistentSession
        BY <1>0, <1>1, <2>2, CleanDoes DEF Connect
      <3>2. \A k \in 1..Len(c2b') : c2b'[k].type # "PUBCOMP"
        BY <1>1 DEF Connect
      <3> QED
        BY <1>1, <1>u, <3>1, <3>2 DEF Connect
    <2> QED
      BY <2>1, <2>2
  <1>2. CASE ConnectFails \/ ReadError
    BY <1>2, <1>u DEF ConnectFails, ReadError, ReadFails, Close
  <1>3. CASE ConnectFailsWithPublish \/ CommandFails
    BY <1>3, <1>t, TableCleared DEF ConnectFailsWithPublish, CommandFails, cleanSession
  <1>5. CASE Connack \/ Pingresp
    <2>1. PICK t \in {"CONNACK", "PINGRESP"} : ReadPacket(t)
      BY <1>5 DEF Connack, Pingresp
    <2>2. c2b' = c2b \/ c2b' = Append(c2b, [type |-> "PINGREQ"])
      BY <1>0, <1>5, KeepaliveDoes DEF Connack, Pingresp, ReceiveTypeOK
    <2>3. UNCHANGED <<bSt, bId, delivered, incomingQoS2messages, usePersistentSession, forgotBy>>
      BY <1>0, <1>5, <2>1, ReadDoes DEF Connack, Pingresp
    <2>4. isconnected => isconnected'
      BY <1>5 DEF Connack, Pingresp
    <2> QED
      BY <1>u, <2>2, <2>3, <2>4
  <1>6. ASSUME NEW t \in {"PUBLISH", "PUBREL"}, NEW a \in {"PUBACK", "PUBREC", "PUBCOMP"},
               ReadPacket(t), Acknowledge(a)
        PROVE  /\ Head(b2c) \in ToReceiver /\ TellsClient(Head(b2c), bSt, bId)
               /\ Head(b2c).id \in PacketIds /\ Head(b2c).type = t
               /\ Free(Head(b2c).id, c2b)
               /\ \A k \in 1..Len(c2b') :
                     \/ \E j \in 1..Len(c2b) : c2b'[k] = c2b[j]
                     \/ c2b'[k] = [type |-> a, id |-> Head(b2c).id]
               /\ UNCHANGED <<bSt, bId, usePersistentSession, forgotBy>>
               /\ InFlight' = InFlight
    <2>1. /\ Head(b2c) \in ToReceiver /\ TellsClient(Head(b2c), bSt, bId)
          /\ Head(b2c).id \in PacketIds /\ Head(b2c).type = t /\ Numbered(Head(b2c))
          /\ UNCHANGED <<bSt, bId, usePersistentSession, forgotBy>>
      BY <1>0, <1>6, ReadDoes, ReceiverFields DEF Tells, Numbered
    <2>2. Free(Head(b2c).id, c2b)
      BY <1>0, <1>6, <2>1, ReadDoes, TailApart DEF OneEach, PacketsOK
    <2> DEFINE p == [type |-> a, id |-> Head(b2c).id]
    <2>3. p \in ToSender /\ (c2b' = c2b \/ c2b' = Append(c2b, p))
      BY <1>0, <1>6, <2>1, ReadDoes, AcknowledgeDoes DEF ToSender
    <2> HIDE DEF p
    <2>4. ASSUME NEW k \in 1..Len(c2b')
          PROVE  (\E j \in 1..Len(c2b) : c2b'[k] = c2b[j]) \/ c2b'[k] = p
      <3>1. CASE c2b' = c2b
        BY <3>1
      <3>2. CASE c2b' = Append(c2b, p)
        BY <1>0, <2>3, <3>2, AppendElement DEF PacketsOK
      <3> QED
        BY <2>3, <3>1, <3>2
    <2> QED
      BY <2>1, <2>2, <2>4 DEF p, InFlight
  <1>7. CASE PublishQoS1
    <2>1. /\ ReadPacket("PUBLISH") /\ Acknowledge("PUBACK") /\ deliverMessage(Head(b2c).msg)
          /\ UNCHANGED <<isconnected, incomingQoS2messages>>
      BY <1>7 DEF PublishQoS1
    <2>2. \A n \in Msgs : delivered[n] >= 1 => delivered'[n] >= 1
      BY <1>0, <1>6, <2>1, DeliverDoes, ReceiverFields
    <2>3. \A k \in 1..Len(c2b') : c2b'[k].type = "PUBCOMP" =>
             \E j \in 1..Len(c2b) : c2b'[k] = c2b[j]
      BY <1>6, <2>1
    <2>4. UNCHANGED <<bSt, bId, usePersistentSession, forgotBy>> /\ InFlight' = InFlight
      BY <1>6, <2>1
    <2> QED
      BY <1>0, <2>1, <2>2, <2>3, <2>4, QoS2MsgsAssumption, TableSame
  <1>8. CASE PublishQoS2
    <2> DEFINE h == Head(b2c)
    <2>1. ReadPacket("PUBLISH") /\ Acknowledge("PUBREC") /\ h.qos2 /\ isconnected' = isconnected
      BY <1>8 DEF PublishQoS2
    <2>2. /\ h \in ToReceiver /\ h.type = "PUBLISH" /\ TellsClient(h, bSt, bId)
          /\ h.id \in PacketIds /\ Free(h.id, c2b)
          /\ UNCHANGED <<bSt, bId, usePersistentSession, forgotBy>> /\ InFlight' = InFlight
      BY <1>6, <2>1
    <2>3. \A k \in 1..Len(c2b') : c2b'[k].type = "PUBCOMP" =>
             \E j \in 1..Len(c2b) : c2b'[k] = c2b[j]
      BY <1>6, <2>1
    <2>4. CASE ~(isQoS2msgidFree(h.id) /\ ~TableFull)
      <3>1. UNCHANGED <<incomingQoS2messages, delivered>>
        BY <1>8, <2>4 DEF PublishQoS2
      <3> QED
        BY <1>0, <2>1, <2>2, <2>3, <3>1, TableSame
    <2>5. CASE isQoS2msgidFree(h.id) /\ ~TableFull
      <3>1. useQoS2msgid(h.id) /\ deliverMessage(h.msg)
        BY <1>8, <2>5 DEF PublishQoS2
      <3> HIDE DEF h
      <3>2. /\ OwnPlaces'
            /\ \A s \in Slots :
                 \/ incomingQoS2messages'[s] = incomingQoS2messages[s]
                 \/ incomingQoS2messages[s] = 0 /\ incomingQoS2messages'[s] = h.id
        BY <1>0, <2>2, <2>5, <3>1, UseDoes
      <3>3. /\ h.msg \in QoS2Msgs \cap InFlight /\ h.msg \in Msgs /\ bId[h.msg] = h.id
        BY <2>1, <2>2, ReceiverFields DEF TellsClient, InFlight
      <3>4. delivered'[h.msg] >= 1 /\ \A n \in Msgs : delivered[n] >= 1 => delivered'[n] >= 1
        BY <1>0, <3>1, <3>3, DeliverDoes
      <3>5. ASSUME "broker" \notin forgotBy', NEW s \in Slots, incomingQoS2messages'[s] # 0
            PROVE  \E m \in QoS2Msgs \cap InFlight' :
                      bId'[m] = incomingQoS2messages'[s] /\ delivered'[m] >= 1
        <4>1. CASE incomingQoS2messages'[s] = h.id
          BY <2>2, <3>3, <3>4, <4>1
        <4>2. CASE incomingQoS2messages'[s] = incomingQoS2messages[s]
          <5>1. PICK m \in QoS2Msgs \cap InFlight :
                   bId[m] = incomingQoS2messages[s] /\ delivered[m] >= 1
            BY <1>0, <2>2, <3>5, <4>2 DEF TableInv
          <5> QED
            BY <2>2, <3>4, <4>2, <5>1, QoS2MsgsAssumption
        <4> QED
          BY <3>2, <4>1, <4>2
      <3>6. ASSUME NEW k \in 1..Len(c2b'), c2b'[k].type = "PUBCOMP"
            PROVE  \A s \in Slots : incomingQoS2messages'[s] # c2b'[k].id
        <4>1. PICK j \in 1..Len(c2b) : c2b'[k] = c2b[j]
          BY <2>3, <3>6
        <4>2. c2b[j].type = "PUBCOMP" /\ c2b[j].id # h.id
          BY <2>2, <3>6, <4>1 DEF Free, Numbered
        <4>3. \A s \in Slots : incomingQoS2messages[s] # c2b[j].id
          BY <1>0, <4>2 DEF TableInv, Holds
        <4> QED
          BY <3>2, <4>1, <4>2, <4>3
      <3>7. ~usePersistentSession' => isconnected'
        BY <1>8, <2>1 DEF PublishQoS2
      <3> QED
        BY <3>2, <3>5, <3>6, <3>7 DEF TableInv, OwnPlaces, Holds
    <2> QED
      BY <2>4, <2>5
  <1>9. CASE Pubrel
    <2> DEFINE h == Head(b2c)
    <2>1. ReadPacket("PUBREL") /\ Acknowledge("PUBCOMP") /\ UNCHANGED <<isconnected, delivered>>
      BY <1>9 DEF Pubrel, Acknowledge
    <2>2. /\ h.id \in PacketIds /\ Free(h.id, c2b)
          /\ UNCHANGED <<bSt, bId, usePersistentSession, forgotBy>> /\ InFlight' = InFlight
      BY <1>6, <2>1
    <2>3. CASE TooLate /\ UNCHANGED incomingQoS2messages
      BY <1>0, <1>u, <2>1, <2>2, <2>3 DEF TooLate
    <2>4. CASE freeQoS2msgid(h.id)
      <3>1. \A k \in 1..Len(c2b') :
              (\E j \in 1..Len(c2b) : c2b'[k] = c2b[j]) \/ c2b'[k].id = h.id
        BY <1>6, <2>1
      <3> HIDE DEF h
      <3>2. /\ OwnPlaces' /\ ~Holds(incomingQoS2messages', h.id)
            /\ \A s \in Slots :
                 \/ incomingQoS2messages'[s] = incomingQoS2messages[s]
                 \/ incomingQoS2messages[s] = h.id /\ incomingQoS2messages'[s] = 0
        BY <1>0, <2>2, <2>4, FreeDoes
      <3>3. ASSUME NEW k \in 1..Len(c2b'), c2b'[k].type = "PUBCOMP"
            PROVE  \A s \in Slots : incomingQoS2messages'[s] # c2b'[k].id
        <4>1. CASE c2b'[k].id = h.id
          BY <3>2, <4>1 DEF Holds
        <4>2. CASE c2b'[k].id # h.id
          <5>1. PICK j \in 1..Len(c2b) : c2b'[k] = c2b[j]
            BY <3>1, <4>2
          <5>2. c2b[j].id \in PacketIds
            BY <1>0, <3>3, <5>1, SenderFields DEF PacketsOK, Numbered
          <5>3. \A s \in Slots : incomingQoS2messages[s] # c2b[j].id
            BY <1>0, <3>3, <5>1 DEF TableInv, Holds
          <5> QED
            BY <3>2, <5>1, <5>2, <5>3 DEF PacketIds
        <4> QED
          BY <4>1, <4>2
      <3>4. ASSUME "broker" \notin forgotBy', NEW s \in Slots, incomingQoS2messages'[s] # 0
            PROVE  \E m \in QoS2Msgs \cap InFlight' :
                      bId'[m] = incomingQoS2messages'[s] /\ delivered'[m] >= 1
        BY <1>0, <2>1, <2>2, <3>2, <3>4 DEF TableInv
      <3>5. ~usePersistentSession' => isconnected'
        BY <1>9 DEF Pubrel
      <3> QED
        BY <3>2, <3>3, <3>4, <3>5 DEF TableInv, OwnPlaces, Holds
    <2> QED
      BY <1>9, <2>3, <2>4 DEF Pubrel
  <1>10. CASE NothingRead
    BY <1>0, <1>10, <1>u, KeepaliveDoes DEF NothingRead, ReceiveTypeOK
  <1>12. CASE Network
    BY <1>12, <1>u DEF Network, Drop, LinkLost
  <1>13. CASE SenderAccept /\ UNCHANGED <<recvVars, histVars>>
    <2>1. SenderTake("CONNECT")
      BY <1>13 DEF SenderAccept
    <2>2. ~bOpen /\ ~isconnected /\ Head(c2b).clean = ~usePersistentSession
      BY <1>0, <2>1, TakeDoes DEF ConnInv
    <2>3. \A k \in 1..Len(c2b') : c2b'[k].type # "PUBCOMP"
      BY <1>0, <2>1, <2>2, TakeDoes DEF ConnInv, Numbered
    <2>4. CASE UNCHANGED <<bSt, bId>>
      BY <1>13, <1>u, <2>3, <2>4
    <2>5. CASE ~UNCHANGED <<bSt, bId>>
      <3>1. ~usePersistentSession \/ ~bKept
        BY <1>13, <2>2, <2>5 DEF SenderAccept
      <3>2. CASE ~usePersistentSession
        BY <1>0, <1>t, <1>13, <2>2, <3>2, TableCleared DEF TableInv
      <3>3. CASE usePersistentSession /\ ~bKept
        <4>1. "broker" \notin forgotBy => InFlight = {}
          BY <1>0, <3>3 DEF KeptInv
        <4>2. "broker" \notin forgotBy => \A s \in Slots : incomingQoS2messages[s] = 0
          BY <1>0, <4>1 DEF TableInv
        <4> QED
          BY <1>0, <1>13, <2>3, <3>3, <4>2 DEF TableInv
      <3> QED
        BY <3>1, <3>2, <3>3
    <2> QED
      BY <2>4, <2>5
  <1>14. ASSUME NEW m \in Msgs, NEW i \in PacketIds, SendPublish(m, i),
                UNCHANGED <<recvVars, histVars>>
         PROVE  TableInv'
    <2>1. /\ c2b' = c2b /\ m \notin InFlight /\ InFlight \subseteq InFlight'
          /\ \A n \in Msgs : n # m => bId'[n] = bId[n]
      BY <1>0, <1>14 DEF SendPublish, SenderTypeOK, InFlight
    <2> QED
      BY <1>0, <1>14, <2>1, QoS2MsgsAssumption, TableSame
  <1>15. ASSUME NEW m \in Msgs, SendAgain(m), UNCHANGED <<recvVars, histVars>>
         PROVE  TableInv'
    BY <1>15, <1>u DEF SendAgain
  <1>16. ASSUME NEW m \in Msgs, SenderPuback(m) \/ SenderPubcomp(m) \/ SenderPubrec(m),
                UNCHANGED <<recvVars, histVars>>
         PROVE  TableInv'
    <2>1. PICK t \in {"PUBACK", "PUBCOMP", "PUBREC"} :
             /\ SenderTake(t)
             /\ t = "PUBREC" => bId' = bId /\ bSt' = [bSt EXCEPT ![m] = "released"]
      BY <1>16 DEF SenderPuback, SenderPubcomp, SenderPubrec
    <2>2. m \in InFlight /\ bId[m] = Head(c2b).id
      BY <1>16 DEF SenderPuback, SenderPubcomp, SenderPubrec, InFlight
    <2>3. \A n \in Msgs : n # m => bSt'[n] = bSt[n] /\ bId'[n] = bId[n]
      BY <1>0, <1>16 DEF SenderPuback, SenderPubcomp, SenderPubrec, Done, SenderTypeOK
    <2>4. \/ m \notin QoS2Msgs
          \/ ~Holds(incomingQoS2messages, bId[m])
          \/ m \in InFlight' /\ bId'[m] = bId[m]
      <3>1. CASE t = "PUBACK"
        BY <2>1, <2>2, <3>1, AckedMessage
      <3>2. CASE t = "PUBCOMP"
        BY <1>0, <2>1, <2>2, <3>2, TakeDoes DEF TableInv
      <3>3. CASE t = "PUBREC"
        BY <1>0, <2>1, <3>3 DEF InFlight, SenderTypeOK
      <3> QED
        BY <2>1, <3>1, <3>2, <3>3
    <2>5. \A n \in Msgs : n # m /\ n \in InFlight => n \in InFlight'
      BY <2>3 DEF InFlight
    <2>6. \A n \in QoS2Msgs :
             n \in InFlight /\ delivered[n] >= 1 /\ Holds(incomingQoS2messages, bId[n]) =>
             n \in InFlight' /\ delivered'[n] >= 1 /\ bId'[n] = bId[n]
      BY <1>16, <2>3, <2>4, <2>5, QoS2MsgsAssumption
    <2>7. \A k \in 1..Len(c2b') : c2b'[k].type = "PUBCOMP" =>
             \E j \in 1..Len(c2b) : c2b'[k] = c2b[j]
      BY <1>0, <2>1, TakeDoes
    <2> QED
      BY <1>0, <1>16, <2>6, <2>7, TableSame
  <1>18. CASE SenderPing /\ UNCHANGED <<recvVars, histVars>>
    <2>1. SenderTake("PINGREQ") /\ UNCHANGED <<bSt, bId>>
      BY <1>18 DEF SenderPing
    <2>2. \A k \in 1..Len(c2b') : c2b'[k].type = "PUBCOMP" =>
             \E j \in 1..Len(c2b) : c2b'[k] = c2b[j]
      BY <1>0, <2>1, TakeDoes
    <2>3. InFlight' = InFlight
      BY <2>1 DEF InFlight
    <2> QED
      BY <1>0, <1>18, <2>1, <2>2, <2>3, TableSame
  <1>19. CASE SenderLosesSession /\ Forgets("broker") /\ UNCHANGED <<recvVars, late>>
    <2>1. "broker" \in forgotBy' /\ usePersistentSession /\ c2b' = <<>>
      BY <1>0, <1>19, ForgetsDoes DEF SenderLosesSession, LinkLost, KeptInv
    <2> QED
      BY <1>0, <1>19, <2>1 DEF TableInv
  <1>20. CASE UNCHANGED vars
    BY <1>20, <1>u DEF vars
  <1> QED
    BY <1>1, <1>2, <1>3, <1>5, <1>7, <1>8, <1>9, <1>10, <1>12,
       <1>13, <1>14, <1>15, <1>16, <1>18, <1>19, <1>20
       DEF Next, Client, Sender, SenderStep

(***************************************************************************)
(* QoS 1, and keepalive                                                    *)
(***************************************************************************)

\* No step of the client takes a delivery back.
LEMMA DeliveredGrows ==
    ASSUME RInv, Client
    PROVE  /\ delivered \in [Msgs -> 0..2] /\ delivered' \in [Msgs -> 0..2]
           /\ \A n \in Msgs : delivered'[n] >= delivered[n]
  <1>0. ReceiveTypeOK /\ PacketsOK /\ delivered \in [Msgs -> 0..2]
    BY DEF RInv, ReceiveTypeOK
  <1> USE DEF linkVars, senderVars, confVars, clientVars, recvVars, histVars
  <1>1. CASE delivered' = delivered
    BY <1>0, <1>1
  <1>2. ASSUME ReadPacket("PUBLISH"), deliverMessage(Head(b2c).msg)
        PROVE  /\ delivered' \in [Msgs -> 0..2]
               /\ \A n \in Msgs : delivered'[n] >= delivered[n]
    <2>1. Head(b2c).msg \in Msgs
      BY <1>0, <1>2, ReadDoes, ReceiverFields
    <2> QED
      BY <1>0, <1>2, <2>1, DeliverDoes
  <1>3. delivered' = delivered \/ (ReadPacket("PUBLISH") /\ deliverMessage(Head(b2c).msg))
    BY DEF Client, Connect, ConnectFails, ConnectFailsWithPublish, CommandFails, Connack,
           PublishQoS1, PublishQoS2, Pubrel, Pingresp, NothingRead, ReadError
  <1> QED
    BY <1>0, <1>1, <1>2, <1>3

LEMMA AcknowledgedStep == RInv /\ [Next]_vars => AcknowledgedDelivered'
  <1> SUFFICES ASSUME RInv, [Next]_vars
               PROVE  AcknowledgedDelivered'
    OBVIOUS
  <1>0. /\ ReceiveTypeOK /\ PacketsOK /\ SenderTypeOK /\ AcknowledgedDelivered
        /\ delivered \in [Msgs -> 0..2]
    BY DEF RInv, ReceiveTypeOK
  <1> USE DEF linkVars, senderVars, confVars, clientVars, recvVars, histVars
  <1>1. CASE Client
    <2>1. bSt' = bSt
      BY <1>1 DEF Client, Connect, ConnectFails, ConnectFailsWithPublish, CommandFails,
         Connack, PublishQoS1, PublishQoS2, Pubrel, Pingresp, NothingRead, ReadError,
         ReadPacket
    <2> QED
      BY <1>0, <1>1, <2>1, DeliveredGrows DEF AcknowledgedDelivered
  <1>u. ASSUME delivered' = delivered,
               \A m \in Msgs \ QoS2Msgs : bSt'[m] = "done" => bSt[m] = "done" \/ delivered[m] >= 1
        PROVE  AcknowledgedDelivered'
    BY <1>0, <1>u DEF AcknowledgedDelivered
  <1>2. ASSUME Forget, delivered' = delivered
        PROVE  AcknowledgedDelivered'
    BY <1>0, <1>2, <1>u, ForgetDoes
  <1>13. CASE SenderAccept /\ UNCHANGED <<recvVars, histVars>>
    BY <1>2, <1>u, <1>13 DEF SenderAccept
  <1>14. ASSUME NEW m \in Msgs, NEW i \in PacketIds, SendPublish(m, i),
                UNCHANGED <<recvVars, histVars>>
         PROVE  AcknowledgedDelivered'
    BY <1>0, <1>u, <1>14 DEF SendPublish, SenderTypeOK
  <1>16. ASSUME NEW m \in Msgs, SenderPuback(m) \/ SenderPubcomp(m),
                UNCHANGED <<recvVars, histVars>>
         PROVE  AcknowledgedDelivered'
    <2>1. PICK t \in {"PUBACK", "PUBCOMP"} : SenderTake(t)
      BY <1>16 DEF SenderPuback, SenderPubcomp
    <2>2. m \in InFlight /\ bId[m] = Head(c2b).id /\ Done(m) /\ delivered' = delivered
      BY <1>16 DEF SenderPuback, SenderPubcomp, InFlight
    <2>3. m \in QoS2Msgs \/ delivered[m] >= 1
      BY <2>1, <2>2, AckedMessage
    <2> QED
      BY <1>0, <1>u, <2>2, <2>3 DEF Done, SenderTypeOK
  <1>17. ASSUME NEW m \in Msgs, SenderPubrec(m), UNCHANGED <<recvVars, histVars>>
         PROVE  AcknowledgedDelivered'
    BY <1>0, <1>u, <1>17 DEF SenderPubrec, SenderTypeOK
  <1>19. CASE SenderLosesSession /\ UNCHANGED recvVars
    BY <1>2, <1>19 DEF SenderLosesSession
  <1>20. CASE UNCHANGED <<bSt, delivered>>
    BY <1>u, <1>20
  <1> QED
    BY <1>1, <1>13, <1>14, <1>16, <1>17, <1>19, <1>20
       DEF Next, Sender, SenderStep, SendAgain, SenderPing, Network, vars

\* Whatever else is read or written, a ping or its answer stays under way.
LEMMA PingStays ==
    ASSUME PacketsOK, PacketsOK',
           c2b' = c2b \/ (\E p \in ToSender : c2b' = Append(c2b, p))
              \/ (c2b # <<>> /\ c2b' = Tail(c2b) /\ c2b[1].type # "PINGREQ"),
           b2c' = b2c \/ (\E p \in ToReceiver : b2c' = Append(b2c, p))
              \/ (b2c # <<>> /\ b2c' = Tail(b2c) /\ b2c[1].type # "PINGRESP"),
           \/ \E i \in 1..Len(c2b) : c2b[i].type = "PINGREQ"
           \/ \E i \in 1..Len(b2c) : b2c[i].type = "PINGRESP"
    PROVE  \/ \E i \in 1..Len(c2b') : c2b'[i].type = "PINGREQ"
           \/ \E i \in 1..Len(b2c') : b2c'[i].type = "PINGRESP"
  <1>1. ASSUME NEW i \in 1..Len(c2b), c2b[i].type = "PINGREQ"
        PROVE  \E k \in 1..Len(c2b') : c2b'[k].type = "PINGREQ"
    <2>1. CASE c2b' = c2b
      BY <1>1, <2>1
    <2>2. CASE \E p \in ToSender : c2b' = Append(c2b, p)
      BY <1>1, <2>2, AppendStays DEF PacketsOK
    <2>3. CASE c2b # <<>> /\ c2b' = Tail(c2b) /\ c2b[i] # c2b[1]
      BY <1>1, <2>3, TailStays DEF PacketsOK
    <2> QED
      BY <1>1, <2>1, <2>2, <2>3
  <1>2. ASSUME NEW i \in 1..Len(b2c), b2c[i].type = "PINGRESP"
        PROVE  \E k \in 1..Len(b2c') : b2c'[k].type = "PINGRESP"
    <2>1. CASE b2c' = b2c
      BY <1>2, <2>1
    <2>2. CASE \E p \in ToReceiver : b2c' = Append(b2c, p)
      BY <1>2, <2>2, AppendStays DEF PacketsOK
    <2>3. CASE b2c # <<>> /\ b2c' = Tail(b2c) /\ b2c[i] # b2c[1]
      BY <1>2, <2>3, TailStays, SMTT(30) DEF PacketsOK
    <2> QED
      BY <1>2, <2>1, <2>2, <2>3
  <1> QED
    BY <1>1, <1>2

LEMMA PingStep == RInv /\ [Next]_vars => PingInv'
  <1> SUFFICES ASSUME RInv, [Next]_vars, commandTimeout' = "shorter"
               PROVE  /\ ~isconnected' => ~ping_outstanding'
                      /\ isconnected' /\ link' = "up" /\ ping_outstanding' =>
                            \/ \E i \in 1..Len(c2b') : c2b'[i].type = "PINGREQ"
                            \/ \E i \in 1..Len(b2c') : b2c'[i].type = "PINGRESP"
    BY DEF PingInv
  <1> USE DEF linkVars, senderVars, confVars, clientVars, recvVars, histVars
  <1>s. commandTimeout = "shorter"
    BY DEF Next, Client, Sender, Network, Connect, ConnectFails, ConnectFailsWithPublish,
           CommandFails, Connack, PublishQoS1, PublishQoS2, Pubrel, Pingresp, NothingRead,
           ReadError, ReadPacket, vars
  <1>0. /\ ReceiveTypeOK /\ PacketsOK /\ ConnInv /\ SenderInv /\ SenderTypeOK
        /\ ping_outstanding \in BOOLEAN
        /\ ~isconnected => ~ping_outstanding
        /\ isconnected /\ link = "up" /\ ping_outstanding =>
              \/ \E i \in 1..Len(c2b) : c2b[i].type = "PINGREQ"
              \/ \E i \in 1..Len(b2c) : b2c[i].type = "PINGRESP"
    BY <1>s DEF RInv, ReceiveTypeOK, PingInv
  <1>t. PacketsOK'
    BY TypeStep
  <1> DEFINE Goal == /\ ~isconnected' => ~ping_outstanding'
                     /\ isconnected' /\ link' = "up" /\ ping_outstanding' =>
                           \/ \E i \in 1..Len(c2b') : c2b'[i].type = "PINGREQ"
                           \/ \E i \in 1..Len(b2c') : b2c'[i].type = "PINGRESP"
  <1>u. ASSUME UNCHANGED <<isconnected, ping_outstanding>>, link' = "up" => link = "up",
               c2b' = c2b \/ (\E p \in ToSender : c2b' = Append(c2b, p))
                  \/ (c2b # <<>> /\ c2b' = Tail(c2b) /\ c2b[1].type # "PINGREQ"),
               b2c' = b2c \/ (\E p \in ToReceiver : b2c' = Append(b2c, p))
                  \/ (b2c # <<>> /\ b2c' = Tail(b2c) /\ b2c[1].type # "PINGRESP")
        PROVE  Goal
    BY <1>0, <1>t, <1>u, PingStays
  <1>1. CASE Connect
    <2>1. isconnected' = FALSE /\ ping_outstanding' = FALSE
      BY <1>0, <1>1, CleanDoes DEF Connect, ReceiveTypeOK
    <2> QED
      BY <2>1
  <1>2. CASE ConnectFails \/ ReadError
    BY <1>0, <1>2 DEF ConnectFails, ReadError, ReadFails, Close
  <1>3. CASE ConnectFailsWithPublish \/ CommandFails
    BY <1>3 DEF ConnectFailsWithPublish, CommandFails, cleanSession
  <1>5. CASE Connack
    BY <1>0, <1>5, <1>s DEF Connack, ConnInv
  <1>6. CASE PublishQoS1 \/ PublishQoS2 \/ Pubrel
    <2>1. PICK t \in {"PUBLISH", "PUBREL"}, a \in {"PUBACK", "PUBREC", "PUBCOMP"} :
             ReadPacket(t) /\ Acknowledge(a)
      BY <1>6 DEF PublishQoS1, PublishQoS2, Pubrel, Acknowledge
    <2>2. /\ Head(b2c).id \in PacketIds /\ link = "up"
          /\ b2c # <<>> /\ b2c' = Tail(b2c) /\ b2c[1].type # "PINGRESP"
      BY <1>0, <2>1, ReadDoes, ReceiverFields DEF Numbered
    <2>3. [type |-> a, id |-> Head(b2c).id] \in ToSender
      BY <2>2 DEF ToSender
    <2>4. /\ c2b' = c2b \/ \E p \in ToSender : c2b' = Append(c2b, p)
          /\ ping_outstanding' = ping_outstanding
      BY <1>0, <2>1, <2>2, <2>3, AcknowledgeDoes
    <2>5. isconnected' = isconnected
      BY <1>6 DEF PublishQoS1, PublishQoS2, Pubrel
    <2> QED
      BY <1>u, <2>2, <2>4, <2>5
  <1>k. ASSUME c2b' = Append(c2b, [type |-> "PINGREQ"])
        PROVE  \E i \in 1..Len(c2b') : c2b'[i].type = "PINGREQ"
    <2> DEFINE e == [type |-> "PINGREQ"]
    <2>1. e.type = "PINGREQ"
      OBVIOUS
    <2> HIDE DEF e
    <2>2. c2b' = Append(c2b, e)
      BY <1>k DEF e
    <2>3. Len(c2b) + 1 \in 1..Len(c2b') /\ c2b'[Len(c2b) + 1] = e
      BY <1>0, <2>2 DEF PacketsOK
    <2> QED
      BY <2>1, <2>3
  <1>9. CASE Pingresp
    <2>1. /\ isconnected /\ isconnected' = isconnected
          /\ ReadPacket("PINGRESP") /\ keepalive(FALSE)
      BY <1>9 DEF Pingresp
    <2>2. ping_outstanding' => link # "up" \/ c2b' = Append(c2b, [type |-> "PINGREQ"])
      BY <1>0, <2>1, KeepaliveDoes
    <2> QED
      BY <1>0, <1>k, <2>1, <2>2, ReadDoes
  <1>10. CASE NothingRead
    <2>1. /\ isconnected /\ UNCHANGED <<isconnected, link, b2c>>
          /\ keepalive(ping_outstanding)
      BY <1>s, <1>10 DEF NothingRead
    <2>2. /\ ping_outstanding' =>
               ping_outstanding \/ link # "up" \/ c2b' = Append(c2b, [type |-> "PINGREQ"])
          /\ c2b' = c2b \/ c2b' = Append(c2b, [type |-> "PINGREQ"])
      BY <1>0, <2>1, KeepaliveDoes
    <2>3. CASE c2b' = c2b
      BY <1>0, <2>1, <2>2, <2>3, <1>k
    <2>4. CASE c2b' = Append(c2b, [type |-> "PINGREQ"])
      BY <1>k, <2>1, <2>4
    <2> QED
      BY <2>2, <2>3, <2>4
  <1>12. CASE Network
    BY <1>0, <1>12 DEF Network, Drop, LinkLost
  <1>13. CASE SenderAccept /\ UNCHANGED <<recvVars, histVars>>
    <2>1. SenderTake("CONNECT")
      BY <1>13 DEF SenderAccept
    <2>2. ~isconnected
      BY <1>0, <2>1, TakeDoes DEF ConnInv
    <2> QED
      BY <1>0, <1>13, <2>2
  <1>14. ASSUME NEW m \in Msgs, NEW i \in PacketIds, SendPublish(m, i),
                UNCHANGED <<recvVars, histVars>>
         PROVE  Goal
    <2>1. bId'[m] = i
      BY <1>0, <1>14 DEF SendPublish, SenderTypeOK
    <2>2. Publish(m)' \in ToReceiver
      BY <2>1, ReceiverPackets DEF Publish
    <2> QED
      BY <1>14, <1>u, <2>2 DEF SendPublish
  <1>15. ASSUME NEW m \in Msgs, SendAgain(m), UNCHANGED <<recvVars, histVars>>
         PROVE  Goal
    <2>1. bId[m] \in PacketIds
      BY <1>0, <1>15 DEF SenderInv, SendAgain
    <2>2. Publish(m) \in ToReceiver /\ [type |-> "PUBREL", id |-> bId[m]] \in ToReceiver
      BY <2>1, ReceiverPackets DEF Publish
    <2> QED
      BY <1>15, <1>u, <2>2 DEF SendAgain
  <1>16. ASSUME NEW m \in Msgs, SenderPuback(m) \/ SenderPubcomp(m) \/ SenderPubrec(m),
                UNCHANGED <<recvVars, histVars>>
         PROVE  Goal
    <2>1. PICK t \in {"PUBACK", "PUBCOMP", "PUBREC"} : SenderTake(t)
      BY <1>16 DEF SenderPuback, SenderPubcomp, SenderPubrec
    <2>2. c2b # <<>> /\ c2b' = Tail(c2b) /\ c2b[1].type # "PINGREQ" /\ link' = link
      BY <1>0, <2>1, TakeDoes
    <2>3. bId[m] \in PacketIds
      BY <1>0, <1>16 DEF SenderInv, InFlight, SenderPuback, SenderPubcomp, SenderPubrec
    <2>4. [type |-> "PUBREL", id |-> bId[m]] \in ToReceiver
      BY <2>3, ReceiverPackets
    <2>5. b2c' = b2c \/ \E p \in ToReceiver : b2c' = Append(b2c, p)
      BY <1>16, <2>4 DEF SenderPuback, SenderPubcomp, SenderPubrec, SenderReply
    <2> QED
      BY <1>16, <1>u, <2>2, <2>5
  <1>18. CASE SenderPing /\ UNCHANGED <<recvVars, histVars>>
    <2> DEFINE e == [type |-> "PINGRESP"]
    <2>1. link = "up" => b2c' = Append(b2c, e)
      BY <1>18 DEF SenderPing, SenderReply
    <2>2. e.type = "PINGRESP" /\ link' = link
      BY <1>18 DEF SenderPing, SenderTake
    <2> HIDE DEF e
    <2>3. link = "up" => Len(b2c) + 1 \in 1..Len(b2c') /\ b2c'[Len(b2c) + 1] = e
      BY <1>0, <2>1 DEF PacketsOK
    <2> QED
      BY <1>0, <1>18, <2>2, <2>3
  <1>19. CASE SenderLosesSession /\ Forgets("broker") /\ UNCHANGED <<recvVars, late>>
    BY <1>0, <1>19 DEF SenderLosesSession, LinkLost
  <1>20. CASE UNCHANGED vars
    BY <1>20, <1>u DEF vars
  <1> QED
    BY <1>1, <1>2, <1>3, <1>5, <1>6, <1>9, <1>10, <1>12,
       <1>13, <1>14, <1>15, <1>16, <1>18, <1>19, <1>20
       DEF Next, Client, Sender, SenderStep

(***************************************************************************)
(* The theorems                                                            *)
(***************************************************************************)
LEMMA RInit == Init => RInv
  <1> SUFFICES ASSUME Init PROVE RInv
    OBVIOUS
  <1> USE DEF Init, LinkInit, SenderInit
  <1>1. 0 \in 0..MaxPacketId /\ 0 \in 0..MaxFaults
    BY MaxPacketIdAssumption, MaxFaultsAssumption
  <1>2. ReceiveTypeOK
    <2>1. SenderTypeOK
      BY <1>1 DEF SenderTypeOK
    <2>2. incomingQoS2messages \in [Slots -> 0..MaxPacketId]
      BY <1>1 DEF NoIds
    <2>3. delivered \in [Msgs -> 0..2]
      OBVIOUS
    <2>4. /\ isconnected \in BOOLEAN /\ connecting \in BOOLEAN
          /\ ping_outstanding \in BOOLEAN /\ late \in BOOLEAN
      BY Zenon
    <2> QED
      BY <1>1, <2>1, <2>2, <2>3, <2>4 DEF ReceiveTypeOK
  <1>3. PacketsOK /\ ConnInv
    BY DEF PacketsOK, ConnInv
  <1>4. InFlight = {}
    BY DEF InFlight
  <1>5. SenderInv /\ KeptInv
    BY <1>4, FS_EmptySet, WindowAssumption DEF SenderInv, KeptInv
  <1>6. OneEach /\ Tells
    BY EmptyIds DEF OneEach, Tells
  <1>7. TableInv
    BY DEF TableInv, NoIds
  <1>8. AcknowledgedDelivered /\ PingInv
    BY DEF AcknowledgedDelivered, PingInv
  <1> QED
    BY <1>2, <1>3, <1>5, <1>6, <1>7, <1>8 DEF RInv

LEMMA RStep == RInv /\ [Next]_vars => RInv'
  BY TypeStep, ConnStep, SenderInvStep, KeptStep, OneStep, TellsStep, TableStep,
     AcknowledgedStep, PingStep DEF RInv

\* RInv holds in every state MQTT::Client and the broker can reach.
LEMMA Received == Spec => []RInv
  BY RInit, RStep, PTL DEF Spec

\* The variables keep their types whatever the network and the broker do: cycle
\* never writes outside the table of QoS 2 ids.
THEOREM ReceiveTypes == Spec => []ReceiveTypeOK
  BY Received, PTL DEF RInv

\* useQoS2msgid, freeQoS2msgid and cleanSession keep the table of QoS 2 ids free of
\* repetitions and of ids that no message in flight has: no place is lost.
THEOREM TableTidy == Spec => []TableMatchesBroker
  <1>1. RInv => TableMatchesBroker
    BY DEF RInv, TableInv, TableMatchesBroker
  <1> QED
    BY <1>1, Received, PTL

\* cycle answers a QoS 1 publish only after it has called the message handler.
THEOREM QoS1Delivered == Spec => []AcknowledgedDelivered
  BY Received, PTL DEF RInv

\* keepalive, cycle and the end of a connection keep ping_outstanding true to the
\* pings under way.
THEOREM PingFresh == Spec => []PingNotStale
  <1>1. RInv => PingNotStale
    BY DEF RInv, PingInv, PingNotStale
  <1> QED
    BY <1>1, Received, PTL


(***************************************************************************)
(* QoS 2: delivered once                                                   *)
(***************************************************************************)

\* As long as nobody has forgotten anything, and the broker has no more messages in
\* flight than the table has places, there is a place for a message that was not
\* delivered yet: every other place is taken by another message in flight.
LEMMA RoomForMore ==
    ASSUME RInv, forgotBy = {}, Window <= MAX_INCOMING_QOS2_MESSAGES,
           NEW m \in InFlight, delivered[m] = 0
    PROVE  ~TableFull /\ isQoS2msgidFree(bId[m])
  <1>0. /\ SenderInv /\ TableInv /\ incomingQoS2messages \in [Slots -> 0..MaxPacketId]
        /\ "broker" \notin forgotBy
    BY DEF RInv, ReceiveTypeOK
  <1>a. \A s \in Slots : incomingQoS2messages[s] # 0 =>
           \E n \in QoS2Msgs \cap InFlight :
               bId[n] = incomingQoS2messages[s] /\ delivered[n] >= 1
    BY <1>0 DEF TableInv
  <1>b. ~(delivered[m] >= 1)
    OBVIOUS
  <1>1. isQoS2msgidFree(bId[m])
    <2>1. bId[m] # 0
      BY <1>0 DEF SenderInv, PacketIds
    <2> QED
      BY <1>0, <1>a, <1>b, <2>1 DEF isQoS2msgidFree, SenderInv
  <1>2. ASSUME TableFull PROVE FALSE
    <2> DEFINE T == InFlight \ {m}
               Owner(s) == CHOOSE n \in T : bId[n] = incomingQoS2messages[s]
               f == [s \in Slots |-> Owner(s)]
    <2>1. ASSUME NEW s \in Slots
          PROVE  Owner(s) \in T /\ bId[Owner(s)] = incomingQoS2messages[s]
      <3>1. \E n \in T : bId[n] = incomingQoS2messages[s]
        BY <1>a, <1>b, <1>2 DEF TableFull
      <3> QED
        BY <3>1
    <2>2. IsFiniteSet(Slots) /\ Cardinality(Slots) = MAX_INCOMING_QOS2_MESSAGES
      BY FS_Interval, TableAssumption DEF Slots
    <2>3. /\ IsFiniteSet(T)
          /\ Cardinality(T) = Cardinality(InFlight) - 1
          /\ Cardinality(InFlight) \in Nat /\ Cardinality(InFlight) <= Window
      BY <1>0, FS_RemoveElement, FS_CardinalityType DEF SenderInv
    <2>4. Cardinality(T) < Cardinality(Slots)
      BY <2>2, <2>3, WindowAssumption, TableAssumption
    <2> HIDE DEF T, Owner
    <2>5. f \in [Slots -> T]
      BY <2>1
    <2> HIDE DEF f
    <2>6. PICK r, s \in Slots : r # s /\ f[r] = f[s]
      BY <2>2, <2>3, <2>4, <2>5, FS_PigeonHole
    <2>7. incomingQoS2messages[r] = incomingQoS2messages[s]
      BY <2>1, <2>6 DEF f
    <2> QED
      BY <1>0, <1>2, <2>6, <2>7 DEF TableInv, TableFull
  <1> QED
    BY <1>1, <1>2

\* A step that delivers no QoS 2 message and moves none on.
LEMMA OnceSame ==
    ASSUME PacketsOK, Tells, CountedOnce, UnreadNew, RecDelivered,
           UNCHANGED <<usePersistentSession, bSt, bId>>,
           \A m \in QoS2Msgs : delivered'[m] = delivered[m],
           usePersistentSession => \A m \in QoS2Msgs :
               bSt[m] = "sent" /\ Holds(incomingQoS2messages, bId[m]) =>
                   Holds(incomingQoS2messages', bId[m]),
           \A k \in 1..Len(b2c') : b2c'[k].type = "PUBLISH" =>
               usePersistentSession \/ \E j \in 1..Len(b2c) : b2c'[k] = b2c[j],
           \A k \in 1..Len(c2b') : c2b'[k].type = "PUBREC" =>
               \E j \in 1..Len(c2b) : c2b'[k] = c2b[j]
    PROVE  CountedOnce' /\ UnreadNew' /\ RecDelivered'
  <1>1. CountedOnce'
    BY DEF CountedOnce
  <1>2. UnreadNew'
    <2> SUFFICES ASSUME NEW k \in 1..Len(b2c'), b2c'[k].type = "PUBLISH", b2c'[k].qos2,
                        ~usePersistentSession
                 PROVE  delivered'[b2c'[k].msg] = 0
      BY DEF UnreadNew
    <2>1. PICK j \in 1..Len(b2c) : b2c'[k] = b2c[j]
      OBVIOUS
    <2>2. delivered[b2c[j].msg] = 0
      BY <2>1 DEF UnreadNew
    <2>3. b2c[j].msg \in QoS2Msgs
      BY <2>1, ZenonT(60) DEF Tells, TellsClient
    <2> QED
      BY <2>1, <2>2, <2>3
  <1>3. RecDelivered'
    BY DEF RecDelivered
  <1> QED
    BY <1>1, <1>2, <1>3

\* A step of the broker that moves only the message m on.
LEMMA OnceMoves ==
    ASSUME CountedOnce, UnreadNew, RecDelivered,
           UNCHANGED <<usePersistentSession, incomingQoS2messages, delivered>>,
           NEW m \in Msgs,
           \A n \in Msgs : n # m => bSt'[n] = bSt[n] /\ bId'[n] = bId[n],
           bSt'[m] # "new",
           m \in QoS2Msgs => /\ bSt'[m] \in {"released", "done"} => delivered[m] = 1
                             /\ bSt'[m] = "sent" => delivered[m] = 0,
           \A k \in 1..Len(b2c') : b2c'[k].type = "PUBLISH" /\ b2c'[k].qos2 =>
               \/ \E j \in 1..Len(b2c) : b2c'[k] = b2c[j]
               \/ delivered[b2c'[k].msg] = 0,
           \A k \in 1..Len(c2b') : c2b'[k].type = "PUBREC" =>
               /\ \E j \in 1..Len(c2b) : c2b'[k] = c2b[j]
               /\ bSt'[m] = "sent" => bId'[m] # c2b'[k].id
    PROVE  CountedOnce' /\ UnreadNew' /\ RecDelivered'
  <1>1. CountedOnce'
    BY QoS2MsgsAssumption DEF CountedOnce
  <1>2. UnreadNew'
    BY DEF UnreadNew
  <1>3. RecDelivered'
    BY QoS2MsgsAssumption DEF RecDelivered
  <1> QED
    BY <1>1, <1>2, <1>3


\* The QoS 2 publish that is read next is about the message that has its id, which
\* is delivered and in the table afterwards, however it was before.
LEMMA ReadOnce ==
    ASSUME RInv, forgotBy = {}, Window <= MAX_INCOMING_QOS2_MESSAGES,
           CountedOnce, UnreadNew, PublishQoS2, NEW m, m = Head(b2c).msg
    PROVE  /\ m \in QoS2Msgs /\ bSt[m] = "sent" /\ bId[m] = Head(b2c).id
           /\ m \in InFlight
           /\ delivered'[m] = 1
           /\ \A n \in Msgs : n # m => delivered'[n] = delivered[n]
           /\ Holds(incomingQoS2messages', bId[m]) \/ ~usePersistentSession
           /\ \A i \in PacketIds : Holds(incomingQoS2messages, i) => Holds(incomingQoS2messages', i)
  <1>0. /\ ReceiveTypeOK /\ PacketsOK /\ Tells /\ OwnPlaces
        /\ delivered \in [Msgs -> 0..2]
    BY DEF RInv, ReceiveTypeOK, TableInv, OwnPlaces
  <1> DEFINE h == Head(b2c)
  <1>1. ReadPacket("PUBLISH") /\ h.qos2
    BY DEF PublishQoS2
  <1>2. /\ h \in ToReceiver /\ h.type = "PUBLISH" /\ h.id \in PacketIds /\ h.msg \in Msgs
        /\ TellsClient(h, bSt, bId) /\ 1 \in 1..Len(b2c) /\ h = b2c[1]
    BY <1>0, <1>1, ReadDoes, ReceiverFields DEF Tells, Numbered
  <1>3. m \in QoS2Msgs /\ bSt[m] = "sent" /\ bId[m] = h.id /\ m \in Msgs /\ m \in InFlight
    BY <1>1, <1>2 DEF TellsClient, InFlight
  <1>4. delivered[m] \in {0, 1}
    BY <1>0, <1>3 DEF CountedOnce
  <1>5. CASE delivered[m] = 0
    <2>1. isQoS2msgidFree(h.id) /\ ~TableFull
      BY <1>3, <1>5, RoomForMore
    <2>2. useQoS2msgid(h.id) /\ deliverMessage(m)
      BY <2>1 DEF PublishQoS2
    <2> HIDE DEF h
    <2>3. /\ Holds(incomingQoS2messages', h.id)
          /\ \A s \in Slots :
                 \/ incomingQoS2messages'[s] = incomingQoS2messages[s]
                 \/ incomingQoS2messages[s] = 0 /\ incomingQoS2messages'[s] = h.id
      BY <1>0, <1>2, <2>1, <2>2, UseDoes
    <2>4. \A i \in PacketIds : Holds(incomingQoS2messages, i) => Holds(incomingQoS2messages', i)
      BY <2>3 DEF Holds, PacketIds
    <2>5. delivered'[m] = 1 /\ \A n \in Msgs : n # m => delivered'[n] = delivered[n]
      BY <1>0, <1>3, <1>5, <2>2, DeliverDoes
    <2> QED
      BY <1>3, <2>3, <2>4, <2>5 DEF h
  <1>6. CASE delivered[m] = 1
    <2>1. usePersistentSession
      BY <1>1, <1>2, <1>6 DEF UnreadNew
    <2>2. Holds(incomingQoS2messages, bId[m])
      BY <1>3, <1>6, <2>1 DEF CountedOnce
    <2>3. ~isQoS2msgidFree(h.id)
      BY <1>3, <2>2 DEF Holds, isQoS2msgidFree
    <2>4. UNCHANGED <<incomingQoS2messages, delivered>>
      BY <2>3 DEF PublishQoS2
    <2> QED
      BY <1>3, <1>6, <2>2, <2>4
  <1> QED
    BY <1>4, <1>5, <1>6

LEMMA OnceStep ==
    Window <= MAX_INCOMING_QOS2_MESSAGES /\ RInv /\ OnceInv /\ [Next]_vars => OnceInv'
  <1> SUFFICES ASSUME Window <= MAX_INCOMING_QOS2_MESSAGES, RInv, OnceInv, [Next]_vars,
                      forgotBy' = {}
               PROVE  CountedOnce' /\ UnreadNew' /\ RecDelivered'
    BY DEF OnceInv
  <1> USE DEF linkVars, senderVars, confVars, clientVars, recvVars, histVars
  <1>0. /\ ReceiveTypeOK /\ PacketsOK /\ ConnInv /\ SenderInv /\ KeptInv /\ OneEach /\ Tells
        /\ TableInv /\ OwnPlaces /\ SenderTypeOK /\ usePersistentSession \in BOOLEAN
        /\ delivered \in [Msgs -> 0..2] /\ ReceiveTypeOK' /\ PacketsOK'
    BY SessionKindsAssumption, TypeStep DEF RInv, ReceiveTypeOK, TableInv, OwnPlaces
  <1>f. forgotBy = {}
    <2>1. forgotBy' = forgotBy \/ \E w \in {"client", "broker"} : Forgets(w)
      BY DEF Next, Client, Sender, SenderStep, Network, Connect, ConnectFails,
         ConnectFailsWithPublish, CommandFails, Connack, PublishQoS1, PublishQoS2, Pubrel,
         Pingresp, NothingRead, ReadError, ReadPacket, vars
    <2> QED
      BY <1>0, <2>1, ForgetsDoes
  <1>o. CountedOnce /\ UnreadNew /\ RecDelivered
    BY <1>f DEF OnceInv
  <1>u. ASSUME UNCHANGED <<usePersistentSession, bSt, bId, delivered>>,
               incomingQoS2messages' = incomingQoS2messages \/ ~usePersistentSession,
               b2c' = b2c \/ b2c' = <<>>,
               \/ c2b' = c2b \/ c2b' = <<>> \/ c2b' = Append(c2b, [type |-> "PINGREQ"])
               \/ \A k \in 1..Len(c2b') : c2b'[k].type # "PUBREC"
        PROVE  CountedOnce' /\ UnreadNew' /\ RecDelivered'
    <2>1. \A k \in 1..Len(c2b') : c2b'[k].type = "PUBREC" =>
             \E j \in 1..Len(c2b) : c2b'[k] = c2b[j]
      BY <1>0, <1>u, PingQueue
    <2>2. \A k \in 1..Len(b2c') : \E j \in 1..Len(b2c) : b2c'[k] = b2c[j]
      BY <1>u
    <2> QED
      BY <1>0, <1>o, <1>u, <2>1, <2>2, OnceSame
  <1>1. CASE Connect
    <2>1. incomingQoS2messages' = incomingQoS2messages \/ ~usePersistentSession
      BY <1>1 DEF Connect, disconnect
    <2>2. \A k \in 1..Len(c2b') : c2b'[k].type # "PUBREC"
      BY <1>1 DEF Connect
    <2> QED
      BY <1>1, <1>u, <2>1, <2>2 DEF Connect
  <1>2. CASE ConnectFails \/ ReadError
    BY <1>2, <1>u DEF ConnectFails, ReadError, ReadFails, Close
  <1>3. CASE ConnectFailsWithPublish \/ CommandFails
    <2>1. ~usePersistentSession
      BY <1>0, <1>3, ForgetsDoes DEF ConnectFailsWithPublish, CommandFails
    <2> QED
      BY <1>3, <1>u, <2>1 DEF ConnectFailsWithPublish, CommandFails, Close
  <1>r. ASSUME NEW t, ReadPacket(t)
        PROVE  /\ \A k \in 1..Len(b2c') : \E j \in 1..Len(b2c) : b2c'[k] = b2c[j]
               /\ UNCHANGED <<bSt, bId, usePersistentSession>>
    BY <1>0, <1>r, ReadDoes
  <1>5. CASE Connack \/ Pingresp
    <2>1. PICK t \in {"CONNACK", "PINGRESP"} : ReadPacket(t)
      BY <1>5 DEF Connack, Pingresp
    <2>2. c2b' = c2b \/ c2b' = Append(c2b, [type |-> "PINGREQ"])
      BY <1>0, <1>5, KeepaliveDoes DEF Connack, Pingresp, ReceiveTypeOK
    <2>3. UNCHANGED <<delivered, incomingQoS2messages>>
      BY <1>5 DEF Connack, Pingresp
    <2>4. \A k \in 1..Len(c2b') : c2b'[k].type = "PUBREC" =>
             \E j \in 1..Len(c2b) : c2b'[k] = c2b[j]
      BY <1>0, <2>2, PingQueue
    <2> QED
      BY <1>0, <1>o, <1>r, <2>1, <2>3, <2>4, OnceSame
  <1>6. ASSUME NEW t \in {"PUBLISH", "PUBREL"}, NEW a \in {"PUBACK", "PUBREC", "PUBCOMP"},
               ReadPacket(t), Acknowledge(a)
        PROVE  /\ Head(b2c) \in ToReceiver /\ TellsClient(Head(b2c), bSt, bId)
               /\ Head(b2c).id \in PacketIds /\ Head(b2c).type = t
               /\ \A k \in 1..Len(c2b') :
                     \/ \E j \in 1..Len(c2b) : c2b'[k] = c2b[j]
                     \/ c2b'[k] = [type |-> a, id |-> Head(b2c).id]
    <2>1. /\ Head(b2c) \in ToReceiver /\ TellsClient(Head(b2c), bSt, bId)
          /\ Head(b2c).id \in PacketIds /\ Head(b2c).type = t
      BY <1>0, <1>6, ReadDoes, ReceiverFields DEF Tells, Numbered
    <2> DEFINE p == [type |-> a, id |-> Head(b2c).id]
    <2>3. p \in ToSender /\ (c2b' = c2b \/ c2b' = Append(c2b, p))
      BY <1>0, <1>6, <2>1, ReadDoes, AcknowledgeDoes DEF ToSender
    <2> HIDE DEF p
    <2>4. ASSUME NEW k \in 1..Len(c2b')
          PROVE  (\E j \in 1..Len(c2b) : c2b'[k] = c2b[j]) \/ c2b'[k] = p
      <3>1. CASE c2b' = c2b
        BY <3>1
      <3>2. CASE c2b' = Append(c2b, p)
        BY <1>0, <2>3, <3>2, AppendElement DEF PacketsOK
      <3> QED
        BY <2>3, <3>1, <3>2
    <2> QED
      BY <2>1, <2>4 DEF p
  <1>7. CASE PublishQoS1
    <2>1. /\ ReadPacket("PUBLISH") /\ Acknowledge("PUBACK") /\ deliverMessage(Head(b2c).msg)
          /\ ~Head(b2c).qos2 /\ UNCHANGED incomingQoS2messages
      BY <1>7 DEF PublishQoS1
    <2>2. Head(b2c).msg \in Msgs \ QoS2Msgs
      BY <1>6, <2>1, ReceiverFields DEF TellsClient
    <2>3. \A n \in QoS2Msgs : delivered'[n] = delivered[n]
      BY <1>0, <2>1, <2>2, DeliverDoes, QoS2MsgsAssumption
    <2>4. \A k \in 1..Len(c2b') : c2b'[k].type = "PUBREC" =>
             \E j \in 1..Len(c2b) : c2b'[k] = c2b[j]
      BY <1>6, <2>1
    <2> QED
      BY <1>0, <1>o, <1>r, <2>1, <2>3, <2>4, OnceSame
  <1>8. CASE PublishQoS2
    <2> DEFINE h == Head(b2c)
               m == Head(b2c).msg
    <2>1. ReadPacket("PUBLISH") /\ Acknowledge("PUBREC")
      BY <1>8 DEF PublishQoS2
    <2>2. /\ m \in QoS2Msgs /\ bSt[m] = "sent" /\ bId[m] = h.id
          /\ delivered'[m] = 1
          /\ \A n \in Msgs : n # m => delivered'[n] = delivered[n]
          /\ Holds(incomingQoS2messages', bId[m]) \/ ~usePersistentSession
          /\ \A i \in PacketIds : Holds(incomingQoS2messages, i) => Holds(incomingQoS2messages', i)
      BY <1>f, <1>o, <1>8, ReadOnce
    <2>3. UNCHANGED <<bSt, bId, usePersistentSession>>
      BY <1>r, <2>1
    <2>4. \A n, o \in InFlight : bId[n] = bId[o] => n = o
      BY <1>0 DEF SenderInv
    <2>5. \A n \in Msgs : bSt[n] = "sent" => n \in InFlight /\ bId[n] \in PacketIds
      BY <1>0 DEF InFlight, SenderInv
    <2>6. CountedOnce'
      <3> SUFFICES ASSUME NEW n \in QoS2Msgs
                   PROVE  (/\ delivered[n] <= 1
                           /\ bSt[n] = "new" => delivered[n] = 0
                           /\ bSt[n] \in {"released", "done"} => delivered[n] = 1
                           /\ usePersistentSession /\ bSt[n] = "sent" /\ delivered[n] = 1 =>
                                 Holds(incomingQoS2messages, bId[n]))'
        BY DEF CountedOnce
      <3>1. CASE n = m
        BY <2>2, <2>3, <3>1
      <3>2. CASE n # m
        <4> HIDE DEF m, h
        <4>1. delivered'[n] = delivered[n] /\ n \in Msgs
          BY <2>2, <3>2, QoS2MsgsAssumption
        <4>2. /\ delivered[n] <= 1
              /\ bSt[n] = "new" => delivered[n] = 0
              /\ bSt[n] \in {"released", "done"} => delivered[n] = 1
              /\ usePersistentSession /\ bSt[n] = "sent" /\ delivered[n] = 1 =>
                     Holds(incomingQoS2messages, bId[n])
          BY <1>o DEF CountedOnce
        <4>3. usePersistentSession /\ bSt[n] = "sent" /\ delivered[n] = 1 =>
                 Holds(incomingQoS2messages', bId[n])
          BY <2>2, <2>5, <4>1, <4>2
        <4> QED
          BY <2>3, <4>1, <4>2, <4>3
      <3> QED
        BY <3>1, <3>2
    <2>7. UnreadNew'
      <3> SUFFICES ASSUME NEW k \in 1..Len(b2c'), b2c'[k].type = "PUBLISH", b2c'[k].qos2,
                          ~usePersistentSession
                   PROVE  delivered'[b2c'[k].msg] = 0
        BY <2>3 DEF UnreadNew
      <3>1. k + 1 \in 1..Len(b2c) /\ b2c'[k] = b2c[k + 1] /\ h = b2c[1] /\ 1 \in 1..Len(b2c)
        BY <1>0, <2>1, ReadDoes
      <3> DEFINE p == b2c[k + 1]
      <3>2. delivered[p.msg] = 0 /\ TellsClient(p, bSt, bId) /\ p.type = "PUBLISH"
        BY <1>0, <1>o, <3>1 DEF UnreadNew, Tells
      <3>3. p.id # h.id
        BY <1>0, <1>6, <2>1, <3>1, <3>2 DEF OneEach, Distinct, Numbered
      <3>4. p \in ToReceiver
        BY <1>0, <3>1 DEF PacketsOK
      <3> HIDE DEF p
      <3>5. p.msg # m /\ p.msg \in Msgs
        BY <2>2, <3>2, <3>3, <3>4, ReceiverFields DEF TellsClient
      <3>6. delivered'[p.msg] = 0
        BY <2>2, <3>2, <3>5
      <3> QED
        BY <3>1, <3>6 DEF p
    <2>8. RecDelivered'
      <3> SUFFICES ASSUME NEW k \in 1..Len(c2b'), c2b'[k].type = "PUBREC",
                          NEW n \in QoS2Msgs, bSt[n] = "sent", bId[n] = c2b'[k].id
                   PROVE  delivered'[n] = 1
        BY <2>3 DEF RecDelivered
      <3>1. n \in Msgs
        BY QoS2MsgsAssumption
      <3>2. CASE c2b'[k].id = h.id
        BY <2>2, <2>4, <2>5, <3>1, <3>2, QoS2MsgsAssumption
      <3>3. CASE c2b'[k].id # h.id
        <4>1. PICK j \in 1..Len(c2b) : c2b'[k] = c2b[j]
          BY <1>6, <2>1, <3>3
        <4>2. delivered[n] = 1
          BY <1>o, <4>1 DEF RecDelivered
        <4> QED
          BY <2>2, <3>1, <4>2
      <3> QED
        BY <3>2, <3>3
    <2> QED
      BY <2>6, <2>7, <2>8
  <1>9. CASE Pubrel
    <2> DEFINE h == Head(b2c)
    <2>1. ReadPacket("PUBREL") /\ Acknowledge("PUBCOMP") /\ UNCHANGED delivered
      BY <1>9 DEF Pubrel, Acknowledge
    <2>2. /\ h.id \in PacketIds /\ TellsClient(h, bSt, bId) /\ h.type = "PUBREL"
      BY <1>6, <2>1
    <2>3. PICK o \in QoS2Msgs : bSt[o] = "released" /\ bId[o] = h.id
      BY <2>2 DEF TellsClient
    <2>4. \A n \in QoS2Msgs : bSt[n] = "sent" => bId[n] # h.id
      BY <1>0, <2>3, QoS2MsgsAssumption DEF SenderInv, InFlight
    <2>5. ASSUME NEW n \in QoS2Msgs, bSt[n] = "sent", Holds(incomingQoS2messages, bId[n])
          PROVE  Holds(incomingQoS2messages', bId[n])
      <3>1. CASE UNCHANGED incomingQoS2messages
        BY <2>5, <3>1
      <3>2. CASE freeQoS2msgid(h.id)
        <4> HIDE DEF h
        <4>1. \A s \in Slots :
                 \/ incomingQoS2messages'[s] = incomingQoS2messages[s]
                 \/ incomingQoS2messages[s] = h.id /\ incomingQoS2messages'[s] = 0
          BY <1>0, <2>2, <3>2, FreeDoes
        <4> QED
          BY <2>4, <2>5, <4>1 DEF Holds
      <3> QED
        BY <1>9, <3>1, <3>2 DEF Pubrel
    <2>6. \A k \in 1..Len(c2b') : c2b'[k].type = "PUBREC" =>
             \E j \in 1..Len(c2b) : c2b'[k] = c2b[j]
      BY <1>6, <2>1
    <2> QED
      BY <1>0, <1>o, <1>r, <2>1, <2>5, <2>6, OnceSame
  <1>10. CASE NothingRead
    BY <1>0, <1>10, <1>u, KeepaliveDoes DEF NothingRead, ReceiveTypeOK
  <1>12. CASE Network
    BY <1>12, <1>u DEF Network, Drop, LinkLost
  <1>13. CASE SenderAccept /\ UNCHANGED <<recvVars, histVars>>
    <2>1. SenderTake("CONNECT")
      BY <1>13 DEF SenderAccept
    <2>2. ~bOpen /\ b2c = <<>>
      BY <1>0, <2>1, TakeDoes DEF ConnInv
    <2>3. \A k \in 1..Len(c2b') : c2b'[k].type # "PUBREC"
      BY <1>0, <2>1, <2>2, TakeDoes DEF ConnInv, Numbered
    <2>4. \A k \in 1..Len(b2c') : b2c'[k].type # "PUBLISH"
      BY <1>13, <2>2 DEF SenderAccept, SenderReply
    <2>5. UnreadNew' /\ RecDelivered'
      BY <2>3, <2>4 DEF UnreadNew, RecDelivered
    <2>6. CASE UNCHANGED <<bSt, bId>>
      BY <1>o, <1>13, <2>5, <2>6 DEF CountedOnce
    <2>7. CASE Forget
      <3>1. \A m \in Msgs : bSt'[m] = IF m \in InFlight THEN "dropped" ELSE bSt[m]
        BY <1>0, <2>7, ForgetDoes
      <3>2. \A m \in Msgs : bSt'[m] # "sent" /\ (bSt'[m] # "dropped" => bSt'[m] = bSt[m])
        BY <3>1 DEF InFlight
      <3> QED
        BY <1>o, <1>13, <2>5, <3>2, QoS2MsgsAssumption DEF CountedOnce
    <2> QED
      BY <1>13, <2>6, <2>7 DEF SenderAccept
  <1>14. ASSUME NEW m \in Msgs, NEW i \in PacketIds, SendPublish(m, i),
                UNCHANGED <<recvVars, histVars>>
         PROVE  CountedOnce' /\ UnreadNew' /\ RecDelivered'
    <2>1. /\ c2b' = c2b /\ bSt'[m] = "sent" /\ bId'[m] = i /\ bSt[m] = "new"
          /\ \A n \in Msgs : n # m => bSt'[n] = bSt[n] /\ bId'[n] = bId[n]
      BY <1>0, <1>14 DEF SendPublish, SenderTypeOK
    <2>2. m \in QoS2Msgs => delivered[m] = 0
      BY <1>o, <2>1 DEF CountedOnce
    <2> DEFINE b == m \in QoS2Msgs
               p == [type |-> "PUBLISH", id |-> i, msg |-> m, qos2 |-> b]
    <2>3. p \in ToReceiver
      BY ReceiverPackets
    <2>4. b2c' = Append(b2c, p)
      BY <1>14, <2>1 DEF SendPublish, Publish
    <2>p. p.msg = m /\ p.qos2 = b
      OBVIOUS
    <2> HIDE DEF p
    <2>5. ASSUME NEW k \in 1..Len(b2c'), b2c'[k].qos2
          PROVE  (\E j \in 1..Len(b2c) : b2c'[k] = b2c[j]) \/ delivered[b2c'[k].msg] = 0
      <3>1. CASE b2c'[k] = p
        BY <2>2, <2>p, <2>5, <3>1
      <3> QED
        BY <1>0, <2>3, <2>4, <3>1, AppendElement DEF PacketsOK
    <2>6. \A n \in InFlight : bId[n] # i
      BY <1>14 DEF SendPublish
    <2>7. ASSUME NEW k \in 1..Len(c2b), c2b[k].type = "PUBREC"
          PROVE  c2b[k].id # i
      BY <1>0, <2>6, <2>7, OwnMessage DEF Numbered
    <2> QED
      BY <1>o, <1>14, <2>1, <2>2, <2>5, <2>7, OnceMoves
  <1>15. ASSUME NEW m \in Msgs, SendAgain(m), UNCHANGED <<recvVars, histVars>>
         PROVE  CountedOnce' /\ UnreadNew' /\ RecDelivered'
    <2>1. usePersistentSession
      BY <1>0, <1>15 DEF SendAgain, KeptInv
    <2> QED
      BY <1>0, <1>o, <1>15, <2>1, OnceSame DEF SendAgain
  <1>16. ASSUME NEW m \in Msgs, SenderPuback(m) \/ SenderPubcomp(m) \/ SenderPubrec(m),
                UNCHANGED <<recvVars, histVars>>
         PROVE  CountedOnce' /\ UnreadNew' /\ RecDelivered'
    <2>1. PICK t \in {"PUBACK", "PUBCOMP", "PUBREC"} : SenderTake(t)
      BY <1>16 DEF SenderPuback, SenderPubcomp, SenderPubrec
    <2>2. m \in InFlight /\ bId[m] = Head(c2b).id
      BY <1>16 DEF SenderPuback, SenderPubcomp, SenderPubrec, InFlight
    <2>3. /\ \A n \in Msgs : n # m => bSt'[n] = bSt[n] /\ bId'[n] = bId[n]
          /\ bSt'[m] \in {"released", "done"}
      BY <1>0, <1>16 DEF SenderPuback, SenderPubcomp, SenderPubrec, Done, SenderTypeOK
    <2>4. m \in QoS2Msgs => delivered[m] = 1
      <3>1. CASE t = "PUBACK"
        BY <2>1, <2>2, <3>1, AckedMessage
      <3>2. CASE t = "PUBCOMP"
        BY <1>o, <2>1, <2>2, <3>2, AckedMessage DEF CountedOnce
      <3>3. CASE t = "PUBREC"
        <4>1. m \in QoS2Msgs /\ bSt[m] = "sent"
          BY <2>1, <2>2, <3>3, AckedMessage
        <4> QED
          BY <1>0, <1>o, <2>1, <2>2, <3>3, <4>1, TakeDoes DEF RecDelivered
      <3> QED
        BY <2>1, <3>1, <3>2, <3>3
    <2>5. \A k \in 1..Len(c2b') : \E j \in 1..Len(c2b) : c2b'[k] = c2b[j]
      BY <1>0, <2>1, TakeDoes
    <2>6. \A k \in 1..Len(b2c') : b2c'[k].type = "PUBLISH" =>
             \E j \in 1..Len(b2c) : b2c'[k] = b2c[j]
      <3>1. CASE b2c' = b2c
        BY <3>1
      <3>2. CASE b2c' # b2c
        <4> DEFINE e == [type |-> "PUBREL", id |-> bId[m]]
        <4>1. b2c' = Append(b2c, e)
          BY <1>16, <3>2 DEF SenderPuback, SenderPubcomp, SenderPubrec, SenderReply
        <4>2. e \in ToReceiver
          BY <1>0, <2>2, ReceiverPackets DEF SenderInv, InFlight
        <4>3. e.type # "PUBLISH"
          OBVIOUS
        <4> HIDE DEF e
        <4> QED
          BY <1>0, <4>1, <4>2, <4>3, AppendElement DEF PacketsOK
      <3> QED
        BY <3>1, <3>2
    <2> QED
      BY <1>o, <1>16, <2>3, <2>4, <2>5, <2>6, OnceMoves
  <1>18. CASE SenderPing /\ UNCHANGED <<recvVars, histVars>>
    <2>1. SenderTake("PINGREQ") /\ UNCHANGED <<bSt, bId>>
      BY <1>18 DEF SenderPing
    <2>2. \A k \in 1..Len(c2b') : \E j \in 1..Len(c2b) : c2b'[k] = c2b[j]
      BY <1>0, <2>1, TakeDoes
    <2>3. ASSUME NEW k \in 1..Len(b2c'), b2c'[k].type = "PUBLISH"
          PROVE  \E j \in 1..Len(b2c) : b2c'[k] = b2c[j]
      <3> DEFINE e == [type |-> "PINGRESP"]
      <3>1. e \in ToReceiver /\ e.type # "PUBLISH"
        BY OtherPackets
      <3>2. b2c' = b2c \/ b2c' = Append(b2c, e)
        BY <1>18 DEF SenderPing, SenderReply
      <3> HIDE DEF e
      <3>3. CASE b2c' = Append(b2c, e)
        BY <1>0, <2>3, <3>1, <3>3, AppendElement DEF PacketsOK
      <3> QED
        BY <3>2, <3>3
    <2> QED
      BY <1>0, <1>o, <1>18, <2>1, <2>2, <2>3, OnceSame
  <1>19. CASE SenderLosesSession /\ Forgets("broker") /\ UNCHANGED <<recvVars, late>>
    <2>1. "broker" \in forgotBy'
      BY <1>0, <1>19, ForgetsDoes DEF SenderLosesSession, KeptInv
    <2> QED
      BY <2>1
  <1>20. CASE UNCHANGED vars
    BY <1>20, <1>u DEF vars
  <1> QED
    BY <1>1, <1>2, <1>3, <1>5, <1>7, <1>8, <1>9, <1>10, <1>12,
       <1>13, <1>14, <1>15, <1>16, <1>18, <1>19, <1>20
       DEF Next, Client, Sender, SenderStep

LEMMA OnceInit == Init => OnceInv
  BY QoS2MsgsAssumption DEF Init, LinkInit, SenderInit, OnceInv, CountedOnce, UnreadNew, RecDelivered

\* PublishQoS2, Pubrel and the table deliver a QoS 2 message exactly once, through
\* any number of repetitions and lost connections, if the broker keeps no more
\* messages in flight than the table has places.  (With more, a message for which
\* there is no place is acknowledged and never delivered.)
THEOREM ExactlyOnce ==
    Window <= MAX_INCOMING_QOS2_MESSAGES => (Spec => []DeliveredOnce)
  <1> SUFFICES ASSUME Window <= MAX_INCOMING_QOS2_MESSAGES
               PROVE  Spec => []DeliveredOnce
    OBVIOUS
  <1>1. RInv /\ OnceInv /\ [Next]_vars => OnceInv'
    BY OnceStep
  <1>2. OnceInv => DeliveredOnce
    BY DEF OnceInv, CountedOnce, DeliveredOnce
  <1> QED
    BY <1>1, <1>2, OnceInit, Received, PTL DEF Spec
=============================================================================
