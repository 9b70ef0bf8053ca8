------------------------------ MODULE MqttLink ------------------------------
(***************************************************************************)
(* The TLS connection between the client and the MQTT broker               *)
(* (net::TlsConnection, lib/netlib/src/tls_connection.cpp) and the MQTT    *)
(* packets that travel over it.                                            *)
(*                                                                         *)
(* link is what the client's end of the connection is:                     *)
(*    "closed"  TlsConnection::m_connected is false;                       *)
(*    "up"      m_connected, and what is written reaches the other end;    *)
(*    "broken"  m_connected, but the connection is lost and the client has *)
(*              not noticed yet.  A write may still be swallowed by the    *)
(*              socket or fail; a read times out or fails.                 *)
(* c2b and b2c are the bytes under way in each direction, one element per  *)
(* packet.  Encryption, the handshake's messages and the byte stream's     *)
(* framing are abstracted away.                                            *)
(***************************************************************************)
EXTENDS Naturals, Sequences

CONSTANTS
    Topics,        \* topics the application uses
    Msgs,          \* messages the application publishes, each at most once
    MaxPacketId,   \* PacketId::MAX_PACKET_ID, 65535 in the code
    FaultKinds,    \* which kinds of faults may happen
    MaxFaults      \* how many faults may happen in one behaviour

ASSUME MaxPacketIdAssumption == MaxPacketId \in Nat \ {0}
ASSUME MaxFaultsAssumption == MaxFaults \in Nat

VARIABLES
    link,    \* the client's end of the TLS connection
    c2b,     \* packets under way from the client to the broker
    b2c,     \* packets under way from the broker to the client
    faults   \* number of faults so far

linkVars == <<link, c2b, b2c>>

PacketIds == 1..MaxPacketId

ToBroker ==
         [type : {"CONNECT"}, clean : BOOLEAN]
    \cup [type : {"SUBSCRIBE", "UNSUBSCRIBE"}, id : PacketIds, topic : Topics]
    \cup [type : {"PUBLISH"}, id : PacketIds, msg : Msgs, qos2 : BOOLEAN]
    \cup [type : {"PUBREL"}, id : PacketIds]
    \cup [type : {"DISCONNECT"}]

ToClient ==
         [type : {"CONNACK"}, accepted : BOOLEAN, sp : BOOLEAN]
    \cup [type : {"SUBACK"}, id : PacketIds, granted : BOOLEAN]
    \cup [type : {"UNSUBACK", "PUBACK", "PUBREC", "PUBCOMP"}, id : PacketIds]

LinkTypeOK ==
    /\ link \in {"closed", "up", "broken"}
    /\ c2b \in Seq(ToBroker)
    /\ b2c \in Seq(ToClient)
    /\ faults \in 0..MaxFaults

LinkInit ==
    /\ link = "closed"
    /\ c2b = <<>>
    /\ b2c = <<>>
    /\ faults = 0

\* A fault of kind k happens in this step.
Fault(k) ==
    /\ k \in FaultKinds
    /\ faults < MaxFaults
    /\ faults' = faults + 1

(***************************************************************************)
(* What the client does with the connection.                               *)
(***************************************************************************)

\* TlsConnection::Connect succeeds: nothing is under way on a new connection.
TlsConnect == link' = "up" /\ c2b' = <<>> /\ b2c' = <<>>

\* TlsConnection::Close: what was written before still reaches the broker, what
\* was not read yet never will be.
Close == link' = "closed" /\ b2c' = <<>> /\ UNCHANGED c2b

\* TlsConnection::Write returns the full length.
WriteOk(p) ==
    /\ link # "closed"
    /\ c2b' = IF link = "up" THEN Append(c2b, p) ELSE c2b
    /\ UNCHANGED link

\* TlsConnection::Write returns an error, having closed the connection.
WriteFails == link # "up" /\ Close

\* TlsConnection::ReadAll of the next packet.
Read ==
    /\ link = "up"
    /\ b2c # <<>>
    /\ b2c' = Tail(b2c)

\* TlsConnection::ReadAll returns an error other than a timeout and closes.
ReadFails == link = "broken" /\ Close

(***************************************************************************)
(* What the network does.                                                  *)
(***************************************************************************)

\* The connection is lost: everything under way on it is lost, and the client
\* has still to notice.
LinkLost ==
    /\ link' = IF link = "up" THEN "broken" ELSE link
    /\ c2b' = <<>>
    /\ b2c' = <<>>

Drop == link = "up" /\ Fault("drop") /\ LinkLost
=============================================================================
