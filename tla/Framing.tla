------------------------------ MODULE Framing ------------------------------
(***************************************************************************)
(* MQTT packets as bytes: how MQTT::Client cuts the byte stream of a       *)
(* connection into packets (readPacket and decodePacket, MQTTClient.h),    *)
(* and how large a packet it lets itself write (MQTTPacket_len,            *)
(* MQTTPacket.c).  A packet is a header byte, one to four bytes of         *)
(* remaining length, and that many bytes more.                             *)
(*                                                                         *)
(* The network delivers bytes in order and may stall between any two.  A   *)
(* byte knows the packet and the place it was sent in; read where a length *)
(* is expected, a byte that was not sent as one may have any value.        *)
(***************************************************************************)
EXTENDS Integers, Sequences

CONSTANTS
    Base,                   \* of a digit of the remaining length, 128 in the code
    MAX_MQTT_PACKET_SIZE,   \* size of readbuf and of sendbuf
    Sizes,                  \* remaining lengths of the packets sent
    MaxPackets              \* packets the broker sends on one connection

MAX_NO_OF_REMAINING_LENGTH_BYTES == 4

Limit == Base * Base * Base * Base

ASSUME BaseAssumption == Base \in Nat /\ Base > 1
ASSUME BufferAssumption == MAX_MQTT_PACKET_SIZE \in Nat /\ MAX_MQTT_PACKET_SIZE > 5
ASSUME SizesAssumption == Sizes \subseteq 0..(Limit - 1)
ASSUME MaxPacketsAssumption == MaxPackets \in Nat

VARIABLES
    connected,   \* TlsConnection::m_connected
    stream,      \* bytes sent by the broker and not read yet
    sent,        \* remaining lengths of the packets sent on this connection
    step,        \* what readPacket reads next, or that a packet is being written
    header,      \* the header byte read, readbuf[0]
    digits,      \* bytes of the remaining length read so far
    rem_len,     \* remaining length decoded so far, or of the packet in sendbuf
    readbuf,     \* the packet readPacket has returned last on this connection
    count,       \* history: how many it has returned while nothing was wrong
    hurt         \* history: what has gone wrong on this connection

reading == <<step, header, digits, rem_len>>
vars == <<connected, stream, sent, reading, readbuf, count, hurt>>

(***************************************************************************)
(* The encoding of a remaining length                                      *)
(***************************************************************************)
Power == [k \in 0..MAX_NO_OF_REMAINING_LENGTH_BYTES |->
            CASE k = 0 -> 1
              [] k = 1 -> Base
              [] k = 2 -> Base * Base
              [] k = 3 -> Base * Base * Base
              [] k = 4 -> Limit]

NumDigits(n) ==
    CHOOSE k \in 1..MAX_NO_OF_REMAINING_LENGTH_BYTES :
        /\ n < Power[k]
        /\ k > 1 => n >= Power[k - 1]

\* MQTTPacket_encode: the lowest digit first, the top bit on all but the last.
MQTTPacket_encode(n) ==
    [i \in 1..NumDigits(n) |->
        ((n \div Power[i - 1]) % Base) + IF i < NumDigits(n) THEN Base ELSE 0]

\* Mutant: the header byte is forgotten.
LenWithoutHeader(n) ==
    LET len == n IN
    len + IF len < Power[1] THEN 1
          ELSE IF len < Power[2] THEN 2
          ELSE IF len < Power[3] - 1 THEN 3
          ELSE 4

\* MQTTPacket_len: its estimate of the size of a packet, made from the remaining
\* length plus one.
MQTTPacket_len(n) ==
    LET len == n + 1 IN
    len + IF len < Power[1] THEN 1
          ELSE IF len < Power[2] THEN 2
          ELSE IF len < Power[3] - 1 THEN 3
          ELSE 4

(***************************************************************************)
(* Bytes                                                                   *)
(***************************************************************************)
Byte(k, p, v) == [kind |-> k, packet |-> p, val |-> v]

LengthBytes(p, n) ==
    [i \in 1..NumDigits(n) |-> Byte("length", p, MQTTPacket_encode(n)[i])]

\* The bytes of the p-th packet of the connection, n its remaining length.
Packet(p, n) ==
       <<Byte("header", p, 0)>>
    \o LengthBytes(p, n)
    \o [i \in 1..n |-> Byte("body", p, i)]

\* The values byte b may have when it is read as a digit.
ValuesOf(b) == IF b.kind = "length" THEN {b.val} ELSE 0..(2 * Base - 1)

NoByte == Byte("none", 0, 0)

Bytes ==
         [kind : {"header"}, packet : 1..MaxPackets, val : {0}]
    \cup [kind : {"length"}, packet : 1..MaxPackets, val : 0..(2 * Base - 1)]
    \cup [kind : {"body"}, packet : 1..MaxPackets, val : 1..Limit]

\* Every variable has its type; a remaining length stays below Base^4, within an int.
FramingTypeOK ==
    /\ connected \in BOOLEAN
    /\ stream \in Seq(Bytes)
    /\ sent \in Seq(Sizes)
    /\ step \in {"header", "length", "body", "write"}
    /\ header \in Bytes \cup {NoByte}
    /\ digits \in 0..MAX_NO_OF_REMAINING_LENGTH_BYTES
    /\ rem_len \in IF step = "write" THEN Sizes ELSE 0..(Power[digits] - 1)
    /\ readbuf \in Seq(Bytes)
    /\ count \in 0..MaxPackets
    /\ hurt \subseteq {"stalled", "oversized", "lost"}

Init ==
    /\ connected = FALSE
    /\ stream = <<>>
    /\ sent = <<>>
    /\ step = "header"
    /\ header = NoByte
    /\ digits = 0
    /\ rem_len = 0
    /\ readbuf = <<>>
    /\ count = 0
    /\ hurt = {}

(***************************************************************************)
(* readPacket                                                              *)
(***************************************************************************)
ReadHeader ==
    /\ connected
    /\ step = "header"
    /\ stream # <<>>
    /\ header' = Head(stream)
    /\ stream' = Tail(stream)
    /\ step' = "length"
    /\ UNCHANGED <<connected, sent, digits, rem_len, readbuf, count, hurt>>

\* Mutants: one byte too many is read; the top bit is taken for a part of the digit.
ReadLengthFive ==
    /\ connected
    /\ step = "length"
    /\ stream # <<>>
    /\ \E v \in ValuesOf(Head(stream)) :
           /\ rem_len' = rem_len + (v % Base) * Power[digits]
           /\ step' = IF v >= Base THEN "length" ELSE "body"
    /\ digits' = digits + 1
    /\ stream' = Tail(stream)
    /\ UNCHANGED <<connected, sent, header, readbuf, count, hurt>>
ReadLengthUnmasked ==
    /\ connected
    /\ step = "length"
    /\ digits < MAX_NO_OF_REMAINING_LENGTH_BYTES
    /\ stream # <<>>
    /\ \E v \in ValuesOf(Head(stream)) :
           /\ rem_len' = rem_len + v * Power[digits]
           /\ step' = IF v >= Base THEN "length" ELSE "body"
    /\ digits' = digits + 1
    /\ stream' = Tail(stream)
    /\ UNCHANGED <<connected, sent, header, readbuf, count, hurt>>

\* decodePacket, one byte.
ReadLength ==
    /\ connected
    /\ step = "length"
    /\ digits < MAX_NO_OF_REMAINING_LENGTH_BYTES
    /\ stream # <<>>
    /\ \E v \in ValuesOf(Head(stream)) :
           /\ rem_len' = rem_len + (v % Base) * Power[digits]
           /\ step' = IF v >= Base THEN "length" ELSE "body"
    /\ digits' = digits + 1
    /\ stream' = Tail(stream)
    /\ UNCHANGED <<connected, sent, header, readbuf, count, hurt>>

\* decodePacket ends early, after four bytes that each announce another one, at
\* a byte that does not come in time, or because the connection is lost.  Nobody
\* looks at its result: readPacket goes on with the digits it has.
LengthTooLong ==
    /\ step = "length"
    /\ digits = MAX_NO_OF_REMAINING_LENGTH_BYTES
    /\ step' = "body"
    /\ UNCHANGED <<connected, stream, sent, header, digits, rem_len, readbuf, count, hurt>>

LengthStalls ==
    /\ connected
    /\ step = "length"
    /\ digits < MAX_NO_OF_REMAINING_LENGTH_BYTES
    /\ step' = "body"
    /\ hurt' = hurt \cup {"stalled"}
    /\ UNCHANGED <<connected, stream, sent, header, digits, rem_len, readbuf, count>>

LengthReadFails ==
    /\ connected
    /\ step = "length"
    /\ digits < MAX_NO_OF_REMAINING_LENGTH_BYTES
    /\ step' = "body"
    /\ connected' = FALSE
    /\ hurt' = hurt \cup {"lost"}
    /\ UNCHANGED <<stream, sent, header, digits, rem_len, readbuf, count>>

\* readPacket returns; its variables are gone.
Returned == step' = "header" /\ header' = NoByte /\ digits' = 0 /\ rem_len' = 0

\* The packet as it is in readbuf: the length is the one decoded, written again.
Assembled(body) ==
    <<header>> \o LengthBytes(header.packet, rem_len) \o body

\* Mutant: the header and the length are not counted.
FitsWithoutHeader == rem_len <= MAX_MQTT_PACKET_SIZE

\* The packet fits into readbuf behind its header and its length.
Fits == rem_len <= MAX_MQTT_PACKET_SIZE - (1 + NumDigits(rem_len))

\* BUFFER_OVERFLOW: the rest of the packet stays in the stream.
BodyTooLarge ==
    /\ step = "body"
    /\ ~Fits
    /\ Returned
    /\ hurt' = hurt \cup {"oversized"}
    /\ UNCHANGED <<connected, stream, sent, readbuf, count>>

\* ReadAll gets all of the rest, if there is any, and readPacket returns the type.
ReadBody ==
    /\ step = "body"
    /\ Fits
    /\ rem_len > 0 => connected /\ Len(stream) >= rem_len
    /\ readbuf' = Assembled(SubSeq(stream, 1, rem_len))
    /\ count' = IF hurt = {} THEN count + 1 ELSE count
    /\ stream' = SubSeq(stream, rem_len + 1, Len(stream))
    /\ Returned
    /\ UNCHANGED <<connected, sent, hurt>>

\* ReadAll times out after some of the bytes, which are lost with it.
BodyStalls ==
    /\ connected
    /\ step = "body"
    /\ Fits
    /\ \E k \in 0..Len(stream) :
           /\ k < rem_len
           /\ stream' = SubSeq(stream, k + 1, Len(stream))
    /\ Returned
    /\ hurt' = hurt \cup {"stalled"}
    /\ UNCHANGED <<connected, sent, readbuf, count>>

\* ReadAll fails, on a connection that is lost now or was lost before.
BodyReadFails ==
    /\ step = "body"
    /\ Fits
    /\ rem_len > 0
    /\ connected' = FALSE
    /\ Returned
    /\ hurt' = hurt \cup {"lost"}
    /\ UNCHANGED <<stream, sent, readbuf, count>>

(***************************************************************************)
(* Writing.  A packet of remaining length n that is too large for sendbuf, *)
(* in the estimate of MQTTPacket_len, is refused: nothing is written.      *)
(***************************************************************************)
MQTTSerialize(n) ==
    /\ connected
    /\ step = "header"
    /\ MQTTPacket_len(n) <= MAX_MQTT_PACKET_SIZE
    /\ step' = "write"
    /\ rem_len' = n
    /\ UNCHANGED <<connected, stream, sent, header, digits, readbuf, count, hurt>>

\* The packet is written as a whole, or Write fails and closes the connection.
sendPacket ==
    /\ step = "write"
    /\ Returned
    /\ connected' \in {TRUE, FALSE}
    /\ UNCHANGED <<stream, sent, readbuf, count, hurt>>

(***************************************************************************)
(* The rest of the client and the broker                                   *)
(***************************************************************************)

\* The connection is taken down between two packets: the application ends the
\* session, a command has failed, or the read of a header finds it lost.
Disconnect ==
    /\ connected
    /\ step = "header"
    /\ connected' = FALSE
    /\ UNCHANGED <<stream, sent, reading, readbuf, count, hurt>>

Connect ==
    /\ ~connected
    /\ step = "header"
    /\ connected' = TRUE
    /\ stream' = <<>>
    /\ sent' = <<>>
    /\ readbuf' = <<>>
    /\ count' = 0
    /\ hurt' = {}
    /\ UNCHANGED reading

\* The broker writes a packet of remaining length n.
BrokerSends(n) ==
    /\ connected
    /\ Len(sent) < MaxPackets
    /\ sent' = Append(sent, n)
    /\ stream' = stream \o Packet(Len(sent) + 1, n)
    /\ UNCHANGED <<connected, reading, readbuf, count, hurt>>

Next ==
    \/ ReadHeader
    \/ ReadLength
    \/ LengthTooLong
    \/ LengthStalls
    \/ LengthReadFails
    \/ BodyTooLarge
    \/ ReadBody
    \/ BodyStalls
    \/ BodyReadFails
    \/ \E n \in Sizes : MQTTSerialize(n)
    \/ sendPacket
    \/ \E n \in Sizes : BrokerSends(n)
    \/ Disconnect
    \/ Connect

Spec == Init /\ [][Next]_vars

(***************************************************************************)
(* Properties                                                              *)
(***************************************************************************)

\* As long as nothing has gone wrong on a connection, readPacket returns the
\* packets of the broker one by one, byte for byte and in order, and the next one
\* it reads begins at a packet's header.
PacketsIntact ==
    hurt = {} =>
        /\ count <= Len(sent)
        /\ count > 0 => readbuf = Packet(count, sent[count])
        /\ step = "header" /\ stream # <<>> => Head(stream) = Byte("header", count + 1, 0)

\* Whatever is read as a length, in or out of step, a packet never reaches beyond
\* the end of readbuf.
BufferNotOverrun == Len(readbuf) <= MAX_MQTT_PACKET_SIZE

\* What the MQTTSerialize functions write never reaches beyond the end of sendbuf:
\* the estimate they compare with its size is the size of the packet, or one more.
EstimateSafe ==
    step = "write" =>
        LET size == Len(Packet(1, rem_len))
        IN  /\ size <= MAX_MQTT_PACKET_SIZE
            /\ MQTTPacket_len(rem_len) - size \in {0, 1}

\* MQTTClient.h: if any read fails in readPacket, the client should disconnect; so
\* while it is connected, the next packet starts with a header.
InStep ==
    connected /\ step = "header" /\ stream # <<>> => Head(stream).kind = "header"
=============================================================================
