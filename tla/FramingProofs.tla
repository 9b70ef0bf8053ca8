--------------------------- MODULE FramingProofs ---------------------------
(***************************************************************************)
(* Proofs about Framing, for every base of the digits, every size of the   *)
(* buffers and every sequence of packet sizes.                             *)
(***************************************************************************)
EXTENDS Framing, SequenceLemmas, SequenceTheorems

(***************************************************************************)
(* Arithmetic of the remaining length                                      *)
(***************************************************************************)

\* Quotient and remainder are the only numbers that satisfy the equation.
LEMMA DivUnique ==
    ASSUME NEW a \in Nat, NEW b \in Nat, b > 0, NEW q \in Nat, NEW r \in 0..(b - 1),
           a = b * q + r
    PROVE  a \div b = q /\ a % b = r
  <1> DEFINE q2 == a \div b
             r2 == a % b
  <1>1. q2 \in Int /\ r2 \in 0..(b - 1) /\ a = b * q2 + r2
    OBVIOUS
  <1> HIDE DEF q2, r2
  <1>2. ASSUME NEW x \in Int, NEW y \in Int, NEW s \in 0..(b - 1), NEW t \in 0..(b - 1),
               b * x + s = b * y + t
        PROVE  ~(x > y)
    <2> SUFFICES ASSUME x > y PROVE FALSE
      OBVIOUS
    <2>1. x = y + 1 + (x - y - 1) /\ x - y - 1 \in Nat
      OBVIOUS
    <2>2. b * x = b * y + b + b * (x - y - 1)
      BY <2>1
    <2>3. b * (x - y - 1) >= 0
      BY <2>1
    <2>4. b * x \in Int /\ b * y \in Int /\ b * (x - y - 1) \in Int
      OBVIOUS
    <2> QED
      BY <1>2, <2>2, <2>3, <2>4
  <1>3. ~(q2 > q) /\ ~(q > q2)
    BY <1>1, <1>2
  <1>4. q2 = q
    BY <1>1, <1>3
  <1>5. r2 = r
    BY <1>1, <1>4
  <1> QED
    BY <1>4, <1>5 DEF q2, r2

LEMMA PowerValues ==
    /\ Power[0] = 1 /\ Power[1] = Base /\ Power[2] = Base * Base
    /\ Power[3] = Base * Base * Base /\ Power[4] = Limit
  BY DEF Power, MAX_NO_OF_REMAINING_LENGTH_BYTES

\* Each power is Base times the one before.
LEMMA Powers ==
    /\ \A k \in 0..4 : Power[k] \in Nat /\ Power[k] > 0
    /\ \A k \in 0..3 : Power[k + 1] = Base * Power[k] /\ Power[k + 1] > Power[k]
  <1>1. ASSUME NEW x \in Nat, x > 0
        PROVE  Base * x \in Nat /\ Base * x > x /\ Base * x > 0 /\ x * Base = Base * x
    <2>1. Base * x = x + x * (Base - 1) /\ Base - 1 \in Nat /\ Base - 1 > 0
      BY BaseAssumption
    <2>2. x * (Base - 1) > 0 /\ x * (Base - 1) \in Int
      BY <1>1, <2>1, BaseAssumption
    <2> QED
      BY <2>1, <2>2, BaseAssumption
  <1> DEFINE b2 == Base * Base
             b3 == b2 * Base
             b4 == b3 * Base
  <1>2. Base \in Nat /\ Base > 1
    BY BaseAssumption
  <1>3. b2 \in Nat /\ b2 > Base /\ b2 > 0
    BY <1>1, <1>2
  <1> HIDE DEF b2
  <1>4. b3 \in Nat /\ b3 > b2 /\ b3 = Base * b2 /\ b3 > 0
    BY <1>1, <1>3
  <1> HIDE DEF b3
  <1>5. b4 \in Nat /\ b4 > b3 /\ b4 = Base * b3 /\ b4 > 0
    BY <1>1, <1>4
  <1>6. /\ Power[0] = 1 /\ Power[1] = Base /\ Power[2] = b2
        /\ Power[3] = b3 /\ Power[4] = b4
    BY PowerValues DEF b2, b3, b4, Limit
  <1> HIDE DEF b4
  <1>7. b2 = Base * Base
    BY DEF b2
  <1>8. \A k \in 0..4 : k = 0 \/ k = 1 \/ k = 2 \/ k = 3 \/ k = 4
    OBVIOUS
  <1>9. \A k \in 0..4 : Power[k] \in Nat /\ Power[k] > 0
    BY <1>2, <1>3, <1>4, <1>5, <1>6, <1>8
  <1>10. ASSUME NEW k \in 0..3
         PROVE  Power[k + 1] = Base * Power[k] /\ Power[k + 1] > Power[k]
    <2>1. CASE k = 0
      BY <1>2, <1>6, <2>1
    <2>2. CASE k = 1
      BY <1>3, <1>6, <1>7, <2>2
    <2>3. CASE k = 2
      BY <1>4, <1>6, <2>3
    <2>4. CASE k = 3
      BY <1>5, <1>6, <2>4
    <2> QED
      BY <2>1, <2>2, <2>3, <2>4
  <1> QED
    BY <1>9, <1>10

\* How many digits a remaining length has.
LEMMA Digits ==
    ASSUME NEW n \in 0..(Limit - 1)
    PROVE  /\ NumDigits(n) \in 1..4
           /\ n < Power[NumDigits(n)]
           /\ NumDigits(n) > 1 => n >= Power[NumDigits(n) - 1]
  <1>1. n < Power[4] /\ Power[1] \in Nat /\ Power[2] \in Nat /\ Power[3] \in Nat
    BY PowerValues, Powers
  <1>2. \E k \in 1..4 : n < Power[k] /\ (k > 1 => n >= Power[k - 1])
    <2>1. CASE n < Power[1]
      BY <2>1
    <2>2. CASE n >= Power[1] /\ n < Power[2]
      BY <2>2
    <2>3. CASE n >= Power[2] /\ n < Power[3]
      BY <2>3
    <2>4. CASE n >= Power[3]
      BY <1>1, <2>4
    <2> QED
      BY <1>1, <2>1, <2>2, <2>3, <2>4
  <1> QED
    BY <1>2 DEF NumDigits, MAX_NO_OF_REMAINING_LENGTH_BYTES

\* A number is its lower digits, below Power[k], and the others.
LEMMA LowerDigits ==
    ASSUME NEW n \in Nat, NEW k \in 0..3
    PROVE  /\ (n % Power[k]) + ((n \div Power[k]) % Base) * Power[k] = n % Power[k + 1]
           /\ n % Power[k] \in 0..(Power[k] - 1)
           /\ (n \div Power[k]) % Base \in 0..(Base - 1)
  <1> DEFINE P == Power[k]
             q == n \div P
             r == n % P
             d == q % Base
             e == q \div Base
  <1>1. P \in Nat /\ P > 0 /\ Power[k + 1] = Base * P /\ Base \in Nat /\ Base > 1
    BY Powers, BaseAssumption
  <1> HIDE DEF P
  <1>2. q \in Nat /\ r \in 0..(P - 1) /\ n = P * q + r
    BY <1>1
  <1> HIDE DEF q, r
  <1>3. e \in Nat /\ d \in 0..(Base - 1) /\ q = Base * e + d
    BY <1>1, <1>2
  <1> HIDE DEF d, e
  <1>4. P * q = (Base * P) * e + d * P
    <2>1. P * q = P * (Base * e) + P * d
      BY <1>1, <1>3
    <2>2. P * (Base * e) = (Base * P) * e
      BY <1>1, <1>3
    <2> QED
      BY <2>1, <2>2, <1>1, <1>3
  <1>5. Base * P \in Nat /\ Base * P > 0 /\ d * P \in Nat /\ d * P + P <= Base * P
    <2>1. Base * P = (d + 1) * P + (Base - 1 - d) * P /\ Base - 1 - d \in Nat
      BY <1>1, <1>3
    <2>2. (Base - 1 - d) * P \in Nat /\ d * P \in Nat /\ (d + 1) * P = d * P + P
      BY <1>1, <1>3, <2>1
    <2> QED
      BY <2>1, <2>2, <1>1
  <1>6. n = (Base * P) * e + (r + d * P) /\ r + d * P \in 0..(Base * P - 1)
    <2> DEFINE above == (Base * P) * e
               digit == d * P
               power == Base * P
               all == P * q
    <2>1. above \in Nat /\ all = above + digit
      BY <1>1, <1>3, <1>4
    <2>2. digit \in Nat /\ power \in Nat /\ digit + P <= power
      BY <1>5
    <2>3. n = all + r
      BY <1>2
    <2> HIDE DEF above, digit, power, all
    <2>4. n = above + (r + digit) /\ r + digit \in 0..(power - 1)
      BY <1>1, <1>2, <2>1, <2>2, <2>3
    <2> QED
      BY <2>4 DEF above, digit, power
  <1>7. n % (Base * P) = r + d * P
    BY <1>3, <1>5, <1>6, DivUnique
  <1> QED
    BY <1>1, <1>2, <1>3, <1>7 DEF P, q, r, d


(***************************************************************************)
(* The inductive invariant                                                 *)
(***************************************************************************)

\* What readPacket has read fits the step it is at.
ReadingInv ==
    /\ step \in {"length", "body"} => header \in Bytes
    /\ step \in {"header", "write"} => header = NoByte /\ digits = 0
    /\ step = "header" => rem_len = 0

\* A packet that is about to be written was estimated to fit.
WriteInv == step = "write" => MQTTPacket_len(rem_len) <= MAX_MQTT_PACKET_SIZE

Size(n) == 1 + NumDigits(n) + n

\* The bytes readPacket has taken of the packet it is reading.
Taken == IF step \in {"length", "body"} THEN 1 + digits ELSE 0

\* start[p] is the place of the p-th packet in the stream: the packets not returned
\* yet follow each other, the first one without the bytes taken of it, up to the
\* end of the stream.
Layout(start) ==
    /\ start \in [(count + 1)..(Len(sent) + 1) -> Int]
    /\ start[count + 1] = 1 - Taken
    /\ start[Len(sent) + 1] = Len(stream) + 1
    /\ \A p \in (count + 1)..Len(sent) :
          /\ start[p + 1] = start[p] + Size(sent[p])
          /\ start[p + 1] <= Len(stream) + 1
          /\ \A j \in 1..Size(sent[p]) :
                start[p] + j - 1 >= 1 => stream[start[p] + j - 1] = Packet(p, sent[p])[j]

\* The digits taken of the packet that is being read are the lower digits of its
\* remaining length.
PartInv ==
    step \in {"length", "body"} =>
        LET n == sent[count + 1] IN
        /\ count < Len(sent)
        /\ header = Byte("header", count + 1, 0)
        /\ rem_len = n % Power[digits]
        /\ step = "length" => digits < NumDigits(n)
        /\ step = "body" => digits = NumDigits(n)

\* What holds until something goes wrong on the connection.
InStepInv ==
    hurt = {} =>
        /\ count <= Len(sent)
        /\ count > 0 => readbuf = Packet(count, sent[count])
        /\ \E start \in [(count + 1)..(Len(sent) + 1) -> Int] : Layout(start)
        /\ PartInv

FInv ==
    /\ FramingTypeOK
    /\ Len(sent) <= MaxPackets
    /\ ReadingInv
    /\ WriteInv
    /\ BufferNotOverrun
    /\ InStepInv


(***************************************************************************)
(* The bytes of a packet                                                   *)
(***************************************************************************)
\* A header, a length and a body, as one sequence.
Joined(h, l, b) == <<h>> \o l \o b

LEMMA JoinedBytes ==
    ASSUME NEW h \in Bytes, NEW l \in Seq(Bytes), NEW b \in Seq(Bytes)
    PROVE  /\ Joined(h, l, b) \in Seq(Bytes)
           /\ Len(Joined(h, l, b)) = 1 + Len(l) + Len(b)
           /\ Joined(h, l, b)[1] = h
           /\ \A i \in 1..Len(l) : Joined(h, l, b)[1 + i] = l[i]
           /\ \A i \in 1..Len(b) : Joined(h, l, b)[1 + Len(l) + i] = b[i]
  <1> DEFINE s1 == <<h>> \o l
             s == s1 \o b
  <1>1. <<h>> \in Seq(Bytes) /\ Len(<<h>>) = 1 /\ <<h>>[1] = h
        /\ Len(l) \in Nat /\ Len(b) \in Nat
    OBVIOUS
  <1>2. /\ s1 \in Seq(Bytes) /\ Len(s1) = 1 + Len(l)
        /\ \A i \in 1..(1 + Len(l)) : s1[i] = IF i <= 1 THEN h ELSE l[i - 1]
    BY <1>1, ConcatProperties
  <1> HIDE DEF s1
  <1>3. /\ s \in Seq(Bytes) /\ Len(s) = Len(s1) + Len(b)
        /\ \A i \in 1..(Len(s1) + Len(b)) :
              s[i] = IF i <= Len(s1) THEN s1[i] ELSE b[i - Len(s1)]
    BY <1>2, ConcatProperties
  <1>4. Joined(h, l, b) = s
    BY DEF Joined, s1
  <1> HIDE DEF s
  <1>5. s[1] = h
    BY <1>1, <1>2, <1>3
  <1>6. \A i \in 1..Len(l) : s[1 + i] = l[i]
    BY <1>1, <1>2, <1>3
  <1>7. \A i \in 1..Len(b) : s[1 + Len(l) + i] = b[i]
    BY <1>1, <1>2, <1>3
  <1> QED
    BY <1>1, <1>2, <1>3, <1>4, <1>5, <1>6, <1>7

\* Bytes added at the end of a stream, taken from its front, and what is left then.
LEMMA Added ==
    ASSUME NEW q \in Seq(Bytes), NEW t \in Seq(Bytes)
    PROVE  /\ q \o t \in Seq(Bytes)
           /\ Len(q \o t) = Len(q) + Len(t)
           /\ \A i \in 1..Len(q) : (q \o t)[i] = q[i]
           /\ \A i \in 1..Len(t) : (q \o t)[Len(q) + i] = t[i]
  <1>1. Len(q) \in Nat /\ Len(t) \in Nat
    OBVIOUS
  <1>2. /\ q \o t \in Seq(Bytes)
        /\ Len(q \o t) = Len(q) + Len(t)
        /\ \A i \in 1..(Len(q) + Len(t)) :
              (q \o t)[i] = IF i <= Len(q) THEN q[i] ELSE t[i - Len(q)]
    BY ConcatProperties
  <1> QED
    BY <1>1, <1>2

LEMMA Front ==
    ASSUME NEW q \in Seq(Bytes), NEW n \in 0..Len(q)
    PROVE  /\ SubSeq(q, 1, n) \in Seq(Bytes)
           /\ Len(SubSeq(q, 1, n)) = n
           /\ \A i \in 1..n : SubSeq(q, 1, n)[i] = q[i]
  OBVIOUS

LEMMA Rest ==
    ASSUME NEW q \in Seq(Bytes), NEW n \in 0..Len(q)
    PROVE  /\ SubSeq(q, n + 1, Len(q)) \in Seq(Bytes)
           /\ Len(SubSeq(q, n + 1, Len(q))) = Len(q) - n
           /\ \A i \in 1..(Len(q) - n) : SubSeq(q, n + 1, Len(q))[i] = q[i + n]
  OBVIOUS

LEMMA LengthBytesType ==
    ASSUME NEW p \in 1..MaxPackets, NEW n \in 0..(Limit - 1)
    PROVE  LengthBytes(p, n) \in Seq(Bytes) /\ Len(LengthBytes(p, n)) = NumDigits(n)
  <1>1. NumDigits(n) \in 1..4 /\ n \in Nat
    BY Digits, PowerValues, Powers
  <1>2. ASSUME NEW i \in 1..NumDigits(n)
        PROVE  MQTTPacket_encode(n)[i] \in 0..(2 * Base - 1)
    <2> DEFINE d == (n \div Power[i - 1]) % Base
    <2>1. i - 1 \in 0..3 /\ n \in Nat
      BY <1>1
    <2>2. d \in 0..(Base - 1)
      BY <2>1, LowerDigits
    <2>3. MQTTPacket_encode(n)[i] = d + IF i < NumDigits(n) THEN Base ELSE 0
      BY DEF MQTTPacket_encode
    <2> HIDE DEF d
    <2> QED
      BY <2>2, <2>3, BaseAssumption
  <1>3. LengthBytes(p, n) \in [1..NumDigits(n) -> Bytes]
    BY <1>2 DEF LengthBytes, Byte, Bytes
  <1> QED
    BY <1>1, <1>3, FunctionIsSeq

\* The digits of a length byte of a packet: the i-th digit of the remaining length,
\* with the top bit on all but the last.
LEMMA LengthByteValue ==
    ASSUME NEW p \in 1..MaxPackets, NEW n \in 0..(Limit - 1), NEW i \in 1..NumDigits(n),
           NEW v \in ValuesOf(LengthBytes(p, n)[i])
    PROVE  /\ v % Base = (n \div Power[i - 1]) % Base
           /\ v >= Base <=> i < NumDigits(n)
  <1> DEFINE d == (n \div Power[i - 1]) % Base
  <1>1. NumDigits(n) \in 1..4 /\ i - 1 \in 0..3 /\ n \in Nat
    BY Digits, PowerValues, Powers
  <1>2. d \in 0..(Base - 1)
    BY <1>1, LowerDigits
  <1>3. v = d + IF i < NumDigits(n) THEN Base ELSE 0
    BY DEF ValuesOf, LengthBytes, Byte, MQTTPacket_encode
  <1> HIDE DEF d
  <1>4. v \in Nat /\ Base \in Nat /\ Base > 0
    BY <1>2, <1>3, BaseAssumption
  <1>5. v % Base = d
    <2>1. CASE i < NumDigits(n)
      <3>1. v = Base * 1 + d
        BY <1>2, <1>3, <1>4, <2>1
      <3> QED
        BY <1>2, <1>4, <3>1, DivUnique
    <2>2. CASE ~(i < NumDigits(n))
      <3>1. v = Base * 0 + d
        BY <1>2, <1>3, <1>4, <2>2
      <3> QED
        BY <1>2, <1>4, <3>1, DivUnique
    <2> QED
      BY <2>1, <2>2
  <1>6. v >= Base <=> i < NumDigits(n)
    BY <1>1, <1>2, <1>3, <1>4
  <1> QED
    BY <1>5, <1>6 DEF d

LEMMA PacketBytes ==
    ASSUME NEW p \in 1..MaxPackets, NEW n \in 0..(Limit - 1)
    PROVE  /\ Packet(p, n) \in Seq(Bytes)
           /\ Len(Packet(p, n)) = Size(n)
           /\ Packet(p, n)[1] = Byte("header", p, 0)
           /\ \A i \in 1..NumDigits(n) : Packet(p, n)[1 + i] = LengthBytes(p, n)[i]
           /\ \A i \in 1..n : Packet(p, n)[1 + NumDigits(n) + i] = Byte("body", p, i)
  <1> DEFINE h == Byte("header", p, 0)
             l == LengthBytes(p, n)
             b == [i \in 1..n |-> Byte("body", p, i)]
             s == Joined(h, l, b)
  <1>1. h \in Bytes
    BY DEF Byte, Bytes
  <1>2. l \in Seq(Bytes) /\ Len(l) = NumDigits(n)
    BY LengthBytesType
  <1>3. n \in Nat /\ Limit \in Nat
    BY PowerValues, Powers
  <1>4. b \in [1..n -> Bytes]
    BY <1>3 DEF Byte, Bytes
  <1>5. b \in Seq(Bytes) /\ Len(b) = n
    BY <1>3, <1>4, FunctionIsSeq
  <1>6. Packet(p, n) = s
    BY DEF Packet, Joined
  <1>7. \A i \in 1..n : b[i] = Byte("body", p, i)
    OBVIOUS
  <1> HIDE DEF h, l, b
  <1>8. /\ s \in Seq(Bytes)
        /\ Len(s) = 1 + Len(l) + Len(b)
        /\ s[1] = h
        /\ \A i \in 1..Len(l) : s[1 + i] = l[i]
        /\ \A i \in 1..Len(b) : s[1 + Len(l) + i] = b[i]
    BY <1>1, <1>2, <1>5, JoinedBytes, ZenonT(60)
  <1> HIDE DEF s
  <1>9. Len(s) = Size(n)
    BY <1>2, <1>5, <1>8 DEF Size
  <1>10. \A i \in 1..n : s[1 + NumDigits(n) + i] = Byte("body", p, i)
    BY <1>2, <1>5, <1>7, <1>8
  <1>11. \A i \in 1..NumDigits(n) : s[1 + i] = l[i]
    BY <1>2, <1>8
  <1> QED
    BY <1>6, <1>8, <1>9, <1>10, <1>11, Zenon DEF h, l


(***************************************************************************)
(* What the steps do to the layout of the stream                           *)
(***************************************************************************)
LEMMA SentSizes ==
    ASSUME FramingTypeOK
    PROVE  /\ Len(sent) \in Nat /\ count \in Nat /\ Len(stream) \in Nat
           /\ \A p \in 1..Len(sent) :
                 /\ sent[p] \in Sizes /\ sent[p] \in 0..(Limit - 1) /\ sent[p] \in Nat
                 /\ Size(sent[p]) \in Nat /\ NumDigits(sent[p]) \in 1..4
  <1>1. /\ Len(sent) \in Nat /\ count \in Nat /\ Len(stream) \in Nat
        /\ \A p \in 1..Len(sent) : sent[p] \in Sizes
    BY DEF FramingTypeOK
  <1>2. Limit \in Nat
    BY Powers, PowerValues
  <1>3. ASSUME NEW p \in 1..Len(sent)
        PROVE  /\ sent[p] \in Sizes /\ sent[p] \in 0..(Limit - 1) /\ sent[p] \in Nat
               /\ Size(sent[p]) \in Nat /\ NumDigits(sent[p]) \in 1..4
    <2>0. sent[p] \in Sizes
      BY <1>1
    <2>3. sent[p] \in 0..(Limit - 1)
      BY <2>0, SizesAssumption
    <2>1. sent[p] \in Sizes /\ sent[p] \in 0..(Limit - 1) /\ sent[p] \in Nat
      BY <1>2, <2>0, <2>3
    <2>2. NumDigits(sent[p]) \in 1..4
      BY <2>1, Digits
    <2> QED
      BY <2>1, <2>2 DEF Size
  <1> QED
    BY <1>1, <1>3

\* A byte is read.
LEMMA LayoutTail ==
    ASSUME FramingTypeOK, NEW start, Layout(start), count <= Len(sent),
           stream # <<>>, stream' = Tail(stream), Taken \in Int, Taken' = Taken + 1,
           UNCHANGED <<sent, count>>
    PROVE  \E s \in [(count' + 1)..(Len(sent') + 1) -> Int] : Layout(s)'
  <1>1. PICK lo \in Nat : lo = count + 1
    BY SentSizes
  <1>2. PICK hi \in Nat : hi = Len(sent) + 1
    BY SentSizes
  <1> DEFINE s == [q \in lo..hi |-> start[q] - 1]
  <1>3. start \in [lo..hi -> Int] /\ s \in [lo..hi -> Int]
    BY <1>1, <1>2 DEF Layout
  <1>4. /\ Len(stream') = Len(stream) - 1 /\ Len(stream) \in Nat /\ Len(stream') \in Nat
        /\ \A i \in 1..Len(stream') : stream'[i] = stream[i + 1]
    BY HeadTailProperties DEF FramingTypeOK
  <1>5. start[lo] = 1 - Taken /\ start[hi] = Len(stream) + 1 /\ lo \in lo..hi /\ hi \in lo..hi
    <2>1. start[lo] = 1 - Taken /\ start[hi] = Len(stream) + 1
      BY <1>1, <1>2 DEF Layout
    <2>2. lo <= hi
      BY <1>1, <1>2, SentSizes
    <2> QED
      BY <2>1, <2>2
  <1>6. s[lo] = 1 - Taken' /\ s[hi] = Len(stream') + 1
    BY <1>3, <1>4, <1>5
  <1>7. ASSUME NEW p \in lo..Len(sent)
        PROVE  /\ s[p + 1] = s[p] + Size(sent[p])
               /\ s[p + 1] <= Len(stream') + 1
               /\ \A j \in 1..Size(sent[p]) :
                     s[p] + j - 1 >= 1 => stream'[s[p] + j - 1] = Packet(p, sent[p])[j]
    <2>0. /\ p \in lo..hi /\ p + 1 \in lo..hi /\ p \in 1..Len(sent)
      BY <1>1, <1>2, SentSizes
    <2>5. Size(sent[p]) \in Nat
      BY <2>0, SentSizes
    <2>1. /\ start[p] \in Int /\ start[p + 1] \in Int
          /\ s[p] = start[p] - 1 /\ s[p + 1] = start[p + 1] - 1
          /\ Size(sent[p]) \in Nat
      BY <1>3, <2>0, <2>5
    <2>2. /\ start[p + 1] = start[p] + Size(sent[p])
          /\ start[p + 1] <= Len(stream) + 1
          /\ \A j \in 1..Size(sent[p]) :
                start[p] + j - 1 >= 1 => stream[start[p] + j - 1] = Packet(p, sent[p])[j]
      BY <1>1, <1>7 DEF Layout
    <2> HIDE DEF s
    <2>3. s[p + 1] = s[p] + Size(sent[p]) /\ s[p + 1] <= Len(stream') + 1
      BY <1>4, <2>1, <2>2, SMTT(30)
    <2>4. ASSUME NEW j \in 1..Size(sent[p]), s[p] + j - 1 >= 1
          PROVE  stream'[s[p] + j - 1] = Packet(p, sent[p])[j]
      <3>0. /\ start[p] \in Int /\ Size(sent[p]) \in Nat /\ s[p] = start[p] - 1
            /\ s[p] + Size(sent[p]) <= Len(stream') + 1 /\ Len(stream') \in Nat
        BY <1>4, <2>1, <2>3
      <3>1. start[p] + j - 1 >= 1 /\ s[p] + j - 1 \in 1..Len(stream')
            /\ (s[p] + j - 1) + 1 = start[p] + j - 1
        BY <2>4, <3>0, SMTT(30)
      <3>2. stream[start[p] + j - 1] = Packet(p, sent[p])[j]
        BY <2>2, <3>1
      <3> QED
        BY <1>4, <3>1, <3>2
    <2> QED
      BY <2>3, <2>4
  <1> HIDE DEF s
  <1>8. s \in [(count' + 1)..(Len(sent') + 1) -> Int]
    BY <1>1, <1>2, <1>3
  <1>9. Layout(s)'
    BY <1>1, <1>2, <1>3, <1>6, <1>7 DEF Layout
  <1> QED
    BY <1>8, <1>9


\* Taking n bytes away moves the bytes of a packet that is still to come by n.
Shifted(f, g, l, n) == \A i \in 1..l : g[i] = f[i + n]
Lies(f, x, z, packet) == \A j \in 1..z : x + j - 1 >= 1 => f[x + j - 1] = packet[j]

LEMMA MovedPacket ==
    ASSUME NEW n \in Nat, NEW x \in Int, NEW z \in Nat, NEW l \in Nat, NEW f, NEW g,
           NEW packet, Shifted(f, g, l, n), Lies(f, x, z, packet), (x - n) + z <= l + 1
    PROVE  Lies(g, x - n, z, packet)
  <1> SUFFICES ASSUME NEW j \in 1..z, (x - n) + j - 1 >= 1
               PROVE  g[(x - n) + j - 1] = packet[j]
    BY DEF Lies
  <1>1. x + j - 1 >= 1 /\ (x - n) + j - 1 \in 1..l
    OBVIOUS
  <1>2. ((x - n) + j - 1) + n = x + j - 1
    OBVIOUS
  <1>3. g[(x - n) + j - 1] = f[((x - n) + j - 1) + n]
    BY <1>1 DEF Shifted
  <1> QED
    BY <1>1, <1>2, <1>3 DEF Lies

\* The rest of a packet is read.
LEMMA LayoutBody ==
    ASSUME FramingTypeOK, NEW start, Layout(start), count < Len(sent),
           NEW n \in Nat, sent[count + 1] = n, Taken = 1 + NumDigits(n), Taken' = 0,
           n <= Len(stream), Len(stream') = Len(stream) - n,
           \A i \in 1..Len(stream') : stream'[i] = stream[i + n],
           count' = count + 1, sent' = sent
    PROVE  \E s \in [(count' + 1)..(Len(sent') + 1) -> Int] : Layout(s)'
  <1>0. Len(sent) \in Nat /\ count \in Nat /\ Len(stream) \in Nat /\ NumDigits(n) \in 1..4
    BY SentSizes, SMTT(30)
  <1>1. PICK lo \in Nat : lo = count + 1
    BY <1>0
  <1>2. PICK hi \in Nat : hi = Len(sent) + 1
    BY <1>0
  <1> DEFINE s == [q \in (lo + 1)..hi |-> start[q] - n]
  <1>3. start \in [lo..hi -> Int] /\ s \in [(lo + 1)..hi -> Int]
        /\ \A q \in (lo + 1)..hi : start[q] \in Int /\ s[q] = start[q] - n
    BY <1>1, <1>2 DEF Layout
  <1> HIDE DEF s
  <1>4. /\ Len(stream') = Len(stream) - n
        /\ \A i \in 1..Len(stream') : stream'[i] = stream[i + n]
    OBVIOUS
  <1>5. /\ start[lo] = 1 - Taken /\ start[lo + 1] = start[lo] + Size(n)
        /\ start[hi] = Len(stream) + 1
    <2>1. start[lo] = 1 - Taken /\ start[hi] = Len(stream) + 1
      BY <1>1, <1>2 DEF Layout
    <2>2. lo \in (count + 1)..Len(sent)
      BY <1>0, <1>1
    <2>3. start[lo + 1] = start[lo] + Size(sent[lo])
      BY <2>2 DEF Layout
    <2>4. sent[lo] = n
      BY <1>1
    <2> QED
      BY <2>1, <2>3, <2>4
  <1>6. lo + 1 \in (lo + 1)..hi /\ hi \in (lo + 1)..hi
    BY <1>0, <1>1, <1>2
  <1>7. s[lo + 1] = 1 - Taken' /\ s[hi] = Len(stream') + 1
    <2>1. start[lo + 1] = 1 + n
      <3>1. start[lo + 1] = (1 - Taken) + (1 + NumDigits(n) + n) /\ Taken = 1 + NumDigits(n)
        BY <1>5 DEF Size
      <3> QED
        BY <1>0, <3>1
    <2>2. s[lo + 1] = start[lo + 1] - n /\ s[hi] = start[hi] - n
      BY <1>3, <1>6
    <2> HIDE DEF s
    <2> QED
      BY <1>0, <1>4, <1>5, <2>1, <2>2
  <1> HIDE DEF s
  <1>8. ASSUME NEW p \in (lo + 1)..Len(sent)
        PROVE  /\ s[p + 1] = s[p] + Size(sent[p])
               /\ s[p + 1] <= Len(stream') + 1
               /\ \A j \in 1..Size(sent[p]) :
                     s[p] + j - 1 >= 1 => stream'[s[p] + j - 1] = Packet(p, sent[p])[j]
    <2>0. /\ p \in (lo + 1)..hi /\ p + 1 \in (lo + 1)..hi /\ p \in 1..Len(sent)
          /\ p \in (count + 1)..Len(sent)
      BY <1>0, <1>1, <1>2
    <2>1. /\ start[p] \in Int /\ start[p + 1] \in Int
          /\ s[p] = start[p] - n /\ s[p + 1] = start[p + 1] - n
      BY <1>3, <2>0
    <2>5. Size(sent[p]) \in Nat
      BY <2>0, SentSizes
    <2>2. /\ start[p + 1] = start[p] + Size(sent[p])
          /\ start[p + 1] <= Len(stream) + 1
          /\ \A j \in 1..Size(sent[p]) :
                start[p] + j - 1 >= 1 => stream[start[p] + j - 1] = Packet(p, sent[p])[j]
      BY <2>0 DEF Layout
    <2>3. s[p + 1] = s[p] + Size(sent[p]) /\ s[p + 1] <= Len(stream') + 1
      <3>1. ASSUME NEW x \in Int, NEW y \in Int, NEW z \in Nat, NEW l \in Nat,
                   y = x + z, y <= l + 1
            PROVE  y - n = (x - n) + z /\ y - n <= (l - n) + 1
        BY <3>1
      <3>2. /\ start[p + 1] - n = (start[p] - n) + Size(sent[p])
            /\ start[p + 1] - n <= (Len(stream) - n) + 1
        BY <1>0, <2>1, <2>2, <2>5, <3>1, ZenonT(60)
      <3> QED
        BY <2>1, <3>2, Zenon
    <2>4. \A j \in 1..Size(sent[p]) :
             s[p] + j - 1 >= 1 => stream'[s[p] + j - 1] = Packet(p, sent[p])[j]
      <3>0. Len(stream') \in Nat
        BY <1>0, <1>4
      <3>5. Shifted(stream, stream', Len(stream'), n)
        BY <1>4, Zenon DEF Shifted
      <3>1. /\ n \in Nat /\ start[p] \in Int /\ Size(sent[p]) \in Nat /\ Len(stream') \in Nat
            /\ Shifted(stream, stream', Len(stream'), n)
        BY <2>1, <2>5, <3>0, <3>5, Zenon
      <3>2. (start[p] - n) + Size(sent[p]) <= Len(stream') + 1
        BY <2>1, <2>3, Zenon
      <3>3. Lies(stream, start[p], Size(sent[p]), Packet(p, sent[p]))
        BY <2>2 DEF Lies
      <3>4. Lies(stream', start[p] - n, Size(sent[p]), Packet(p, sent[p]))
        BY <3>1, <3>2, <3>3, MovedPacket
      <3> QED
        BY <2>1, <3>4, Zenon DEF Lies
    <2> QED
      BY <2>3, <2>4
  <1>9. s \in [(count' + 1)..(Len(sent') + 1) -> Int]
    BY <1>1, <1>2, <1>3
  <1>10. Layout(s)'
    BY <1>1, <1>2, <1>3, <1>7, <1>8 DEF Layout
  <1> QED
    BY <1>9, <1>10

\* The broker writes a packet.
LEMMA LayoutSends ==
    ASSUME FramingTypeOK, NEW start, Layout(start), count <= Len(sent),
           Len(sent) < MaxPackets, NEW n \in Sizes, BrokerSends(n), Taken' = Taken
    PROVE  \E s \in [(count' + 1)..(Len(sent') + 1) -> Int] : Layout(s)'
  <1>0. /\ Len(sent) \in Nat /\ count \in Nat /\ Len(stream) \in Nat
        /\ n \in 0..(Limit - 1) /\ Size(n) \in Nat
    <2>1. n \in 0..(Limit - 1) /\ Limit \in Nat
      BY SizesAssumption, Powers, PowerValues
    <2> QED
      BY <2>1, SentSizes, Digits DEF Size
  <1>1. PICK lo \in Nat : lo = count + 1
    BY <1>0
  <1>2. PICK hi \in Nat : hi = Len(sent) + 1
    BY <1>0
  <1>3. hi \in 1..MaxPackets /\ lo <= hi
    BY <1>0, <1>1, <1>2, MaxPacketsAssumption
  <1> DEFINE s == [q \in lo..(hi + 1) |-> IF q = hi + 1 THEN start[hi] + Size(n) ELSE start[q]]
  <1>4. /\ start \in [lo..hi -> Int] /\ start[lo] = 1 - Taken
        /\ start[hi] = Len(stream) + 1
    BY <1>1, <1>2 DEF Layout
  <1>5. /\ s \in [lo..(hi + 1) -> Int]
        /\ s[hi + 1] = start[hi] + Size(n)
        /\ \A q \in lo..hi : s[q] = start[q]
    BY <1>0, <1>3, <1>4
  <1> HIDE DEF s
  <1>6. /\ sent' \in Seq(Sizes) /\ Len(sent') = hi /\ sent'[hi] = n
        /\ \A p \in 1..Len(sent) : sent'[p] = sent[p]
    BY <1>2 DEF BrokerSends, FramingTypeOK
  <1>7. /\ Len(stream') = Len(stream) + Size(n)
        /\ \A i \in 1..Len(stream) : stream'[i] = stream[i]
        /\ \A j \in 1..Size(n) : stream'[Len(stream) + j] = Packet(hi, n)[j]
    <2>1. stream' = stream \o Packet(hi, n) /\ stream \in Seq(Bytes)
      BY <1>2 DEF BrokerSends, FramingTypeOK
    <2>2. Packet(hi, n) \in Seq(Bytes) /\ Len(Packet(hi, n)) = Size(n)
      BY <1>0, <1>3, PacketBytes
    <2> DEFINE t == Packet(hi, n)
    <2> HIDE DEF t
    <2>3. /\ Len(stream \o t) = Len(stream) + Len(t)
          /\ \A i \in 1..Len(stream) : (stream \o t)[i] = stream[i]
          /\ \A j \in 1..Len(t) : (stream \o t)[Len(stream) + j] = t[j]
      BY <2>1, <2>2, Added DEF t
    <2> QED
      BY <2>1, <2>2, <2>3 DEF t
  <1>8. s[lo] = 1 - Taken' /\ s[hi + 1] = Len(stream') + 1
    BY <1>0, <1>3, <1>4, <1>5, <1>7
  <1>9. ASSUME NEW p \in lo..hi
        PROVE  /\ s[p + 1] = s[p] + Size(sent'[p])
               /\ s[p + 1] <= Len(stream') + 1
               /\ \A j \in 1..Size(sent'[p]) :
                     s[p] + j - 1 >= 1 => stream'[s[p] + j - 1] = Packet(p, sent'[p])[j]
    <2>1. CASE p = hi
      <3>1. sent'[p] = n /\ s[p] = Len(stream) + 1 /\ s[p + 1] = s[p] + Size(n)
            /\ hi \in lo..hi
        BY <1>3, <1>4, <1>5, <1>6, <2>1
      <3>2. ASSUME NEW j \in 1..Size(n)
            PROVE  s[p] + j - 1 = Len(stream) + j
        BY <1>0, <3>1
      <3> QED
        BY <1>0, <1>7, <2>1, <3>1, <3>2
    <2>2. CASE p # hi
      <3>1. /\ p \in (count + 1)..Len(sent) /\ p \in 1..Len(sent)
            /\ p \in lo..hi /\ p + 1 \in lo..hi
        BY <1>0, <1>1, <1>2, <2>2
      <3>2. /\ sent'[p] = sent[p] /\ s[p] = start[p] /\ s[p + 1] = start[p + 1]
            /\ start[p] \in Int /\ start[p + 1] \in Int
        BY <1>4, <1>5, <1>6, <3>1
      <3>3. Size(sent[p]) \in Nat
        BY <3>1, SentSizes
      <3>4. /\ start[p + 1] = start[p] + Size(sent[p])
            /\ start[p + 1] <= Len(stream) + 1
            /\ \A j \in 1..Size(sent[p]) :
                  start[p] + j - 1 >= 1 => stream[start[p] + j - 1] = Packet(p, sent[p])[j]
        BY <3>1 DEF Layout
      <3>5. ASSUME NEW j \in 1..Size(sent[p]), start[p] + j - 1 >= 1
            PROVE  stream'[start[p] + j - 1] = Packet(p, sent[p])[j]
        <4>1. start[p] + Size(sent[p]) <= Len(stream) + 1
          BY <3>4
        <4>2. start[p] + j - 1 \in 1..Len(stream)
          BY <1>0, <3>2, <3>3, <3>5, <4>1, SMTT(30)
        <4> QED
          BY <1>7, <3>4, <3>5, <4>2
      <3>6. s[p + 1] <= Len(stream') + 1
        BY <1>0, <1>7, <3>2, <3>4
      <3> QED
        BY <3>2, <3>4, <3>5, <3>6
    <2> QED
      BY <2>1, <2>2
  <1>10. count' = count
    BY DEF BrokerSends
  <1>11. s \in [(count' + 1)..(Len(sent') + 1) -> Int]
    BY <1>1, <1>5, <1>6, <1>10
  <1>12. Layout(s)'
    BY <1>1, <1>5, <1>6, <1>8, <1>9, <1>10 DEF Layout
  <1> QED
    BY <1>11, <1>12


(***************************************************************************)
(* The invariant is inductive                                              *)
(***************************************************************************)
LEMMA PowerBound == \A k \in 0..4 : Power[k] \in Nat /\ Power[k] > 0 /\ Power[k] <= Limit
  <1>1. /\ Power[0] < Power[1] /\ Power[1] < Power[2] /\ Power[2] < Power[3]
        /\ Power[3] < Power[4]
    <2>1. \A k \in 0..3 : Power[k + 1] > Power[k]
      BY Powers
    <2>2. Power[0 + 1] > Power[0] /\ Power[1 + 1] > Power[1] /\ Power[2 + 1] > Power[2]
          /\ Power[3 + 1] > Power[3]
      BY <2>1
    <2> QED
      BY <2>2, Powers
  <1>2. /\ Power[0] \in Nat /\ Power[1] \in Nat /\ Power[2] \in Nat /\ Power[3] \in Nat
        /\ Power[4] \in Nat
    BY Powers
  <1>3. Limit = Power[4]
    BY PowerValues
  <1>4. ASSUME NEW k \in 0..4
        PROVE  Power[k] <= Power[4]
    <2>1. k = 0 \/ k = 1 \/ k = 2 \/ k = 3 \/ k = 4
      OBVIOUS
    <2> QED
      BY <1>1, <1>2, <2>1
  <1> QED
    BY <1>3, <1>4, Powers

\* While a packet is read, its remaining length so far is one a packet can have.
LEMMA RemLenBound ==
    ASSUME FramingTypeOK, step # "write"
    PROVE  /\ digits \in 0..4 /\ Power[digits] \in Nat
           /\ rem_len \in 0..(Power[digits] - 1)
           /\ rem_len \in 0..(Limit - 1) /\ rem_len \in Nat
  <1>1. digits \in 0..4 /\ rem_len \in 0..(Power[digits] - 1)
    BY DEF FramingTypeOK, MAX_NO_OF_REMAINING_LENGTH_BYTES
  <1>2. Power[digits] \in Nat /\ Power[digits] <= Limit
    BY <1>1, PowerBound
  <1>3. Limit \in Nat
    BY Powers, PowerValues
  <1> QED
    BY <1>1, <1>2, <1>3

\* What readPacket leaves in readbuf, and in the stream.
LEMMA BodyRead ==
    ASSUME FInv, ReadBody
    PROVE  /\ readbuf' \in Seq(Bytes) /\ Len(readbuf') <= MAX_MQTT_PACKET_SIZE
           /\ readbuf' = Joined(header, LengthBytes(header.packet, rem_len),
                                SubSeq(stream, 1, rem_len))
           /\ rem_len \in 0..Len(stream) /\ rem_len \in 0..(Limit - 1)
           /\ stream' \in Seq(Bytes) /\ Len(stream') = Len(stream) - rem_len
           /\ \A i \in 1..Len(stream') : stream'[i] = stream[i + rem_len]
  <1>1. /\ FramingTypeOK /\ ReadingInv /\ step = "body" /\ stream \in Seq(Bytes)
        /\ Len(stream) \in Nat /\ header \in Bytes
    BY DEF FInv, FramingTypeOK, ReadingInv, ReadBody
  <1>2. rem_len \in 0..(Limit - 1) /\ rem_len \in Nat
    BY <1>1, RemLenBound
  <1>3. rem_len \in 0..Len(stream)
    BY <1>1, <1>2 DEF ReadBody
  <1>4. header.packet \in 1..MaxPackets
    BY <1>1 DEF Bytes
  <1> DEFINE l == LengthBytes(header.packet, rem_len)
             b == SubSeq(stream, 1, rem_len)
  <1>5. l \in Seq(Bytes) /\ Len(l) = NumDigits(rem_len)
    BY <1>2, <1>4, LengthBytesType
  <1>6. b \in Seq(Bytes) /\ Len(b) = rem_len
    BY <1>1, <1>3, Front
  <1>7. readbuf' = Joined(header, l, b)
    BY DEF ReadBody, Assembled, Joined
  <1> HIDE DEF l, b
  <1>8. Joined(header, l, b) \in Seq(Bytes) /\ Len(Joined(header, l, b)) = 1 + Len(l) + Len(b)
    BY <1>1, <1>5, <1>6, JoinedBytes
  <1>9. rem_len <= MAX_MQTT_PACKET_SIZE - (1 + NumDigits(rem_len))
    BY DEF ReadBody, Fits
  <1>10. NumDigits(rem_len) \in 1..4
    BY <1>2, Digits
  <1>11. Len(readbuf') <= MAX_MQTT_PACKET_SIZE
    BY <1>2, <1>5, <1>6, <1>7, <1>8, <1>9, <1>10, BufferAssumption
  <1>12. /\ stream' \in Seq(Bytes) /\ Len(stream') = Len(stream) - rem_len
         /\ \A i \in 1..Len(stream') : stream'[i] = stream[i + rem_len]
    <2>1. stream' = SubSeq(stream, rem_len + 1, Len(stream))
      BY DEF ReadBody
    <2> QED
      BY <1>1, <1>3, <2>1, Rest
  <1> QED
    BY <1>2, <1>3, <1>7, <1>8, <1>11, <1>12 DEF l, b


\* Another digit keeps the number within the next power.
LEMMA DigitAdded ==
    ASSUME NEW k \in 0..3, NEW r \in 0..(Power[k] - 1), NEW d \in 0..(Base - 1)
    PROVE  r + d * Power[k] \in 0..(Power[k + 1] - 1)
  <1> DEFINE P == Power[k]
  <1>1. P \in Nat /\ P > 0 /\ Power[k + 1] = Base * P /\ Base \in Nat
    BY Powers, BaseAssumption
  <1> HIDE DEF P
  <1>2. Base * P = (d + 1) * P + (Base - 1 - d) * P /\ Base - 1 - d \in Nat
    BY <1>1
  <1>3. (Base - 1 - d) * P \in Nat /\ d * P \in Nat /\ (d + 1) * P = d * P + P
    BY <1>1, <1>2
  <1> QED
    BY <1>1, <1>2, <1>3 DEF P

\* What holds whether or not the connection is in step.
SafeInv ==
    /\ FramingTypeOK
    /\ Len(sent) <= MaxPackets
    /\ ReadingInv
    /\ WriteInv
    /\ BufferNotOverrun

\* A byte is read as a digit.
LEMMA SafeReadLength ==
    ASSUME FInv, ReadLength
    PROVE  SafeInv'
  <1>1. /\ FramingTypeOK /\ ReadingInv /\ BufferNotOverrun /\ Len(sent) <= MaxPackets
        /\ step = "length" /\ header \in Bytes /\ stream \in Seq(Bytes) /\ stream # <<>>
        /\ header' = header
    BY DEF FInv, FramingTypeOK, ReadingInv, ReadLength
  <1>2. PICK v \in ValuesOf(Head(stream)) :
            /\ rem_len' = rem_len + (v % Base) * Power[digits]
            /\ step' = IF v >= Base THEN "length" ELSE "body"
    BY DEF ReadLength
  <1>3. Head(stream) \in Bytes /\ stream' \in Seq(Bytes)
    BY <1>1, HeadTailProperties DEF ReadLength
  <1>4. v \in 0..(2 * Base - 1)
    BY <1>2, <1>3 DEF ValuesOf, Bytes
  <1>5. v % Base \in 0..(Base - 1)
    BY <1>4, BaseAssumption
  <1>6. digits \in 0..3 /\ digits' = digits + 1 /\ digits' \in 0..4
    BY <1>1, RemLenBound DEF ReadLength, MAX_NO_OF_REMAINING_LENGTH_BYTES
  <1>7. rem_len \in 0..(Power[digits] - 1)
    BY <1>1, RemLenBound
  <1>8. rem_len' \in 0..(Power[digits'] - 1)
    BY <1>2, <1>5, <1>6, <1>7, DigitAdded
  <1>9. step' \in {"length", "body"}
    BY <1>2
  <1>10. FramingTypeOK'
    BY <1>1, <1>3, <1>6, <1>8, <1>9
       DEF FramingTypeOK, ReadLength, MAX_NO_OF_REMAINING_LENGTH_BYTES
  <1> QED
    BY <1>1, <1>9, <1>10 DEF SafeInv, ReadLength, ReadingInv, WriteInv, BufferNotOverrun

\* A packet is returned, or given up: what its reading has left is gone.
LEMMA SafeReturned ==
    ASSUME FInv, Returned, connected' \in BOOLEAN, stream' \in Seq(Bytes),
           readbuf' \in Seq(Bytes), Len(readbuf') <= MAX_MQTT_PACKET_SIZE,
           count' \in 0..MaxPackets, sent' = sent,
           hurt' \subseteq {"stalled", "oversized", "lost"}
    PROVE  SafeInv'
  <1>1. /\ step' = "header" /\ header' = NoByte /\ digits' = 0 /\ rem_len' = 0
    BY DEF Returned
  <1>2. rem_len' \in 0..(Power[digits'] - 1) /\ digits' \in 0..4
    BY <1>1, Powers
  <1>3. sent' \in Seq(Sizes) /\ Len(sent') <= MaxPackets
    BY DEF FInv, FramingTypeOK
  <1>4. FramingTypeOK'
    BY <1>1, <1>2, <1>3 DEF FramingTypeOK, MAX_NO_OF_REMAINING_LENGTH_BYTES
  <1> QED
    BY <1>1, <1>3, <1>4 DEF SafeInv, ReadingInv, WriteInv, BufferNotOverrun

LEMMA SafeStep ==
    ASSUME FInv, Next
    PROVE  SafeInv'
  <1>0. /\ FramingTypeOK /\ ReadingInv /\ WriteInv /\ BufferNotOverrun
        /\ Len(sent) <= MaxPackets /\ InStepInv /\ stream \in Seq(Bytes)
        /\ connected \in BOOLEAN /\ readbuf \in Seq(Bytes) /\ count \in 0..MaxPackets
        /\ hurt \subseteq {"stalled", "oversized", "lost"}
        /\ Len(readbuf) <= MAX_MQTT_PACKET_SIZE
    BY DEF FInv, FramingTypeOK, BufferNotOverrun
  <1>1. CASE ReadHeader
    <2>1. Head(stream) \in Bytes /\ stream' \in Seq(Bytes)
      BY <1>0, <1>1, HeadTailProperties DEF ReadHeader
    <2>2. FramingTypeOK'
      BY <1>0, <1>1, <2>1 DEF ReadHeader, FramingTypeOK
    <2> QED
      BY <1>0, <1>1, <2>1, <2>2 DEF SafeInv, ReadHeader, ReadingInv, WriteInv, BufferNotOverrun
  <1>2. CASE ReadLength
    BY <1>2, SafeReadLength
  <1>3. CASE LengthTooLong
    BY <1>0, <1>3 DEF LengthTooLong, SafeInv, FramingTypeOK, ReadingInv, WriteInv,
       BufferNotOverrun
  <1>4. CASE LengthStalls
    BY <1>0, <1>4 DEF LengthStalls, SafeInv, FramingTypeOK, ReadingInv, WriteInv,
       BufferNotOverrun
  <1>5. CASE LengthReadFails
    BY <1>0, <1>5 DEF LengthReadFails, SafeInv, FramingTypeOK, ReadingInv, WriteInv,
       BufferNotOverrun
  <1>6. CASE BodyTooLarge
    BY <1>0, <1>6, SafeReturned DEF BodyTooLarge
  <1>7. CASE ReadBody
    <2>1. count' \in 0..MaxPackets
      <3>1. CASE hurt = {}
        <4>1. count < Len(sent)
          BY <1>0, <1>7, <3>1 DEF InStepInv, PartInv, ReadBody
        <4> QED
          BY <1>0, <1>7, <3>1, <4>1, MaxPacketsAssumption, SentSizes DEF ReadBody
      <3>2. CASE hurt # {}
        BY <1>0, <1>7, <3>2 DEF ReadBody
      <3> QED
        BY <3>1, <3>2
    <2>2. /\ readbuf' \in Seq(Bytes) /\ Len(readbuf') <= MAX_MQTT_PACKET_SIZE
          /\ stream' \in Seq(Bytes)
      BY <1>7, BodyRead
    <2>3. Returned /\ UNCHANGED <<connected, sent, hurt>>
      BY <1>7 DEF ReadBody
    <2> QED
      BY <1>0, <2>1, <2>2, <2>3, SafeReturned
  <1>8. CASE BodyStalls
    <2>1. PICK k \in 0..Len(stream) : stream' = SubSeq(stream, k + 1, Len(stream))
      BY <1>8 DEF BodyStalls
    <2>2. stream' \in Seq(Bytes)
      BY <1>0, <2>1, Rest
    <2> QED
      BY <1>0, <1>8, <2>2, SafeReturned DEF BodyStalls
  <1>9. CASE BodyReadFails
    BY <1>0, <1>9, SafeReturned DEF BodyReadFails
  <1>10. ASSUME NEW n \in Sizes, MQTTSerialize(n)
         PROVE  SafeInv'
    <2>1. /\ step' = "write" /\ rem_len' = n /\ MQTTPacket_len(n) <= MAX_MQTT_PACKET_SIZE
          /\ UNCHANGED <<connected, stream, sent, header, digits, readbuf, count, hurt>>
          /\ step = "header"
      BY <1>10 DEF MQTTSerialize
    <2>2. FramingTypeOK'
      BY <1>0, <2>1 DEF FramingTypeOK
    <2>3. WriteInv' /\ ReadingInv'
      BY <1>0, <2>1 DEF WriteInv, ReadingInv
    <2> QED
      BY <1>0, <2>1, <2>2, <2>3 DEF SafeInv, BufferNotOverrun
  <1>11. CASE sendPacket
    <2>1. connected' \in BOOLEAN
      BY <1>11 DEF sendPacket
    <2> QED
      BY <1>0, <1>11, <2>1, SafeReturned DEF sendPacket
  <1>12. ASSUME NEW n \in Sizes, BrokerSends(n)
         PROVE  SafeInv'
    <2>1. /\ Len(sent) \in Nat /\ Len(sent) < MaxPackets /\ sent' = Append(sent, n)
          /\ n \in 0..(Limit - 1)
      BY <1>0, <1>12, SentSizes, SizesAssumption DEF BrokerSends
    <2>2. Len(sent) + 1 \in 1..MaxPackets
      BY <2>1, MaxPacketsAssumption
    <2>3. Packet(Len(sent) + 1, n) \in Seq(Bytes)
      BY <2>1, <2>2, PacketBytes
    <2>4. stream' \in Seq(Bytes)
      <3>1. stream' = stream \o Packet(Len(sent) + 1, n)
        BY <1>12 DEF BrokerSends
      <3> QED
        BY <1>0, <2>3, <3>1, Added
    <2>5. sent' \in Seq(Sizes) /\ Len(sent') <= MaxPackets
      BY <1>0, <2>1, <2>2 DEF FramingTypeOK
    <2>6. FramingTypeOK'
      BY <1>0, <1>12, <2>4, <2>5 DEF BrokerSends, reading, FramingTypeOK
    <2> QED
      BY <1>0, <1>12, <2>5, <2>6 DEF BrokerSends, reading, SafeInv, ReadingInv, WriteInv,
         BufferNotOverrun
  <1>13. CASE Disconnect
    BY <1>0, <1>13 DEF Disconnect, reading, SafeInv, FramingTypeOK, ReadingInv, WriteInv,
       BufferNotOverrun
  <1>14. CASE Connect
    <2>1. Len(sent') = 0 /\ sent' \in Seq(Sizes) /\ stream' \in Seq(Bytes)
          /\ readbuf' \in Seq(Bytes) /\ Len(readbuf') = 0 /\ count' \in 0..MaxPackets
      BY <1>14, MaxPacketsAssumption DEF Connect
    <2> QED
      BY <1>0, <1>14, <2>1, MaxPacketsAssumption, BufferAssumption
         DEF Connect, reading, SafeInv, FramingTypeOK, ReadingInv, WriteInv, BufferNotOverrun
  <1> QED
    BY <1>1, <1>2, <1>3, <1>4, <1>5, <1>6, <1>7, <1>8, <1>9, <1>10, <1>11, <1>12, <1>13, <1>14
       DEF Next


\* The first byte of what is left of the packet that is being read.
LEMMA NextByte ==
    ASSUME FInv, NEW start, Layout(start), count <= Len(sent), stream # <<>>, Taken \in Nat
    PROVE  count < Len(sent) =>
              (Taken < Size(sent[count + 1]) =>
                  Head(stream) = Packet(count + 1, sent[count + 1])[Taken + 1])
  <1> SUFFICES ASSUME count < Len(sent), Taken < Size(sent[count + 1])
               PROVE  Head(stream) = Packet(count + 1, sent[count + 1])[Taken + 1]
    OBVIOUS
  <1>1. /\ FramingTypeOK /\ count \in Nat /\ Len(sent) \in Nat
        /\ stream \in Seq(Bytes)
    BY SentSizes DEF FInv, FramingTypeOK
  <1>2. count + 1 \in (count + 1)..Len(sent) /\ count + 1 \in 1..Len(sent)
    BY <1>1
  <1>3. Size(sent[count + 1]) \in Nat
    BY <1>1, <1>2, SentSizes
  <1>4. Taken + 1 \in 1..Size(sent[count + 1])
    BY <1>3
  <1>5. start[count + 1] = 1 - Taken
    BY DEF Layout
  <1>6. start[count + 1] + (Taken + 1) - 1 = 1
    BY <1>5
  <1>7. start[count + 1] + (Taken + 1) - 1 >= 1 =>
            stream[start[count + 1] + (Taken + 1) - 1]
              = Packet(count + 1, sent[count + 1])[Taken + 1]
    BY <1>2, <1>4 DEF Layout
  <1>8. stream[1] = Packet(count + 1, sent[count + 1])[Taken + 1]
    BY <1>6, <1>7
  <1>9. Head(stream) = stream[1]
    BY <1>1
  <1> QED
    BY <1>8, <1>9

\* Nothing is left in the stream once every packet has been read.
LEMMA NothingLeft ==
    ASSUME FramingTypeOK, NEW start, Layout(start), count <= Len(sent), Taken \in Nat,
           stream # <<>>
    PROVE  count < Len(sent)
  <1>1. count \in Nat /\ Len(sent) \in Nat /\ Len(stream) \in Nat /\ Len(stream) > 0
    BY SentSizes DEF FramingTypeOK
  <1> SUFFICES ASSUME count = Len(sent) PROVE FALSE
    BY <1>1
  <1>2. start[count + 1] = 1 - Taken /\ start[Len(sent) + 1] = Len(stream) + 1
    BY DEF Layout
  <1>3. 1 - Taken = Len(stream) + 1
    BY <1>2
  <1> QED
    BY <1>1, <1>3


LEMMA InStepHeader ==
    ASSUME FInv, ReadHeader, hurt = {}
    PROVE  InStepInv'
  <1>1. /\ FramingTypeOK /\ count <= Len(sent) /\ count \in Nat /\ Len(sent) \in Nat
        /\ count > 0 => readbuf = Packet(count, sent[count])
        /\ step = "header" /\ digits = 0 /\ rem_len = 0
        /\ stream # <<>> /\ Len(sent) <= MaxPackets
    BY SentSizes DEF FInv, InStepInv, ReadHeader, ReadingInv
  <1>2. PICK start : Layout(start)
    BY DEF FInv, InStepInv
  <1>3. Taken = 0 /\ Taken' = 1
    BY <1>1 DEF ReadHeader, Taken
  <1>4. count < Len(sent)
    BY <1>1, <1>2, <1>3, NothingLeft
  <1> DEFINE n == sent[count + 1]
  <1>5. count + 1 \in 1..Len(sent) /\ count + 1 \in 1..MaxPackets
    BY <1>1, <1>4, MaxPacketsAssumption
  <1>6. n \in 0..(Limit - 1) /\ n \in Nat /\ Size(n) \in Nat /\ NumDigits(n) \in 1..4
    BY <1>1, <1>5, SentSizes
  <1>7. Size(n) > 0
    BY <1>6 DEF Size
  <1>8. Head(stream) = Packet(count + 1, n)[0 + 1]
    BY <1>1, <1>2, <1>3, <1>4, <1>7, NextByte
  <1>9. Head(stream) = Byte("header", count + 1, 0)
    BY <1>5, <1>6, <1>8, PacketBytes
  <1>10. \E s \in [(count' + 1)..(Len(sent') + 1) -> Int] : Layout(s)'
    BY <1>1, <1>2, <1>3, LayoutTail DEF ReadHeader
  <1>11. n % Power[0] = 0
    BY <1>6, PowerValues
  <1>12. /\ header' = Head(stream) /\ step' = "length"
         /\ UNCHANGED <<sent, digits, rem_len, readbuf, count>>
    BY DEF ReadHeader
  <1>13. PartInv'
    BY <1>1, <1>4, <1>6, <1>9, <1>11, <1>12 DEF PartInv
  <1> QED
    BY <1>1, <1>10, <1>12, <1>13 DEF InStepInv

LEMMA InStepLength ==
    ASSUME FInv, ReadLength, hurt = {}
    PROVE  InStepInv'
  <1> DEFINE n == sent[count + 1]
  <1>1. /\ FramingTypeOK /\ count < Len(sent) /\ count \in Nat /\ Len(sent) \in Nat
        /\ count > 0 => readbuf = Packet(count, sent[count])
        /\ step = "length" /\ digits < NumDigits(n) /\ rem_len = n % Power[digits]
        /\ header = Byte("header", count + 1, 0)
        /\ stream # <<>> /\ Len(sent) <= MaxPackets /\ digits \in 0..4 /\ count <= Len(sent)
    BY SentSizes, RemLenBound DEF FInv, InStepInv, PartInv, ReadLength
  <1>2. PICK start : Layout(start)
    BY DEF FInv, InStepInv
  <1>3. PICK v \in ValuesOf(Head(stream)) :
            /\ rem_len' = rem_len + (v % Base) * Power[digits]
            /\ step' = IF v >= Base THEN "length" ELSE "body"
    BY DEF ReadLength
  <1>4. /\ digits' = digits + 1 /\ UNCHANGED <<sent, header, readbuf, count>>
    BY DEF ReadLength
  <1>5. Taken = 1 + digits /\ Taken' = Taken + 1 /\ Taken \in Nat
    BY <1>1, <1>3, <1>4 DEF Taken
  <1>6. count + 1 \in 1..Len(sent) /\ count + 1 \in 1..MaxPackets
    BY <1>1, MaxPacketsAssumption
  <1>7. n \in 0..(Limit - 1) /\ n \in Nat /\ Size(n) \in Nat /\ NumDigits(n) \in 1..4
    BY <1>1, <1>6, SentSizes
  <1> HIDE DEF n
  <1>8. Taken < Size(n) /\ digits + 1 \in 1..NumDigits(n) /\ digits \in 0..3
    BY <1>1, <1>5, <1>7 DEF Size
  <1>9. Head(stream) = Packet(count + 1, n)[Taken + 1]
    BY <1>1, <1>2, <1>5, <1>8, NextByte DEF n
  <1>10. Head(stream) = LengthBytes(count + 1, n)[digits + 1]
    <2>1. Taken + 1 = 1 + (digits + 1)
      BY <1>1, <1>5
    <2> QED
      BY <1>6, <1>7, <1>8, <1>9, <2>1, PacketBytes
  <1>11. /\ v % Base = (n \div Power[(digits + 1) - 1]) % Base
         /\ v >= Base <=> digits + 1 < NumDigits(n)
    BY <1>3, <1>6, <1>7, <1>8, <1>10, LengthByteValue
  <1>12. (digits + 1) - 1 = digits
    BY <1>1
  <1>13. rem_len' = n % Power[digits']
    <2>1. (n % Power[digits]) + ((n \div Power[digits]) % Base) * Power[digits]
            = n % Power[digits + 1]
      BY <1>7, <1>8, LowerDigits
    <2> QED
      BY <1>1, <1>3, <1>4, <1>11, <1>12, <2>1
  <1>14. \E s \in [(count' + 1)..(Len(sent') + 1) -> Int] : Layout(s)'
    BY <1>1, <1>2, <1>4, <1>5, LayoutTail DEF ReadLength
  <1>15. /\ step' = "length" => digits' < NumDigits(n)
         /\ step' = "body" => digits' = NumDigits(n)
    BY <1>3, <1>4, <1>7, <1>8, <1>11
  <1>16. PartInv'
    BY <1>1, <1>4, <1>13, <1>15 DEF PartInv, n
  <1> QED
    BY <1>1, <1>4, <1>14, <1>16 DEF InStepInv

LEMMA InStepBody ==
    ASSUME FInv, ReadBody, hurt = {}
    PROVE  InStepInv'
  <1>1. PICK n : n = sent[count + 1]
    OBVIOUS
  <1>2. PICK c \in Nat : c = count + 1
    BY SentSizes DEF FInv
  <1>3. /\ FramingTypeOK /\ count < Len(sent) /\ count \in Nat /\ Len(sent) \in Nat
        /\ step = "body" /\ digits = NumDigits(n) /\ rem_len = n % Power[digits]
        /\ header = Byte("header", c, 0)
        /\ Len(sent) <= MaxPackets /\ Len(stream) \in Nat /\ stream \in Seq(Bytes)
    BY <1>1, <1>2, SentSizes DEF FInv, InStepInv, PartInv, ReadBody, FramingTypeOK
  <1>4. PICK start : Layout(start)
    BY DEF FInv, InStepInv
  <1>5. c \in 1..Len(sent) /\ c \in 1..MaxPackets /\ c \in (count + 1)..Len(sent)
    BY <1>2, <1>3, MaxPacketsAssumption
  <1>6. n \in 0..(Limit - 1) /\ n \in Nat /\ Size(n) \in Nat /\ NumDigits(n) \in 1..4
    BY <1>1, <1>2, <1>3, <1>5, SentSizes
  <1>7. rem_len = n
    <2>1. n < Power[NumDigits(n)]
      BY <1>6, Digits
    <2>2. PICK P \in Nat : P = Power[NumDigits(n)] /\ P > 0
      BY <1>6, Powers
    <2>3. n = P * 0 + n /\ n \in 0..(P - 1)
      BY <1>6, <2>1, <2>2
    <2>4. n % P = n
      BY <1>6, <2>2, <2>3, DivUnique
    <2> QED
      BY <1>3, <2>2, <2>4
  <1>8. /\ readbuf' = Joined(header, LengthBytes(header.packet, n), SubSeq(stream, 1, n))
        /\ n \in 0..Len(stream)
        /\ Len(stream') = Len(stream) - n
        /\ \A i \in 1..Len(stream') : stream'[i] = stream[i + n]
    BY <1>7, BodyRead
  <1>9. Taken = 1 + NumDigits(n) /\ Taken' = 0
    BY <1>3 DEF Taken, ReadBody, Returned
  <1>10. /\ count' = count + 1 /\ sent' = sent /\ step' = "header"
    BY DEF ReadBody, Returned
  <1>11. \E s \in [(count' + 1)..(Len(sent') + 1) -> Int] : Layout(s)'
    <2>1. sent[count + 1] = n /\ n <= Len(stream)
      BY <1>1, <1>3, <1>8
    <2> QED
      BY <1>3, <1>4, <1>6, <1>8, <1>9, <1>10, <2>1, LayoutBody
  <1>12. ASSUME NEW i \in 1..n
         PROVE  stream[i] = Byte("body", c, i)
    <2>1. start[c] = 1 - Taken /\ sent[c] = n
      BY <1>1, <1>2, <1>4 DEF Layout
    <2>2. PICK j \in 1..Size(n) : j = 1 + NumDigits(n) + i
      BY <1>6 DEF Size
    <2>3. start[c] + j - 1 = i /\ i >= 1
      BY <1>6, <1>9, <2>1, <2>2
    <2>4. start[c] + j - 1 >= 1 => stream[start[c] + j - 1] = Packet(c, n)[j]
      BY <1>4, <1>5, <2>1 DEF Layout
    <2>5. Packet(c, n)[j] = Byte("body", c, i)
      BY <1>5, <1>6, <2>2, PacketBytes
    <2> QED
      BY <2>3, <2>4, <2>5
  <1> DEFINE b == [i \in 1..n |-> Byte("body", c, i)]
  <1>13. SubSeq(stream, 1, n) = b
    <2>1. /\ SubSeq(stream, 1, n) \in Seq(Bytes) /\ Len(SubSeq(stream, 1, n)) = n
          /\ \A i \in 1..n : SubSeq(stream, 1, n)[i] = stream[i]
      BY <1>3, <1>8, Front
    <2>2. SubSeq(stream, 1, n) \in [1..n -> Bytes]
      BY <2>1, LenProperties
    <2>3. \A i \in 1..n : SubSeq(stream, 1, n)[i] = Byte("body", c, i)
      BY <1>12, <2>1
    <2> QED
      BY <2>2, <2>3
  <1>14. header.packet = c
    BY <1>3 DEF Byte
  <1>15. readbuf' = Packet(c, n)
    BY <1>3, <1>8, <1>13, <1>14 DEF Packet, Joined
  <1>16. count' > 0 => readbuf' = Packet(count', sent'[count'])
    BY <1>1, <1>2, <1>10, <1>15
  <1>17. count' <= Len(sent')
    BY <1>3, <1>10
  <1>18. PartInv'
    BY <1>10 DEF PartInv
  <1> QED
    BY <1>11, <1>16, <1>17, <1>18 DEF InStepInv


LEMMA InStepSends ==
    ASSUME FInv, NEW n \in Sizes, BrokerSends(n), hurt = {}
    PROVE  InStepInv'
  <1>1. /\ FramingTypeOK /\ count <= Len(sent) /\ count \in Nat /\ Len(sent) \in Nat
        /\ count > 0 => readbuf = Packet(count, sent[count])
        /\ PartInv /\ Len(sent) < MaxPackets /\ sent \in Seq(Sizes)
    BY SentSizes DEF FInv, InStepInv, BrokerSends, FramingTypeOK
  <1>2. PICK start : Layout(start)
    BY DEF FInv, InStepInv
  <1>3. UNCHANGED <<step, header, digits, rem_len, readbuf, count>>
    BY DEF BrokerSends, reading
  <1>4. Taken' = Taken
    BY <1>3 DEF Taken
  <1>5. \E s \in [(count' + 1)..(Len(sent') + 1) -> Int] : Layout(s)'
    BY <1>1, <1>2, <1>4, LayoutSends
  <1>6. Len(sent') = Len(sent) + 1 /\ \A p \in 1..Len(sent) : sent'[p] = sent[p]
    BY <1>1 DEF BrokerSends
  <1>7. count' > 0 => readbuf' = Packet(count', sent'[count'])
    BY <1>1, <1>3, <1>6
  <1>8. PartInv'
    <2> SUFFICES ASSUME step \in {"length", "body"} PROVE PartInv'
      BY <1>3 DEF PartInv
    <2>1. count < Len(sent)
      BY <1>1 DEF PartInv
    <2>2. count + 1 \in 1..Len(sent) /\ sent'[count + 1] = sent[count + 1]
      BY <1>1, <1>6, <2>1
    <2>3. count < Len(sent')
      BY <1>1, <1>6, <2>1
    <2> QED
      BY <1>1, <1>3, <2>2, <2>3 DEF PartInv
  <1> QED
    BY <1>1, <1>3, <1>5, <1>6, <1>7, <1>8 DEF InStepInv

\* A connection on which nothing has been sent.
LEMMA InStepFresh ==
    ASSUME sent' = <<>>, stream' = <<>>, count' = 0, step' = "header"
    PROVE  InStepInv'
  <1> DEFINE s == [q \in 1..1 |-> 1]
  <1>1. Len(sent') = 0 /\ Len(stream') = 0
    OBVIOUS
  <1>2. s \in [1..1 -> Int] /\ s[1] = 1
    OBVIOUS
  <1>3. Taken' = 0 /\ PartInv'
    BY DEF Taken, PartInv
  <1> HIDE DEF s
  <1>4. s \in [(count' + 1)..(Len(sent') + 1) -> Int]
    BY <1>1, <1>2
  <1>5. Layout(s)'
    BY <1>1, <1>2, <1>3, <1>4 DEF Layout
  <1> QED
    BY <1>1, <1>3, <1>4, <1>5 DEF InStepInv

\* Nothing is read and nothing is sent.
LEMMA InStepSame ==
    ASSUME InStepInv, hurt = {}, UNCHANGED <<stream, sent, readbuf, count>>,
           step \notin {"length", "body"}, step' \notin {"length", "body"}
    PROVE  InStepInv'
  <1>1. Taken' = Taken /\ PartInv'
    BY DEF Taken, PartInv
  <1>2. /\ count <= Len(sent)
        /\ count > 0 => readbuf = Packet(count, sent[count])
    BY DEF InStepInv
  <1>3. PICK s \in [(count + 1)..(Len(sent) + 1) -> Int] : Layout(s)
    BY DEF InStepInv
  <1>4. Layout(s)'
    BY <1>1, <1>3 DEF Layout
  <1>5. \E t \in [(count' + 1)..(Len(sent') + 1) -> Int] : Layout(t)'
    BY <1>3, <1>4
  <1> QED
    BY <1>1, <1>2, <1>5 DEF InStepInv

LEMMA InStepStep ==
    ASSUME FInv, Next
    PROVE  InStepInv'
  <1> SUFFICES ASSUME hurt' = {} PROVE InStepInv'
    BY DEF InStepInv
  <1>0. FramingTypeOK /\ InStepInv
    BY DEF FInv
  <1>1. CASE ReadHeader
    BY <1>1, InStepHeader DEF ReadHeader
  <1>2. CASE ReadLength
    BY <1>2, InStepLength DEF ReadLength
  <1>3. CASE LengthTooLong
    <2>1. hurt = {} /\ step = "length" /\ digits = 4
      BY <1>3 DEF LengthTooLong, MAX_NO_OF_REMAINING_LENGTH_BYTES
    <2>2. count < Len(sent) /\ digits < NumDigits(sent[count + 1])
      BY <1>0, <2>1 DEF InStepInv, PartInv
    <2>3. count + 1 \in 1..Len(sent)
      BY <1>0, <2>2, SentSizes
    <2>4. NumDigits(sent[count + 1]) \in 1..4
      BY <1>0, <2>3, SentSizes
    <2> QED
      BY <2>1, <2>2, <2>4
  <1>4. CASE LengthStalls \/ LengthReadFails \/ BodyTooLarge \/ BodyStalls \/ BodyReadFails
    BY <1>4 DEF LengthStalls, LengthReadFails, BodyTooLarge, BodyStalls, BodyReadFails
  <1>5. CASE ReadBody
    BY <1>5, InStepBody DEF ReadBody
  <1>6. ASSUME NEW n \in Sizes, MQTTSerialize(n)
        PROVE  InStepInv'
    BY <1>0, <1>6, InStepSame DEF MQTTSerialize
  <1>7. CASE sendPacket
    BY <1>0, <1>7, InStepSame DEF sendPacket, Returned
  <1>8. ASSUME NEW n \in Sizes, BrokerSends(n)
        PROVE  InStepInv'
    BY <1>8, InStepSends DEF BrokerSends
  <1>9. CASE Disconnect
    BY <1>0, <1>9, InStepSame DEF Disconnect, reading
  <1>10. CASE Connect
    BY <1>10, InStepFresh DEF Connect, reading
  <1> QED
    BY <1>1, <1>2, <1>3, <1>4, <1>5, <1>6, <1>7, <1>8, <1>9, <1>10 DEF Next

LEMMA FInvInit == Init => FInv
  <1> SUFFICES ASSUME Init PROVE FInv
    OBVIOUS
  <1>1. /\ <<>> \in Seq(Bytes) /\ <<>> \in Seq(Sizes) /\ Len(<<>>) = 0
        /\ 0 \in 0..(Power[0] - 1) /\ 0 \in 0..MaxPackets
    BY Powers, PowerValues, MaxPacketsAssumption
  <1>2. FramingTypeOK
    <2>1. rem_len \in 0..(Power[digits] - 1) /\ step # "write" /\ digits \in 0..4
      BY <1>1 DEF Init
    <2>2. header \in Bytes \cup {NoByte} /\ hurt \subseteq {"stalled", "oversized", "lost"}
      BY DEF Init
    <2>3. stream \in Seq(Bytes) /\ sent \in Seq(Sizes) /\ readbuf \in Seq(Bytes)
      BY <1>1 DEF Init
    <2>4. connected \in BOOLEAN /\ count \in 0..MaxPackets
          /\ step \in {"header", "length", "body", "write"}
      BY <1>1 DEF Init
    <2> QED
      BY <2>1, <2>2, <2>3, <2>4 DEF FramingTypeOK, MAX_NO_OF_REMAINING_LENGTH_BYTES
  <1>3. ReadingInv /\ WriteInv /\ BufferNotOverrun /\ Len(sent) <= MaxPackets
    BY <1>1, MaxPacketsAssumption, BufferAssumption
       DEF Init, ReadingInv, WriteInv, BufferNotOverrun
  <1>4. InStepInv
    <2> DEFINE s == [q \in 1..1 |-> 1]
    <2>1. Len(sent) = 0 /\ Len(stream) = 0 /\ count = 0
      BY DEF Init
    <2>2. s \in [1..1 -> Int] /\ s[1] = 1
      OBVIOUS
    <2>3. Taken = 0 /\ PartInv
      BY DEF Taken, PartInv, Init
    <2> HIDE DEF s
    <2>4. s \in [(count + 1)..(Len(sent) + 1) -> Int]
      BY <2>1, <2>2
    <2>5. Layout(s)
      BY <2>1, <2>2, <2>3, <2>4 DEF Layout
    <2> QED
      BY <2>1, <2>3, <2>4, <2>5 DEF InStepInv
  <1> QED
    BY <1>2, <1>3, <1>4 DEF FInv

LEMMA FInvUnchanged == ASSUME FInv, UNCHANGED vars PROVE FInv'
  <1>1. UNCHANGED <<connected, stream, sent, step, header, digits, rem_len, readbuf, count, hurt>>
    BY DEF vars, reading
  <1>2. FramingTypeOK' /\ ReadingInv' /\ WriteInv' /\ BufferNotOverrun' /\ Len(sent') <= MaxPackets
    BY <1>1 DEF FInv, FramingTypeOK, ReadingInv, WriteInv, BufferNotOverrun
  <1>3. InStepInv'
    <2> SUFFICES ASSUME hurt' = {} PROVE InStepInv'
      BY DEF InStepInv
    <2>1. /\ hurt = {} /\ count <= Len(sent) /\ PartInv
          /\ count > 0 => readbuf = Packet(count, sent[count])
      BY <1>1 DEF FInv, InStepInv
    <2>2. PICK s \in [(count + 1)..(Len(sent) + 1) -> Int] : Layout(s)
      BY <2>1 DEF FInv, InStepInv
    <2>3. Taken' = Taken
      BY <1>1 DEF Taken
    <2>4. Layout(s)'
      BY <1>1, <2>2, <2>3 DEF Layout
    <2>5. PartInv'
      BY <1>1, <2>1 DEF PartInv
    <2>6. \E t \in [(count' + 1)..(Len(sent') + 1) -> Int] : Layout(t)'
      BY <1>1, <2>2, <2>4
    <2> QED
      BY <1>1, <2>1, <2>5, <2>6 DEF InStepInv
  <1> QED
    BY <1>2, <1>3 DEF FInv

LEMMA FramingInductive == Spec => []FInv
  <1>1. FInv /\ [Next]_vars => FInv'
    <2> SUFFICES ASSUME FInv, [Next]_vars PROVE FInv'
      OBVIOUS
    <2>1. CASE Next
      BY <2>1, SafeStep, InStepStep DEF FInv, SafeInv
    <2>2. CASE UNCHANGED vars
      BY <2>2, FInvUnchanged
    <2> QED
      BY <2>1, <2>2
  <1> QED
    BY <1>1, FInvInit, PTL DEF Spec

(***************************************************************************)
(* The theorems                                                            *)
(***************************************************************************)

\* Every variable keeps its type, whatever bytes decodePacket takes for digits: the
\* remaining length never reaches Base^4.
THEOREM FramingTypes == Spec => []FramingTypeOK
  <1>1. FInv => FramingTypeOK
    BY DEF FInv
  <1> QED
    BY <1>1, FramingInductive, PTL

\* readPacket never writes beyond the end of readbuf, in or out of step.
THEOREM ReadBufferSafe == Spec => []BufferNotOverrun
  <1>1. FInv => BufferNotOverrun
    BY DEF FInv
  <1> QED
    BY <1>1, FramingInductive, PTL

\* The size of a packet does not depend on its place on the connection.
LEMMA PacketSize ==
    ASSUME NEW n \in 0..(Limit - 1)
    PROVE  Len(Packet(1, n)) = Size(n) /\ Size(n) \in Nat
  <1> DEFINE h == Byte("header", 1, 0)
             l == LengthBytes(1, n)
             b == [i \in 1..n |-> Byte("body", 1, i)]
             S == {h} \cup {l[i] : i \in 1..NumDigits(n)} \cup {b[i] : i \in 1..n}
             s1 == <<h>> \o l
  <1>1. n \in Nat /\ NumDigits(n) \in Nat
    BY Digits, Powers, PowerValues
  <1>2. h \in S
    OBVIOUS
  <1>3. l \in [1..NumDigits(n) -> S]
    BY DEF LengthBytes
  <1>4. b \in [1..n -> S]
    OBVIOUS
  <1>5. Packet(1, n) = s1 \o b
    BY DEF Packet
  <1> HIDE DEF S, h, l, b
  <1>6. <<h>> \in Seq(S) /\ Len(<<h>>) = 1
    BY <1>2
  <1>7. l \in Seq(S) /\ Len(l) = NumDigits(n) /\ b \in Seq(S) /\ Len(b) = n
    BY <1>1, <1>3, <1>4, FunctionIsSeq
  <1>8. s1 \in Seq(S) /\ Len(s1) = 1 + NumDigits(n)
    BY <1>6, <1>7, ConcatProperties
  <1> HIDE DEF s1
  <1>9. Len(s1 \o b) = Len(s1) + Len(b)
    BY <1>7, <1>8, ConcatProperties
  <1> QED
    BY <1>1, <1>5, <1>7, <1>8, <1>9 DEF Size

\* MQTTPacket_len estimates the size of a packet, or one more.
LEMMA EstimateClose ==
    ASSUME NEW n \in 0..(Limit - 1)
    PROVE  /\ MQTTPacket_len(n) - Size(n) \in {0, 1}
           /\ Size(n) <= MQTTPacket_len(n) /\ MQTTPacket_len(n) \in Int
  <1> DEFINE k == NumDigits(n)
             P1 == Power[1]
             P2 == Power[2]
             P3 == Power[3]
  <1>1. n \in Nat /\ k \in 1..4 /\ P1 \in Nat /\ P2 \in Nat /\ P3 \in Nat
    BY Digits, Powers, PowerValues
  <1>2. P1 < P2 /\ P2 + 1 < P3
    <2>1. P2 > P1 /\ P3 = Base * P2 /\ P1 > 0
      <3>1. Power[1 + 1] > Power[1] /\ Power[2 + 1] = Base * Power[2] /\ Power[1] > 0
        BY Powers
      <3> QED
        BY <3>1
    <2> HIDE DEF P1, P2, P3
    <2>2. P3 = P2 + P2 + (Base - 2) * P2 /\ Base - 2 \in Nat
      BY <1>1, <2>1, BaseAssumption
    <2>3. (Base - 2) * P2 \in Nat
      BY <1>1, <2>2
    <2> QED
      BY <1>1, <2>1, <2>2, <2>3
  <1>3. /\ k = 1 => n < P1
        /\ k = 2 => P1 <= n /\ n < P2
        /\ k = 3 => P2 <= n /\ n < P3
        /\ k = 4 => P3 <= n
    <2>1. n < Power[k] /\ (k > 1 => n >= Power[k - 1])
      BY Digits
    <2> HIDE DEF k
    <2> QED
      BY <1>1, <2>1
  <1>4. MQTTPacket_len(n) =
            n + 1 + IF n + 1 < P1 THEN 1
                    ELSE IF n + 1 < P2 THEN 2
                    ELSE IF n + 1 < P3 - 1 THEN 3
                    ELSE 4
    BY DEF MQTTPacket_len
  <1>5. Size(n) = 1 + k + n
    BY DEF Size
  <1> HIDE DEF k, P1, P2, P3
  <1>6. CASE k = 1
    BY <1>1, <1>2, <1>3, <1>4, <1>5, <1>6
  <1>7. CASE k = 2
    BY <1>1, <1>2, <1>3, <1>4, <1>5, <1>7
  <1>8. CASE k = 3
    BY <1>1, <1>2, <1>3, <1>4, <1>5, <1>8
  <1>9. CASE k = 4
    BY <1>1, <1>2, <1>3, <1>4, <1>5, <1>9
  <1> QED
    BY <1>1, <1>6, <1>7, <1>8, <1>9

\* No MQTTSerialize function writes beyond the end of sendbuf: the estimate of
\* MQTTPacket_len is never below the size of the packet.
THEOREM SendBufferSafe == Spec => []EstimateSafe
  <1>1. FInv => EstimateSafe
    <2> SUFFICES ASSUME FInv, step = "write" PROVE EstimateSafe
      BY DEF EstimateSafe
    <2>1. rem_len \in Sizes /\ MQTTPacket_len(rem_len) <= MAX_MQTT_PACKET_SIZE
      BY DEF FInv, FramingTypeOK, WriteInv
    <2>2. rem_len \in 0..(Limit - 1)
      BY <2>1, SizesAssumption
    <2>3. Len(Packet(1, rem_len)) = Size(rem_len) /\ Size(rem_len) \in Nat
      BY <2>2, PacketSize
    <2>4. MQTTPacket_len(rem_len) - Size(rem_len) \in {0, 1}
          /\ Size(rem_len) <= MQTTPacket_len(rem_len) /\ MQTTPacket_len(rem_len) \in Int
      BY <2>2, EstimateClose
    <2>5. Size(rem_len) <= MAX_MQTT_PACKET_SIZE
      BY <2>1, <2>3, <2>4, BufferAssumption
    <2> QED
      BY <2>3, <2>4, <2>5 DEF EstimateSafe
  <1> QED
    BY <1>1, FramingInductive, PTL

\* As long as no read fails or times out and every packet fits, readPacket returns
\* the packets of the broker one by one, byte for byte and in order.
THEOREM StreamIntact == Spec => []PacketsIntact
  <1>1. FInv => PacketsIntact
    <2> SUFFICES ASSUME FInv, hurt = {}
                 PROVE  /\ count <= Len(sent)
                        /\ count > 0 => readbuf = Packet(count, sent[count])
                        /\ step = "header" /\ stream # <<>> =>
                               Head(stream) = Byte("header", count + 1, 0)
      BY DEF PacketsIntact
    <2>1. /\ FramingTypeOK /\ count <= Len(sent) /\ Len(sent) <= MaxPackets
          /\ count > 0 => readbuf = Packet(count, sent[count])
      BY DEF FInv, InStepInv
    <2>2. PICK start : Layout(start)
      BY DEF FInv, InStepInv
    <2>3. ASSUME step = "header", stream # <<>>
          PROVE  Head(stream) = Byte("header", count + 1, 0)
      <3>1. Taken = 0
        BY <2>3 DEF Taken
      <3>2. count < Len(sent)
        BY <2>1, <2>2, <2>3, <3>1, NothingLeft
      <3>3. count + 1 \in 1..Len(sent) /\ count + 1 \in 1..MaxPackets
        BY <2>1, <3>2, SentSizes, MaxPacketsAssumption
      <3>4. sent[count + 1] \in 0..(Limit - 1) /\ Size(sent[count + 1]) \in Nat
        BY <2>1, <3>3, SentSizes
      <3>5. Size(sent[count + 1]) > 0
        BY <2>1, <3>3, SentSizes, SMTT(30) DEF Size
      <3>6. Head(stream) = Packet(count + 1, sent[count + 1])[0 + 1]
        BY <2>1, <2>2, <2>3, <3>1, <3>2, <3>5, NextByte
      <3> QED
        BY <3>3, <3>4, <3>6, PacketBytes
    <2> QED
      BY <2>1, <2>3
  <1> QED
    BY <1>1, FramingInductive, PTL
=============================================================================
