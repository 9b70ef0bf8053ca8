----------------------- MODULE PrivateMessagesProofs -----------------------
(***************************************************************************)
(* Proofs about HttpClient, Authentication and PrivateMessages together,   *)
(* for every set of users, servers, configurations and contents, and any   *)
(* number of faults.                                                       *)
(***************************************************************************)
EXTENDS PrivateMessages, SequenceLemmas, SequenceTheorems

(***************************************************************************)
(* The inductive invariant of the HTTP client                              *)
(***************************************************************************)

\* The parser and the response after the first k pieces of reply r.
ParsedParser(r, k) ==
    [started |-> IF k >= 1 THEN TRUE ELSE FALSE,
     at |-> IF k = 0 THEN "s_start_res"
            ELSE IF k = 1 THEN (IF r.blank THEN "s_start_res" ELSE "s_res_H")
            ELSE IF k <= 9 THEN "s_header_field_start" ELSE r.framing,
     state |-> IF k \in {3, 4, 6, 7} THEN "LAST_WAS_FIELD"
               ELSE IF k \in {5, 8, 9} THEN "LAST_WAS_VALUE" ELSE "INITIAL",
     name |-> IF k <= 2 THEN <<>> ELSE IF k \in {3, 6} THEN <<"f1">> ELSE <<"f1", "f2">>,
     value |-> IF k <= 4 THEN <<>> ELSE IF k <= 7 THEN <<"a">>
               ELSE IF k = 8 THEN <<"b1">> ELSE <<"b1", "b2">>]

ParsedResponse(r, k) ==
    [executeStatus |-> "INVALID",
     httpStatus |-> IF k >= 2 THEN StatusOf(r) ELSE "NON_HTTP_ERROR",
     headers |-> IF k <= 5 THEN {}
                 ELSE IF k <= 9 THEN {[name |-> <<"f1", "f2">>, value |-> <<"a">>]}
                 ELSE WholeHeaders,
     data |-> IF k <= 10 THEN <<>> ELSE IF k = 11 THEN <<<<r.content, 1>>>>
              ELSE WholeData(r.content)]

AllPieces ==
         [kind : {"begin"}, val : {"CR", "H"}, old : {FALSE}]
    \cup [kind : {"status"}, val : [code : {"OK", "error"}, reason : BOOLEAN], old : {FALSE}]
    \cup [kind : {"field"}, val : {"f1", "f2"}, old : {FALSE}]
    \cup [kind : {"value"}, val : {"a", "b1", "b2"}, old : {FALSE}]
    \cup [kind : {"headersEnd"}, val : Framings, old : {FALSE}]
    \cup [kind : {"body"}, val : Contents \X {1, 2}, old : {FALSE}]
    \cup [kind : {"end", "junk"}, val : {""}, old : {FALSE}]

\* What is left to read of reply r after its first k pieces: the pieces that
\* follow, as far as they come and are not garbled.
Left(r, k, bytes) ==
    /\ bytes \in Seq(AllPieces)
    /\ k + Len(bytes) <= Len(Pieces(r))
    /\ \A i \in 1..Len(bytes) : bytes[i] = Pieces(r)[k + i] \/ bytes[i].kind = "junk"

\* What follows the pieces of an endless reply.
More == Piece("body", <<"unusable", MaxData>>)

\* What may be unread of reply r after its first k pieces, with asked as given.  An
\* endless reply has come with all of its pieces before more of it comes.
Unread(r, k, asked, bytes) ==
    \/ /\ Left(r, k, bytes)
       /\ asked = "more" => Endless(r) /\ k + Len(bytes) = 12
    \/ asked = "more" /\ Endless(r) /\ k = 12 /\ bytes = <<More>>

Connections ==
    [up : BOOLEAN, asked : {"no", "now", "more"}, bytes : Seq(AllPieces)]

\* A connection is open only while its request is under way.
ConnInv ==
    /\ hpc \in {"idle", "connect", "send", "read"}
    /\ scheme \in Schemes
    /\ m_connection = (IF hpc \in {"send", "read"} THEN scheme ELSE "NULL")
    /\ conn \in [Schemes -> Connections]
    /\ \A s \in Schemes : s # m_connection => conn[s] = NotOpen
    /\ hpc = "send" => conn[scheme] = [NotOpen EXCEPT !.up = TRUE]

\* The parser and the response are those of the pieces read.
ReadInv ==
    /\ reply \in Replies \cup {NoReply}
    /\ hpc \in {"connect", "send"} =>
           reply = NoReply /\ parser = NewParser /\ response = NewResponse
    /\ hpc = "read" /\ reply = NoReply =>
           /\ conn[scheme].asked = "now" /\ conn[scheme].bytes = <<>>
           /\ parser = NewParser /\ response = NewResponse
    /\ hpc = "read" /\ reply # NoReply =>
           /\ conn[scheme].asked \in {"no", "more"}
           /\ \E k \in 0..12 : /\ parser = ParsedParser(reply, k)
                               /\ response = ParsedResponse(reply, k)
                               /\ Unread(reply, k, conn[scheme].asked, conn[scheme].bytes)

\* What Execute has returned.
ReturnInv ==
    /\ hpc = "idle" => parser = NewParser
    /\ response.executeStatus \in {"INVALID", "NETWORK_ERROR", "PARSE_ERROR", "SUCCESS"}
    /\ ResponseFaithful

HInv == ConnInv /\ ReadInv /\ ReturnInv

(***************************************************************************)
(* The inductive invariant of the authentication and the messages          *)
(***************************************************************************)
CallTypes ==
    /\ m_conf \in [authServer : Servers, identity : Identities]
    /\ m_userId \in Users
    /\ m_state \in {"NO_SESSION", "DISCONNECTED", "CONNECTED"}
    /\ apc \in Requests \cup {"idle", "tls"}
    /\ apc = "idle" => hpc = "idle"
    /\ pending \in Plain \cup Encrypted \cup {NoMessage}

\* A renewal is offered, and under way, only while one may be issued.
RenewInv ==
    /\ reply # NoReply /\ reply.content = "renew" =>
           apc = "authenticate" /\ m_conf.identity.mpinId < MaxIssue
    /\ apc = "renew" => m_conf.identity.mpinId < MaxIssue
    /\ apc \in {"idle", "tls"} => hpc = "idle" /\ reply = NoReply /\ response = NewResponse

\* The keys for private messages are those of the user, also of one whose message
\* is being sent.
KeysInv ==
    /\ m_conf.identity.sok \in {m_conf.identity.user, "none"}
    /\ pending # NoMessage /\ pending.kind = "encrypted" =>
           pending.from = m_userId /\ pending.sendKey = m_conf.identity.sok

AInv ==
    /\ HInv
    /\ CallTypes
    /\ RenewInv
    /\ KeysInv
    /\ FreshKey
    /\ IdentityWhole
    /\ PrivateReadable

(***************************************************************************)
(* The pieces of a reply                                                   *)
(***************************************************************************)

\* The pieces every reply has.
Front(r) ==
    <<Piece("begin", IF r.blank THEN "CR" ELSE "H"),
      Piece("status", [code |-> r.http, reason |-> r.reason]),
      Piece("field", "f1"), Piece("field", "f2"), Piece("value", "a"),
      Piece("field", "f1"), Piece("field", "f2"), Piece("value", "b1"), Piece("value", "b2"),
      Piece("headersEnd", r.framing),
      Piece("body", <<r.content, 1>>), Piece("body", <<r.content, 2>>)>>

LEMMA FrontPieces ==
    ASSUME NEW r
    PROVE  /\ Front(r) \in [1..12 -> {Front(r)[i] : i \in 1..12}]
           /\ Front(r)[1] = Piece("begin", IF r.blank THEN "CR" ELSE "H")
           /\ Front(r)[2] = Piece("status", [code |-> r.http, reason |-> r.reason])
           /\ Front(r)[3] = Piece("field", "f1")
           /\ Front(r)[4] = Piece("field", "f2")
           /\ Front(r)[5] = Piece("value", "a")
           /\ Front(r)[6] = Piece("field", "f1")
           /\ Front(r)[7] = Piece("field", "f2")
           /\ Front(r)[8] = Piece("value", "b1")
           /\ Front(r)[9] = Piece("value", "b2")
           /\ Front(r)[10] = Piece("headersEnd", r.framing)
           /\ Front(r)[11] = Piece("body", <<r.content, 1>>)
           /\ Front(r)[12] = Piece("body", <<r.content, 2>>)
  BY DEF Front


LEMMA PieceTypes ==
    /\ Piece("begin", "CR") \in AllPieces /\ Piece("begin", "H") \in AllPieces
    /\ \A h \in [code : {"OK", "error"}, reason : BOOLEAN] : Piece("status", h) \in AllPieces
    /\ Piece("field", "f1") \in AllPieces /\ Piece("field", "f2") \in AllPieces
    /\ Piece("value", "a") \in AllPieces /\ Piece("value", "b1") \in AllPieces
    /\ Piece("value", "b2") \in AllPieces
    /\ \A m \in Framings : Piece("headersEnd", m) \in AllPieces
    /\ \A c \in Contents :
          Piece("body", <<c, 1>>) \in AllPieces /\ Piece("body", <<c, 2>>) \in AllPieces
    /\ Piece("end", "") \in AllPieces /\ Piece("junk", "") \in AllPieces
  <1>1. Piece("begin", "CR") \in AllPieces /\ Piece("begin", "H") \in AllPieces
    BY DEF AllPieces, Piece
  <1>2. \A h \in [code : {"OK", "error"}, reason : BOOLEAN] : Piece("status", h) \in AllPieces
    BY DEF AllPieces, Piece
  <1>3. Piece("field", "f1") \in AllPieces /\ Piece("field", "f2") \in AllPieces
    BY DEF AllPieces, Piece
  <1>4. Piece("value", "a") \in AllPieces /\ Piece("value", "b1") \in AllPieces
        /\ Piece("value", "b2") \in AllPieces
    BY DEF AllPieces, Piece
  <1>5. \A m \in Framings : Piece("headersEnd", m) \in AllPieces
    BY DEF AllPieces, Piece
  <1>6. ASSUME NEW c \in Contents
        PROVE  Piece("body", <<c, 1>>) \in AllPieces /\ Piece("body", <<c, 2>>) \in AllPieces
    BY DEF AllPieces, Piece
  <1>7. Piece("end", "") \in AllPieces /\ Piece("junk", "") \in AllPieces
    BY DEF AllPieces, Piece
  <1> QED
    BY <1>1, <1>2, <1>3, <1>4, <1>5, <1>6, <1>7

LEMMA FrontType ==
    ASSUME NEW r \in Replies
    PROVE  Front(r) \in Seq(AllPieces) /\ Len(Front(r)) = 12
  <1>1. /\ [code |-> r.http, reason |-> r.reason] \in [code : {"OK", "error"}, reason : BOOLEAN]
        /\ r.framing \in Framings /\ r.content \in Contents
        /\ (IF r.blank THEN "CR" ELSE "H") \in {"CR", "H"}
    BY ReasonsAssumption DEF Replies
  <1>2. ASSUME NEW i \in 1..12
        PROVE  Front(r)[i] \in AllPieces
    <2>1. i = 1 \/ i = 2 \/ i = 3 \/ i = 4 \/ i = 5 \/ i = 6 \/ i = 7 \/ i = 8 \/ i = 9 \/ i = 10
          \/ i = 11 \/ i = 12
      OBVIOUS
    <2>2. /\ Piece("begin", IF r.blank THEN "CR" ELSE "H") \in AllPieces
          /\ Piece("status", [code |-> r.http, reason |-> r.reason]) \in AllPieces
          /\ Piece("headersEnd", r.framing) \in AllPieces
          /\ Piece("body", <<r.content, 1>>) \in AllPieces
          /\ Piece("body", <<r.content, 2>>) \in AllPieces
      <3>1. Piece("begin", IF r.blank THEN "CR" ELSE "H") \in AllPieces
        BY PieceTypes
      <3> QED
        BY <1>1, <3>1, PieceTypes, ZenonT(60)
    <2> DEFINE q == Front(r)[i]
    <2>3. \/ q = Piece("begin", IF r.blank THEN "CR" ELSE "H")
          \/ q = Piece("status", [code |-> r.http, reason |-> r.reason])
          \/ q = Piece("field", "f1") \/ q = Piece("field", "f2")
          \/ q = Piece("value", "a") \/ q = Piece("value", "b1") \/ q = Piece("value", "b2")
          \/ q = Piece("headersEnd", r.framing)
          \/ q = Piece("body", <<r.content, 1>>) \/ q = Piece("body", <<r.content, 2>>)
      BY <2>1, FrontPieces, ZenonT(60)
    <2> HIDE DEF q
    <2>4. q \in AllPieces
      BY <2>2, <2>3, PieceTypes, ZenonT(60)
    <2> QED
      BY <2>4 DEF q
  <1>3. Front(r) \in [1..12 -> AllPieces]
    BY <1>2, FrontPieces
  <1>4. 12 \in Nat
    OBVIOUS
  <1> QED
    BY <1>3, <1>4, FunctionIsSeq, ZenonT(60)

LEMMA OneMore ==
    ASSUME NEW q \in Seq(AllPieces), NEW e \in AllPieces
    PROVE  /\ q \o <<e>> \in Seq(AllPieces)
           /\ Len(q \o <<e>>) = Len(q) + 1
           /\ \A i \in 1..Len(q) : (q \o <<e>>)[i] = q[i]
           /\ (q \o <<e>>)[Len(q) + 1] = e
  OBVIOUS

LEMMA PieceTable ==
    ASSUME NEW r \in Replies
    PROVE  /\ Pieces(r) \in Seq(AllPieces)
           /\ Len(Pieces(r)) = IF r.framing = "length" THEN 13 ELSE 12
           /\ \A i \in 1..12 : Pieces(r)[i] = Front(r)[i]
           /\ r.framing = "length" => Pieces(r)[13] = Piece("end", "")
  <1> DEFINE f == Front(r)
             e == Piece("end", "")
  <1>1. f \in Seq(AllPieces) /\ Len(f) = 12 /\ e \in AllPieces
    BY FrontType, PieceTypes
  <1>2. Pieces(r) = IF r.framing = "length" THEN f \o <<e>> ELSE f \o <<>>
    BY DEF Pieces, Front, MessageBegin, StatusLine, HeaderField, HeaderValue, HeadersEnd,
           BodyData, MessageEnd
  <1> HIDE DEF f, e
  <1>3. CASE r.framing = "length"
    <2>1. Pieces(r) = f \o <<e>>
      BY <1>2, <1>3
    <2>2. /\ f \o <<e>> \in Seq(AllPieces) /\ Len(f \o <<e>>) = 13
          /\ \A i \in 1..12 : (f \o <<e>>)[i] = f[i]
          /\ (f \o <<e>>)[13] = e
      <3>1. /\ f \o <<e>> \in Seq(AllPieces) /\ Len(f \o <<e>>) = Len(f) + 1
            /\ \A i \in 1..Len(f) : (f \o <<e>>)[i] = f[i]
            /\ (f \o <<e>>)[Len(f) + 1] = e
        BY <1>1, OneMore
      <3>2. Len(f) + 1 = 13
        BY <1>1
      <3> QED
        BY <1>1, <3>1, <3>2, Zenon
    <2> QED
      BY <1>3, <2>1, <2>2 DEF f, e
  <1>4. CASE r.framing # "length"
    <2>1. Pieces(r) = f
      BY <1>1, <1>2, <1>4, ConcatEmptySeq
    <2> QED
      BY <1>1, <1>4, <2>1 DEF f
  <1> QED
    BY <1>3, <1>4

\* Which piece may be the i-th one of reply r.
PieceAt(r, i, q) ==
    /\ q.kind = "begin" => i = 1 /\ q.val = (IF r.blank THEN "CR" ELSE "H")
    /\ q.kind = "status" => i = 2 /\ q.val = [code |-> r.http, reason |-> r.reason]
    /\ q.kind = "field" => \/ i \in {3, 6} /\ q.val = "f1"
                           \/ i \in {4, 7} /\ q.val = "f2"
    /\ q.kind = "value" => \/ i = 5 /\ q.val = "a"
                           \/ i = 8 /\ q.val = "b1"
                           \/ i = 9 /\ q.val = "b2"
    /\ q.kind = "headersEnd" => i = 10 /\ q.val = r.framing
    /\ q.kind = "body" => \/ i = 11 /\ q.val = <<r.content, 1>>
                          \/ i = 12 /\ q.val = <<r.content, 2>>
    /\ q.kind = "end" => i = 13
    /\ i = 13 => r.framing = "length"
    /\ q.kind # "junk"

LEMMA PieceKinds ==
    ASSUME NEW r \in Replies, NEW i \in 1..13, i <= Len(Pieces(r))
    PROVE  PieceAt(r, i, Pieces(r)[i])
  <1>1. CASE i \in 1..12
    <2> DEFINE q == Front(r)[i]
    <2>1. Pieces(r)[i] = q
      BY <1>1, PieceTable
    <2>2. \/ i = 1 /\ q = Piece("begin", IF r.blank THEN "CR" ELSE "H")
          \/ i = 2 /\ q = Piece("status", [code |-> r.http, reason |-> r.reason])
          \/ i \in {3, 6} /\ q = Piece("field", "f1")
          \/ i \in {4, 7} /\ q = Piece("field", "f2")
          \/ i = 5 /\ q = Piece("value", "a")
          \/ i = 8 /\ q = Piece("value", "b1")
          \/ i = 9 /\ q = Piece("value", "b2")
          \/ i = 10 /\ q = Piece("headersEnd", r.framing)
          \/ i = 11 /\ q = Piece("body", <<r.content, 1>>)
          \/ i = 12 /\ q = Piece("body", <<r.content, 2>>)
      <3>1. i = 1 \/ i = 2 \/ i = 3 \/ i = 4 \/ i = 5 \/ i = 6 \/ i = 7 \/ i = 8 \/ i = 9 \/ i = 10
            \/ i = 11 \/ i = 12
        BY <1>1
      <3> QED
        BY <3>1, FrontPieces, ZenonT(60)
    <2> HIDE DEF q
    <2>3. i # 13
      BY <1>1
    <2> QED
      BY <2>1, <2>2, <2>3 DEF Piece, PieceAt
  <1>2. CASE i = 13
    <2>1. r.framing = "length"
      <3>1. Len(Pieces(r)) = IF r.framing = "length" THEN 13 ELSE 12
        BY PieceTable
      <3> QED
        BY <1>2, <3>1
    <2>2. Pieces(r)[i] = Piece("end", "")
      BY <1>2, <2>1, PieceTable
    <2>3. Pieces(r)[i].kind = "end"
      <3>1. Piece("end", "").kind = "end"
        BY DEF Piece
      <3> QED
        BY <2>2, <3>1
    <2> QED
      BY <1>2, <2>1, <2>3 DEF PieceAt
  <1>3. i \in 1..12 \/ i = 13
    OBVIOUS
  <1> QED
    BY <1>1, <1>2, <1>3, Zenon


(***************************************************************************)
(* The steps of the HTTP client keep its invariant                         *)
(***************************************************************************)
LEMMA NotOpenType ==
    /\ NotOpen \in Connections /\ [NotOpen EXCEPT !.up = TRUE] \in Connections
    /\ NotOpen.asked = "no" /\ NotOpen.bytes = <<>> /\ NotOpen.up = FALSE
    /\ [NotOpen EXCEPT !.up = TRUE].asked = "no"
    /\ [NotOpen EXCEPT !.up = TRUE].bytes = <<>>
  <1>1. <<>> \in Seq(AllPieces)
    OBVIOUS
  <1> QED
    BY <1>1 DEF NotOpen, Connections

\* While Execute runs, its response has the fields of a response.
LEMMA ResponseFields ==
    ASSUME HInv, hpc # "idle"
    PROVE  /\ response.executeStatus = "INVALID"
           /\ \A status :
                 LET new == [response EXCEPT !.executeStatus = status]
                 IN  /\ new.executeStatus = status
                     /\ new.httpStatus = response.httpStatus
                     /\ new.headers = response.headers
                     /\ new.data = response.data
  <1>1. response = NewResponse \/ \E k \in 0..12 : response = ParsedResponse(reply, k)
    BY DEF HInv, ConnInv, ReadInv
  <1>2. CASE response = NewResponse
    BY <1>2 DEF NewResponse
  <1>3. ASSUME NEW k \in 0..12, response = ParsedResponse(reply, k)
        PROVE  /\ response.executeStatus = "INVALID"
               /\ \A status :
                     LET new == [response EXCEPT !.executeStatus = status]
                     IN  /\ new.executeStatus = status
                         /\ new.httpStatus = response.httpStatus
                         /\ new.headers = response.headers
                         /\ new.data = response.data
    BY <1>3 DEF ParsedResponse
  <1> QED
    BY <1>1, <1>2, <1>3

\* What ResponseFaithful says of a success.
Faithful ==
    /\ reply # NoReply
    /\ \/ /\ reply.blank
          /\ response.httpStatus = "NON_HTTP_ERROR"
          /\ response.headers = {}
          /\ response.data = <<>>
       \/ /\ response.httpStatus = StatusOf(reply)
          /\ response.headers = WholeHeaders
          /\ \E n \in 0..MaxData : response.data = SubSeq(WholeData(reply.content), 1, n)
          /\ reply.framing = "length" => response.data = WholeData(reply.content)

LEMMA HttpFinish ==
    ASSUME HInv, hpc # "idle",
           NEW status \in {"NETWORK_ERROR", "PARSE_ERROR", "SUCCESS"}, Finish(status),
           UNCHANGED <<scheme, reply>>, status = "SUCCESS" => Faithful
    PROVE  HInv'
  <1>1. /\ hpc' = "idle" /\ parser' = NewParser /\ m_connection' = "NULL"
        /\ response' = [response EXCEPT !.executeStatus = status] /\ conn' = Closed(conn)
    BY DEF Finish
  <1>2. /\ response'.executeStatus = status
        /\ response'.httpStatus = response.httpStatus
        /\ response'.headers = response.headers
        /\ response'.data = response.data
    BY <1>1, ResponseFields
  <1>3. /\ hpc \in {"connect", "send", "read"} /\ scheme \in Schemes
        /\ m_connection = (IF hpc \in {"send", "read"} THEN scheme ELSE "NULL")
        /\ conn \in [Schemes -> Connections]
        /\ \A s \in Schemes : s # m_connection => conn[s] = NotOpen
        /\ reply \in Replies \cup {NoReply}
    BY DEF HInv, ConnInv, ReadInv
  <1>4. conn' \in [Schemes -> Connections] /\ \A s \in Schemes : conn'[s] = NotOpen
    <2>1. CASE hpc = "connect"
      BY <1>1, <1>3, <2>1, SchemesAssumption DEF Closed
    <2>2. CASE hpc # "connect"
      <3>1. m_connection = scheme /\ m_connection # "NULL"
        BY <1>3, <2>2, SchemesAssumption
      <3>2. conn' = [conn EXCEPT ![scheme] = NotOpen]
        BY <1>1, <3>1 DEF Closed
      <3> QED
        BY <1>3, <3>1, <3>2, NotOpenType
    <2> QED
      BY <2>1, <2>2
  <1>5. ConnInv'
    BY <1>1, <1>3, <1>4 DEF ConnInv
  <1>6. ReadInv'
    BY <1>1, <1>3 DEF ReadInv
  <1>7. ResponseFaithful'
    BY <1>1, <1>2 DEF ResponseFaithful, Faithful
  <1> QED
    BY <1>1, <1>2, <1>5, <1>6, <1>7 DEF HInv, ReturnInv

LEMMA HttpExecute ==
    ASSUME HInv, NEW s \in Schemes, Execute(s)
    PROVE  HInv'
  <1>1. /\ hpc = "idle" /\ hpc' = "connect" /\ scheme' = s /\ response' = NewResponse
        /\ parser' = NewParser /\ reply' = NoReply /\ m_connection' = m_connection
        /\ conn' = [r \in Schemes |-> Aged(conn[r])]
    BY DEF Execute
  <1>2. m_connection = "NULL" /\ \A r \in Schemes : conn[r] = NotOpen
    BY <1>1, SchemesAssumption DEF HInv, ConnInv
  <1>3. Aged(NotOpen) = NotOpen
    <2> DEFINE b == [i \in DOMAIN NotOpen.bytes |-> [NotOpen.bytes[i] EXCEPT !.old = TRUE]]
    <2>1. b = <<>>
      BY NotOpenType
    <2>2. Aged(NotOpen) = [NotOpen EXCEPT !.asked = IF @ = "no" THEN "no" ELSE "before",
                                          !.bytes = b]
      BY DEF Aged
    <2> HIDE DEF b
    <2> QED
      BY <2>1, <2>2 DEF NotOpen
  <1>4. conn' = [r \in Schemes |-> NotOpen]
    BY <1>1, <1>2, <1>3
  <1>5. ConnInv'
    BY <1>1, <1>2, <1>4, NotOpenType DEF ConnInv
  <1>6. response'.executeStatus = "INVALID"
    BY <1>1 DEF NewResponse
  <1> QED
    BY <1>1, <1>5, <1>6 DEF HInv, ReadInv, ReturnInv, ResponseFaithful

LEMMA HttpConnects ==
    ASSUME HInv, ConnectTo
    PROVE  HInv'
  <1>1. /\ hpc = "connect" /\ hpc' = "send" /\ m_connection' = scheme
        /\ conn' = [Closed(conn) EXCEPT ![scheme] = Opened(@)]
        /\ UNCHANGED <<scheme, parser, response, reply>>
    BY DEF ConnectTo
  <1>2. /\ m_connection = "NULL" /\ scheme \in Schemes
        /\ \A r \in Schemes : conn[r] = NotOpen /\ conn \in [Schemes -> Connections]
        /\ reply = NoReply /\ parser = NewParser /\ response = NewResponse
    BY <1>1, SchemesAssumption DEF HInv, ConnInv, ReadInv
  <1>3. Closed(conn) = conn /\ conn[scheme] = NotOpen
    BY <1>2 DEF Closed
  <1>4. Opened(conn[scheme]) = [NotOpen EXCEPT !.up = TRUE]
    BY <1>3, NotOpenType DEF Opened
  <1>5. conn' = [conn EXCEPT ![scheme] = [NotOpen EXCEPT !.up = TRUE]]
    BY <1>1, <1>3, <1>4
  <1>6. ConnInv'
    <2>1. conn' \in [Schemes -> Connections]
      BY <1>2, <1>5, NotOpenType
    <2>2. conn'[scheme] = [NotOpen EXCEPT !.up = TRUE]
      BY <1>2, <1>5
    <2>3. \A r \in Schemes : r # scheme => conn'[r] = NotOpen
      BY <1>2, <1>5
    <2> QED
      BY <1>1, <1>2, <2>1, <2>2, <2>3 DEF ConnInv
  <1>7. response'.executeStatus = "INVALID"
    BY <1>1, <1>2 DEF NewResponse
  <1> QED
    BY <1>1, <1>2, <1>6, <1>7 DEF HInv, ReadInv, ReturnInv, ResponseFaithful

LEMMA HttpSends ==
    ASSUME HInv, SendRequest
    PROVE  HInv'
  <1>1. /\ hpc = "send" /\ hpc' = "read"
        /\ conn' = [conn EXCEPT ![scheme].asked = "now"]
        /\ UNCHANGED <<scheme, m_connection, parser, response, reply>>
    BY DEF SendRequest
  <1>2. /\ m_connection = scheme /\ scheme \in Schemes /\ conn \in [Schemes -> Connections]
        /\ \A r \in Schemes : r # scheme => conn[r] = NotOpen
        /\ conn[scheme].bytes = <<>>
        /\ reply = NoReply /\ parser = NewParser /\ response = NewResponse
    BY <1>1, NotOpenType DEF HInv, ConnInv, ReadInv
  <1>3. /\ conn' \in [Schemes -> Connections] /\ conn'[scheme].asked = "now"
        /\ conn'[scheme].bytes = <<>>
        /\ \A r \in Schemes : r # scheme => conn'[r] = conn[r]
    BY <1>1, <1>2 DEF Connections
  <1>4. ConnInv'
    BY <1>1, <1>2, <1>3 DEF ConnInv
  <1>5. response'.executeStatus = "INVALID"
    BY <1>1, <1>2 DEF NewResponse
  <1> QED
    BY <1>1, <1>2, <1>3, <1>4, <1>5 DEF HInv, ReadInv, ReturnInv, ResponseFaithful


\* The next piece that is read, unless it is garbled, is the one that follows, or more of
\* an endless body.
LEMMA NextPiece ==
    ASSUME HInv, hpc = "read", conn[scheme].bytes # <<>>
    PROVE  /\ reply \in Replies
           /\ \E k \in 0..12 :
                 /\ parser = ParsedParser(reply, k) /\ response = ParsedResponse(reply, k)
                 /\ \/ /\ k + 1 \in 1..13 /\ k + 1 <= Len(Pieces(reply))
                       /\ \/ Head(conn[scheme].bytes) = Pieces(reply)[k + 1]
                          \/ Head(conn[scheme].bytes).kind = "junk"
                       /\ Unread(reply, k + 1, conn[scheme].asked, Tail(conn[scheme].bytes))
                    \/ /\ k = 12 /\ Head(conn[scheme].bytes) = More
                       /\ Unread(reply, 12, conn[scheme].asked, Tail(conn[scheme].bytes))
  <1> DEFINE b == conn[scheme].bytes
             a == conn[scheme].asked
  <1>1. reply \in Replies /\ reply # NoReply
    BY DEF HInv, ReadInv
  <1>2. PICK k \in 0..12 : /\ parser = ParsedParser(reply, k)
                           /\ response = ParsedResponse(reply, k)
                           /\ Unread(reply, k, a, b)
    BY <1>1 DEF HInv, ReadInv
  <1>3. Len(Pieces(reply)) \in {12, 13} /\ (Endless(reply) => Len(Pieces(reply)) = 12)
    BY <1>1, PieceTable DEF Endless
  <1> HIDE DEF a, b
  <1>4. CASE Left(reply, k, b) /\ (a = "more" => Endless(reply) /\ k + Len(b) = 12)
    <2>1. /\ b \in Seq(AllPieces) /\ b # <<>> /\ k + Len(b) <= Len(Pieces(reply))
          /\ \A i \in 1..Len(b) : b[i] = Pieces(reply)[k + i] \/ b[i].kind = "junk"
      BY <1>4 DEF Left, b
    <2>2. /\ Head(b) = b[1] /\ Tail(b) \in Seq(AllPieces) /\ Len(Tail(b)) = Len(b) - 1
          /\ Len(b) \in Nat /\ 1 \in 1..Len(b)
          /\ \A i \in 1..Len(Tail(b)) : Tail(b)[i] = b[i + 1] /\ i + 1 \in 1..Len(b)
      BY <2>1
    <2>3. k + 1 \in 1..13 /\ k + 1 <= Len(Pieces(reply))
      BY <1>3, <2>1, <2>2
    <2>4. Head(b) = Pieces(reply)[k + 1] \/ Head(b).kind = "junk"
      BY <2>1, <2>2
    <2>5. ASSUME NEW i \in 1..Len(Tail(b))
          PROVE  Tail(b)[i] = Pieces(reply)[(k + 1) + i] \/ Tail(b)[i].kind = "junk"
      <3>1. k + (i + 1) = (k + 1) + i
        OBVIOUS
      <3>2. b[i + 1] = Pieces(reply)[k + (i + 1)] \/ b[i + 1].kind = "junk"
        BY <2>1, <2>2
      <3> QED
        BY <2>2, <3>1, <3>2
    <2>6. /\ (k + 1) + Len(Tail(b)) <= Len(Pieces(reply))
          /\ a = "more" => (k + 1) + Len(Tail(b)) = 12
      BY <1>3, <1>4, <2>1, <2>2
    <2>7. Left(reply, k + 1, Tail(b))
      BY <2>2, <2>5, <2>6 DEF Left
    <2>8. Unread(reply, k + 1, a, Tail(b))
      BY <1>4, <2>6, <2>7 DEF Unread
    <2> QED
      BY <1>1, <1>2, <2>3, <2>4, <2>8 DEF a, b
  <1>5. CASE a = "more" /\ Endless(reply) /\ k = 12 /\ b = <<More>>
    <2>1. Head(b) = More /\ Tail(b) = <<>>
      <3>1. Head(<<More>>) = More /\ Tail(<<More>>) = <<>>
        OBVIOUS
      <3> QED
        BY <1>5, <3>1
    <2>2. Unread(reply, 12, a, <<>>)
      <3>1. /\ <<>> \in Seq(AllPieces) /\ 12 + Len(<<>>) = 12
            /\ \A i \in 1..Len(<<>>) : FALSE
        OBVIOUS
      <3>2. 12 <= Len(Pieces(reply))
        <4>1. Len(Pieces(reply)) = 12
          BY <1>3, <1>5, Zenon
        <4> QED
          BY <4>1
      <3>3. Left(reply, 12, <<>>)
        BY <3>1, <3>2 DEF Left
      <3> QED
        BY <1>5, <3>1, <3>3 DEF Unread
    <2> QED
      BY <1>1, <1>2, <1>5, <2>1, <2>2 DEF a, b
  <1> QED
    BY <1>2, <1>4, <1>5 DEF Unread

\* A piece has been read and the loop goes on.
LEMMA HttpContinues ==
    ASSUME HInv, hpc = "read", conn[scheme].bytes # <<>>, Continue,
           UNCHANGED <<scheme, reply>>, reply \in Replies, NEW k \in 0..12,
           Unread(reply, k, conn[scheme].asked, Tail(conn[scheme].bytes)),
           parser' = ParsedParser(reply, k), response' = ParsedResponse(reply, k)
    PROVE  HInv'
  <1>1. /\ conn' = [conn EXCEPT ![scheme].bytes = Tail(@)] /\ hpc' = "read"
        /\ m_connection' = m_connection
    BY DEF Continue
  <1>2. /\ m_connection = scheme /\ scheme \in Schemes /\ conn \in [Schemes -> Connections]
        /\ \A r \in Schemes : r # scheme => conn[r] = NotOpen
        /\ reply # NoReply => conn[scheme].asked \in {"no", "more"}
    BY DEF HInv, ConnInv, ReadInv
  <1>3. reply # NoReply
    BY DEF HInv, ReadInv
  <1>4. Tail(conn[scheme].bytes) \in Seq(AllPieces)
    <2>1. conn[scheme].bytes \in Seq(AllPieces)
      BY <1>2 DEF Connections
    <2> QED
      BY <2>1
  <1>5. /\ conn' \in [Schemes -> Connections] /\ conn'[scheme].asked = conn[scheme].asked
        /\ conn'[scheme].bytes = Tail(conn[scheme].bytes)
        /\ \A r \in Schemes : r # scheme => conn'[r] = conn[r]
    BY <1>1, <1>2, <1>4 DEF Connections
  <1>6. ConnInv'
    BY <1>1, <1>2, <1>5 DEF ConnInv
  <1>7. ReadInv'
    <2>1. \E j \in 0..12 : /\ parser' = ParsedParser(reply, j)
                           /\ response' = ParsedResponse(reply, j)
                           /\ Unread(reply, j, conn'[scheme].asked, conn'[scheme].bytes)
      BY <1>5
    <2>2. reply' = reply /\ scheme' = scheme /\ conn'[scheme].asked \in {"no", "more"}
      BY <1>2, <1>3, <1>5
    <2> QED
      BY <1>1, <1>3, <2>1, <2>2 DEF ReadInv
  <1>8. response'.executeStatus = "INVALID"
    BY DEF ParsedResponse
  <1> QED
    BY <1>1, <1>6, <1>7, <1>8 DEF HInv, ReturnInv, ResponseFaithful

LEMMA PairAppend ==
    ASSUME NEW S, NEW x \in S, NEW y \in S
    PROVE  Append(<<>>, x) = <<x>> /\ Append(<<x>>, y) = <<x, y>>
  <1>1. /\ <<>> \in Seq(S) /\ <<x>> \in Seq(S) /\ <<x, y>> \in Seq(S)
        /\ Len(<<>>) = 0 /\ Len(<<x>>) = 1 /\ Len(<<x, y>>) = 2
        /\ <<x>>[1] = x /\ <<x, y>>[1] = x /\ <<x, y>>[2] = y
    OBVIOUS
  <1>2. /\ Append(<<>>, x) \in Seq(S) /\ Len(Append(<<>>, x)) = 1 /\ Append(<<>>, x)[1] = x
    BY <1>1, AppendProperties
  <1>3. /\ Append(<<x>>, y) \in Seq(S) /\ Len(Append(<<x>>, y)) = 2
        /\ Append(<<x>>, y)[1] = x /\ Append(<<x>>, y)[2] = y
    BY <1>1, AppendProperties
  <1> DEFINE a == Append(<<>>, x)
             b == Append(<<x>>, y)
             c == <<x>>
             d == <<x, y>>
  <1>4. /\ a \in Seq(S) /\ Len(a) = 1 /\ a[1] = x /\ c \in Seq(S) /\ Len(c) = 1 /\ c[1] = x
        /\ b \in Seq(S) /\ Len(b) = 2 /\ b[1] = x /\ b[2] = y
        /\ d \in Seq(S) /\ Len(d) = 2 /\ d[1] = x /\ d[2] = y
    BY <1>1, <1>2, <1>3
  <1> HIDE DEF a, b, c, d
  <1>5. a = c /\ b = d
    <2>1. \A i \in 1..Len(a) : a[i] = c[i]
      BY <1>4
    <2>2. \A i \in 1..Len(b) : b[i] = d[i]
      BY <1>4
    <2> QED
      BY <1>4, <2>1, <2>2, SeqEqual
  <1> QED
    BY <1>5 DEF a, b, c, d

LEMMA JoinedValue ==
    ASSUME NEW S, NEW w \in S, NEW x \in S, NEW y \in S, NEW z \in S
    PROVE  <<w>> \o <<x>> \o <<y, z>> = <<w, x, y, z>>
  <1> DEFINE a == <<w>>
             b == <<x>>
             c == <<y, z>>
             d == <<w, x, y, z>>
  <1>1. /\ a \in Seq(S) /\ Len(a) = 1 /\ a[1] = w /\ b \in Seq(S) /\ Len(b) = 1 /\ b[1] = x
        /\ c \in Seq(S) /\ Len(c) = 2 /\ c[1] = y /\ c[2] = z
        /\ d \in Seq(S) /\ Len(d) = 4 /\ d[1] = w /\ d[2] = x /\ d[3] = y /\ d[4] = z
    OBVIOUS
  <1> HIDE DEF a, b, c, d
  <1> DEFINE e == a \o b
             f == e \o c
  <1>2. e \in Seq(S) /\ Len(e) = 2 /\ e[1] = w /\ e[2] = x
    <2>1. /\ e \in Seq(S) /\ Len(e) = Len(a) + Len(b)
          /\ \A i \in 1..Len(a) + Len(b) : e[i] = IF i <= Len(a) THEN a[i] ELSE b[i - Len(a)]
      BY <1>1, ConcatProperties
    <2> HIDE DEF e
    <2> QED
      BY <1>1, <2>1
  <1> HIDE DEF e
  <1>3. f \in Seq(S) /\ Len(f) = 4 /\ f[1] = w /\ f[2] = x /\ f[3] = y /\ f[4] = z
    <2>1. /\ f \in Seq(S) /\ Len(f) = Len(e) + Len(c)
          /\ \A i \in 1..Len(e) + Len(c) : f[i] = IF i <= Len(e) THEN e[i] ELSE c[i - Len(e)]
      BY <1>1, <1>2, ConcatProperties
    <2> HIDE DEF f
    <2> QED
      BY <1>1, <1>2, <2>1
  <1> HIDE DEF f
  <1>4. \A i \in 1..Len(f) : f[i] = d[i]
    BY <1>1, <1>3
  <1>5. f = d
    BY <1>1, <1>3, <1>4, SeqEqual
  <1> QED
    BY <1>5 DEF a, b, c, d, e, f

\* The parser once it has started, and a response that is being read.
Started == TRUE

Parser(at, state, name, value) ==
    [started |-> Started, at |-> at, state |-> state, name |-> name, value |-> value]

Response(status, headers, data) ==
    [executeStatus |-> "INVALID", httpStatus |-> status, headers |-> headers, data |-> data]

\* What the callbacks do to them.
SetName(p, n) == [p EXCEPT !.state = "LAST_WAS_FIELD", !.name = n]
SetValue(p, v) == [p EXCEPT !.state = "LAST_WAS_VALUE", !.value = v]
SetAt(p, a) == [p EXCEPT !.state = "INITIAL", !.at = a]
SetStatus(q, s) == [q EXCEPT !.httpStatus = s]
SetHeaders(q, h) == [q EXCEPT !.headers = h]
SetData(q, d) == [q EXCEPT !.data = d]

LEMMA ParserUpdate ==
    ASSUME NEW f, NEW s, NEW n, NEW v, NEW x
    PROVE  /\ Parser(f, s, n, v).state = s /\ Parser(f, s, n, v).at = f
           /\ Parser(f, s, n, v).name = n /\ Parser(f, s, n, v).value = v
           /\ SetName(Parser(f, s, n, v), x) = Parser(f, "LAST_WAS_FIELD", x, v)
           /\ SetValue(Parser(f, s, n, v), x) = Parser(f, "LAST_WAS_VALUE", n, x)
           /\ SetAt(Parser(f, s, n, v), x) = Parser(x, "INITIAL", n, v)
  <1> DEFINE Other(state) == [Parser(f, s, n, v) EXCEPT !.state = state]
  <1>1. /\ Parser(f, s, n, v).state = s /\ Parser(f, s, n, v).at = f
        /\ Parser(f, s, n, v).name = n /\ Parser(f, s, n, v).value = v
    BY DEF Parser
  <1>2. ASSUME NEW t
        PROVE  Other(t) = Parser(f, t, n, v)
    BY DEF Parser
  <1>3. /\ SetName(Parser(f, s, n, v), x) = [Other("LAST_WAS_FIELD") EXCEPT !.name = x]
        /\ SetValue(Parser(f, s, n, v), x) = [Other("LAST_WAS_VALUE") EXCEPT !.value = x]
        /\ SetAt(Parser(f, s, n, v), x) = [Other("INITIAL") EXCEPT !.at = x]
    BY DEF SetName, SetValue, SetAt
  <1> HIDE DEF Other
  <1>4. /\ Other("LAST_WAS_FIELD") = Parser(f, "LAST_WAS_FIELD", n, v)
        /\ Other("LAST_WAS_VALUE") = Parser(f, "LAST_WAS_VALUE", n, v)
        /\ Other("INITIAL") = Parser(f, "INITIAL", n, v)
    BY <1>2
  <1>5. [Parser(f, "LAST_WAS_FIELD", n, v) EXCEPT !.name = x] = Parser(f, "LAST_WAS_FIELD", x, v)
    BY DEF Parser
  <1>6. [Parser(f, "LAST_WAS_VALUE", n, v) EXCEPT !.value = x] = Parser(f, "LAST_WAS_VALUE", n, x)
    BY DEF Parser
  <1>7. [Parser(f, "INITIAL", n, v) EXCEPT !.at = x] = Parser(x, "INITIAL", n, v)
    BY DEF Parser
  <1> QED
    BY <1>1, <1>3, <1>4, <1>5, <1>6, <1>7, Zenon

LEMMA SetNameOf ==
    ASSUME NEW f, NEW s, NEW n, NEW v, NEW x
    PROVE  SetName(Parser(f, s, n, v), x) = Parser(f, "LAST_WAS_FIELD", x, v)
  BY ParserUpdate

LEMMA SetValueOf ==
    ASSUME NEW f, NEW s, NEW n, NEW v, NEW x
    PROVE  SetValue(Parser(f, s, n, v), x) = Parser(f, "LAST_WAS_VALUE", n, x)
  BY ParserUpdate

LEMMA SetAtOf ==
    ASSUME NEW f, NEW s, NEW n, NEW v, NEW x
    PROVE  SetAt(Parser(f, s, n, v), x) = Parser(x, "INITIAL", n, v)
  BY ParserUpdate

LEMMA SetStatusOf ==
    ASSUME NEW t, NEW h, NEW d, NEW x
    PROVE  SetStatus(Response(t, h, d), x) = Response(x, h, d)
  BY DEF Response, SetStatus

LEMMA SetHeadersOf ==
    ASSUME NEW t, NEW h, NEW d, NEW x
    PROVE  SetHeaders(Response(t, h, d), x) = Response(t, x, d)
  BY DEF Response, SetHeaders

LEMMA SetDataOf ==
    ASSUME NEW t, NEW h, NEW d, NEW x
    PROVE  SetData(Response(t, h, d), x) = Response(t, h, x)
  BY DEF Response, SetData

\* The parser and the response, piece by piece.
InHeaders == "s_header_field_start"
Joined == <<"f1", "f2">>
FirstHeader == {[name |-> Joined, value |-> <<"a">>]}

\* After the first byte.
Begun(r) == Parser(IF r.blank THEN "s_start_res" ELSE "s_res_H", "INITIAL", <<>>, <<>>)

LEMMA ParserTable ==
    ASSUME NEW r
    PROVE  /\ ParsedParser(r, 0) = NewParser
           /\ ParsedParser(r, 1) = Begun(r)
           /\ ParsedParser(r, 2) = Parser(InHeaders, "INITIAL", <<>>, <<>>)
           /\ ParsedParser(r, 3) = Parser(InHeaders, "LAST_WAS_FIELD", <<"f1">>, <<>>)
           /\ ParsedParser(r, 4) = Parser(InHeaders, "LAST_WAS_FIELD", Joined, <<>>)
           /\ ParsedParser(r, 5) = Parser(InHeaders, "LAST_WAS_VALUE", Joined, <<"a">>)
           /\ ParsedParser(r, 6) = Parser(InHeaders, "LAST_WAS_FIELD", <<"f1">>, <<"a">>)
           /\ ParsedParser(r, 7) = Parser(InHeaders, "LAST_WAS_FIELD", Joined, <<"a">>)
           /\ ParsedParser(r, 8) = Parser(InHeaders, "LAST_WAS_VALUE", Joined, <<"b1">>)
           /\ ParsedParser(r, 9) = Parser(InHeaders, "LAST_WAS_VALUE", Joined, <<"b1", "b2">>)
           /\ ParsedParser(r, 10) = Parser(r.framing, "INITIAL", Joined, <<"b1", "b2">>)
           /\ ParsedParser(r, 11) = Parser(r.framing, "INITIAL", Joined, <<"b1", "b2">>)
           /\ ParsedParser(r, 12) = Parser(r.framing, "INITIAL", Joined, <<"b1", "b2">>)
  <1>1. ParsedParser(r, 0) = NewParser
    BY DEF ParsedParser, NewParser
  <1>2. ParsedParser(r, 2) = Parser(InHeaders, "INITIAL", <<>>, <<>>)
    BY DEF ParsedParser, Parser, Started, InHeaders
  <1>3. ParsedParser(r, 1) = Begun(r)
    BY DEF ParsedParser, Parser, Started, Begun
  <1>4. /\ ParsedParser(r, 3) = Parser(InHeaders, "LAST_WAS_FIELD", <<"f1">>, <<>>)
        /\ ParsedParser(r, 4) = Parser(InHeaders, "LAST_WAS_FIELD", Joined, <<>>)
        /\ ParsedParser(r, 5) = Parser(InHeaders, "LAST_WAS_VALUE", Joined, <<"a">>)
        /\ ParsedParser(r, 6) = Parser(InHeaders, "LAST_WAS_FIELD", <<"f1">>, <<"a">>)
        /\ ParsedParser(r, 7) = Parser(InHeaders, "LAST_WAS_FIELD", Joined, <<"a">>)
        /\ ParsedParser(r, 8) = Parser(InHeaders, "LAST_WAS_VALUE", Joined, <<"b1">>)
        /\ ParsedParser(r, 9) = Parser(InHeaders, "LAST_WAS_VALUE", Joined, <<"b1", "b2">>)
    BY DEF ParsedParser, Parser, Joined, Started, InHeaders
  <1>5. /\ ParsedParser(r, 10) = Parser(r.framing, "INITIAL", Joined, <<"b1", "b2">>)
        /\ ParsedParser(r, 11) = Parser(r.framing, "INITIAL", Joined, <<"b1", "b2">>)
        /\ ParsedParser(r, 12) = Parser(r.framing, "INITIAL", Joined, <<"b1", "b2">>)
    BY DEF ParsedParser, Parser, Joined, Started, InHeaders
  <1> QED
    BY <1>1, <1>2, <1>3, <1>4, <1>5, Zenon

LEMMA ResponseTable ==
    ASSUME NEW r
    PROVE  /\ ParsedResponse(r, 0) = Response("NON_HTTP_ERROR", {}, <<>>)
           /\ ParsedResponse(r, 1) = Response("NON_HTTP_ERROR", {}, <<>>)
           /\ ParsedResponse(r, 2) = Response(StatusOf(r), {}, <<>>)
           /\ ParsedResponse(r, 3) = Response(StatusOf(r), {}, <<>>)
           /\ ParsedResponse(r, 4) = Response(StatusOf(r), {}, <<>>)
           /\ ParsedResponse(r, 5) = Response(StatusOf(r), {}, <<>>)
           /\ ParsedResponse(r, 6) = Response(StatusOf(r), FirstHeader, <<>>)
           /\ ParsedResponse(r, 7) = Response(StatusOf(r), FirstHeader, <<>>)
           /\ ParsedResponse(r, 8) = Response(StatusOf(r), FirstHeader, <<>>)
           /\ ParsedResponse(r, 9) = Response(StatusOf(r), FirstHeader, <<>>)
           /\ ParsedResponse(r, 10) = Response(StatusOf(r), WholeHeaders, <<>>)
           /\ ParsedResponse(r, 11) = Response(StatusOf(r), WholeHeaders, <<<<r.content, 1>>>>)
           /\ ParsedResponse(r, 12) = Response(StatusOf(r), WholeHeaders, WholeData(r.content))
  BY DEF ParsedResponse, Response, FirstHeader, Joined

\* What is parsed after the first byte, a status line, a part of a name, a part of a
\* value, the end of the headers and a part of the body.
LEMMA BeginParsed ==
    ASSUME NEW r
    PROVE  /\ [ParsedParser(r, 0) EXCEPT !.started = TRUE,
                   !.at = IF (IF r.blank THEN "CR" ELSE "H") = "H" THEN "s_res_H"
                          ELSE "s_start_res"]
              = ParsedParser(r, 1)
           /\ ParsedResponse(r, 0) = ParsedResponse(r, 1)
  <1> DEFINE a == IF r.blank THEN "s_start_res" ELSE "s_res_H"
  <1>1. (IF (IF r.blank THEN "CR" ELSE "H") = "H" THEN "s_res_H" ELSE "s_start_res") = a
    OBVIOUS
  <1>2. Begun(r) = Parser(a, "INITIAL", <<>>, <<>>)
    BY DEF Begun
  <1> HIDE DEF a
  <1>3. [NewParser EXCEPT !.started = TRUE] = Parser("s_start_res", "INITIAL", <<>>, <<>>)
    <2>1. ASSUME NEW t, NEW u
          PROVE  [[started |-> t, at |-> "s_start_res", state |-> "INITIAL", name |-> <<>>,
                   value |-> <<>>] EXCEPT !.started = u]
                 = [started |-> u, at |-> "s_start_res", state |-> "INITIAL", name |-> <<>>,
                    value |-> <<>>]
      OBVIOUS
    <2> QED
      BY <2>1, Zenon DEF NewParser, Parser, Started
  <1>4. [NewParser EXCEPT !.started = TRUE, !.at = a] = Begun(r)
    <2> DEFINE b == [NewParser EXCEPT !.started = TRUE]
    <2>1. [NewParser EXCEPT !.started = TRUE, !.at = a] = [b EXCEPT !.at = a]
      OBVIOUS
    <2>2. [Parser("s_start_res", "INITIAL", <<>>, <<>>) EXCEPT !.at = a]
          = Parser(a, "INITIAL", <<>>, <<>>)
      BY DEF Parser
    <2>3. b = Parser("s_start_res", "INITIAL", <<>>, <<>>)
      BY <1>3
    <2> HIDE DEF b
    <2> QED
      BY <1>2, <2>1, <2>2, <2>3, Zenon
  <1>5. ParsedResponse(r, 0) = ParsedResponse(r, 1)
    BY ResponseTable, Zenon
  <1> QED
    BY <1>1, <1>4, <1>5, ParserTable, Zenon

LEMMA StatusParsed ==
    ASSUME NEW r
    PROVE  /\ [ParsedParser(r, 1) EXCEPT !.at = InHeaders] = ParsedParser(r, 2)
           /\ ParsedResponse(r, 1).httpStatus = "NON_HTTP_ERROR"
           /\ SetStatus(ParsedResponse(r, 1), StatusOf(r)) = ParsedResponse(r, 2)
  <1>1. [ParsedParser(r, 1) EXCEPT !.at = InHeaders] = ParsedParser(r, 2)
    <2>1. ASSUME NEW a, NEW t
          PROVE  [Parser(a, "INITIAL", <<>>, <<>>) EXCEPT !.at = t]
                 = Parser(t, "INITIAL", <<>>, <<>>)
      BY DEF Parser
    <2>2. PICK a : ParsedParser(r, 1) = Parser(a, "INITIAL", <<>>, <<>>)
      BY ParserTable DEF Begun
    <2>3. [Parser(a, "INITIAL", <<>>, <<>>) EXCEPT !.at = InHeaders]
          = Parser(InHeaders, "INITIAL", <<>>, <<>>)
      BY <2>1
    <2>4. ParsedParser(r, 2) = Parser(InHeaders, "INITIAL", <<>>, <<>>)
      BY ParserTable
    <2> QED
      BY <2>2, <2>3, <2>4, Zenon
  <1>2. SetStatus(Response("NON_HTTP_ERROR", {}, <<>>), StatusOf(r))
        = Response(StatusOf(r), {}, <<>>)
    BY SetStatusOf
  <1>3. Response("NON_HTTP_ERROR", {}, <<>>).httpStatus = "NON_HTTP_ERROR"
    BY DEF Response
  <1> QED
    BY <1>1, <1>2, <1>3, ResponseTable, Zenon

LEMMA FieldParsed ==
    ASSUME NEW r, NEW k, NEW v, NEW p, p = ParsedParser(r, k),
           \/ k \in {2, 5} /\ v = "f1"
           \/ k \in {3, 6} /\ v = "f2"
    PROVE  SetName(p, IF p.state = "LAST_WAS_FIELD" THEN Append(p.name, v) ELSE <<v>>)
           = ParsedParser(r, k + 1)
  <1> DEFINE n == IF p.state = "LAST_WAS_FIELD" THEN Append(p.name, v) ELSE <<v>>
  <1> HIDE DEF n
  <1>1. Append(<<"f1">>, "f2") = Joined
    <2>1. "f1" \in {"f1", "f2"} /\ "f2" \in {"f1", "f2"}
      OBVIOUS
    <2> QED
      BY <2>1, PairAppend DEF Joined
  <1> SUFFICES SetName(p, n) = ParsedParser(r, k + 1)
    BY DEF n
  <1>2. CASE k = 2 /\ v = "f1"
    <2>1. k + 1 = 3 /\ p = Parser(InHeaders, "INITIAL", <<>>, <<>>)
      BY <1>2, ParserTable
    <2>2. n = <<"f1">>
      BY <1>2, <2>1 DEF n, Parser
    <2> QED
      BY <2>1, <2>2, ParserTable, SetNameOf
  <1>3. CASE k = 5 /\ v = "f1"
    <2>1. k + 1 = 6 /\ p = Parser(InHeaders, "LAST_WAS_VALUE", Joined, <<"a">>)
      BY <1>3, ParserTable
    <2>2. n = <<"f1">>
      BY <1>3, <2>1 DEF n, Parser
    <2> QED
      BY <2>1, <2>2, ParserTable, SetNameOf
  <1>4. CASE k = 3 /\ v = "f2"
    <2>1. k + 1 = 4 /\ p = Parser(InHeaders, "LAST_WAS_FIELD", <<"f1">>, <<>>)
      BY <1>4, ParserTable
    <2>2. p.state = "LAST_WAS_FIELD" /\ p.name = <<"f1">>
      BY <2>1 DEF Parser
    <2>3. n = Joined
      BY <1>1, <1>4, <2>2, Zenon DEF n
    <2> QED
      BY <2>1, <2>3, ParserTable, SetNameOf
  <1>5. CASE k = 6 /\ v = "f2"
    <2>1. k + 1 = 7 /\ p = Parser(InHeaders, "LAST_WAS_FIELD", <<"f1">>, <<"a">>)
      BY <1>5, ParserTable
    <2>2. p.state = "LAST_WAS_FIELD" /\ p.name = <<"f1">>
      BY <2>1 DEF Parser
    <2>3. n = Joined
      BY <1>1, <1>5, <2>2, Zenon DEF n
    <2> QED
      BY <2>1, <2>3, ParserTable, SetNameOf
  <1> QED
    BY <1>2, <1>3, <1>4, <1>5

LEMMA ValueParsed ==
    ASSUME NEW r, NEW k, NEW v, NEW p, p = ParsedParser(r, k),
           \/ k = 4 /\ v = "a"
           \/ k = 7 /\ v = "b1"
           \/ k = 8 /\ v = "b2"
    PROVE  /\ SetValue(p, IF p.state = "LAST_WAS_VALUE" THEN Append(p.value, v) ELSE <<v>>)
              = ParsedParser(r, k + 1)
           /\ ParsedResponse(r, k) = ParsedResponse(r, k + 1)
  <1> DEFINE n == IF p.state = "LAST_WAS_VALUE" THEN Append(p.value, v) ELSE <<v>>
  <1> HIDE DEF n
  <1>1. Append(<<"b1">>, "b2") = <<"b1", "b2">>
    <2>1. "b1" \in {"b1", "b2"} /\ "b2" \in {"b1", "b2"}
      OBVIOUS
    <2> QED
      BY <2>1, PairAppend
  <1>5. ParsedResponse(r, k) = ParsedResponse(r, k + 1)
    <2>1. 4 + 1 = 5 /\ 7 + 1 = 8 /\ 8 + 1 = 9
      OBVIOUS
    <2> QED
      BY <2>1, ResponseTable, Zenon
  <1> SUFFICES SetValue(p, n) = ParsedParser(r, k + 1)
    BY <1>5, Zenon DEF n
  <1>2. CASE k = 4 /\ v = "a"
    <2>1. k + 1 = 5 /\ p = Parser(InHeaders, "LAST_WAS_FIELD", Joined, <<>>)
      BY <1>2, ParserTable
    <2>2. n = <<"a">>
      BY <1>2, <2>1 DEF n, Parser
    <2> QED
      BY <1>2, <2>1, <2>2, ParserTable, SetValueOf
  <1>3. CASE k = 7 /\ v = "b1"
    <2>1. k + 1 = 8 /\ p = Parser(InHeaders, "LAST_WAS_FIELD", Joined, <<"a">>)
      BY <1>3, ParserTable
    <2>2. n = <<"b1">>
      BY <1>3, <2>1 DEF n, Parser
    <2> QED
      BY <1>3, <2>1, <2>2, ParserTable, SetValueOf
  <1>4. CASE k = 8 /\ v = "b2"
    <2>1. k + 1 = 9 /\ p = Parser(InHeaders, "LAST_WAS_VALUE", Joined, <<"b1">>)
      BY <1>4, ParserTable
    <2>2. p.state = "LAST_WAS_VALUE" /\ p.value = <<"b1">>
      BY <2>1 DEF Parser
    <2>3. n = <<"b1", "b2">>
      BY <1>1, <1>4, <2>2, Zenon DEF n
    <2> QED
      BY <1>4, <2>1, <2>3, ParserTable, SetValueOf
  <1> QED
    BY <1>2, <1>3, <1>4 DEF n

LEMMA HeadersEndParsed ==
    ASSUME NEW r
    PROVE  SetAt(ParsedParser(r, 9), r.framing) = ParsedParser(r, 10)
  BY ParserTable, SetAtOf

\* The data that OnBody leaves.
WithData(q, x) == SetData(q, IF Len(q.data) < MaxData THEN Append(q.data, x) ELSE q.data)

LEMMA BodyParsed ==
    ASSUME NEW r
    PROVE  /\ WithData(ParsedResponse(r, 10), <<r.content, 1>>) = ParsedResponse(r, 11)
           /\ WithData(ParsedResponse(r, 11), <<r.content, 2>>) = ParsedResponse(r, 12)
           /\ \A z : WithData(ParsedResponse(r, 12), z) = ParsedResponse(r, 12)
           /\ ParsedParser(r, 10) = ParsedParser(r, 11)
           /\ ParsedParser(r, 11) = ParsedParser(r, 12)
  <1> DEFINE x == <<r.content, 1>>
             y == <<r.content, 2>>
             st == StatusOf(r)
  <1>1. /\ Append(<<>>, x) = <<x>> /\ Append(<<x>>, y) = <<x, y>>
        /\ Len(<<>>) < MaxData /\ Len(<<x>>) < MaxData /\ ~(Len(<<x, y>>) < MaxData)
    <2>1. x \in {x, y} /\ y \in {x, y}
      OBVIOUS
    <2> HIDE DEF x, y
    <2>2. Len(<<>>) = 0 /\ Len(<<x>>) = 1 /\ Len(<<x, y>>) = 2
      OBVIOUS
    <2>3. Len(<<>>) < MaxData /\ Len(<<x>>) < MaxData /\ ~(Len(<<x, y>>) < MaxData)
      BY <2>2 DEF MaxData
    <2>4. Append(<<>>, x) = <<x>> /\ Append(<<x>>, y) = <<x, y>>
      BY <2>1, PairAppend
    <2> QED
      BY <2>3, <2>4, Zenon
  <1>2. /\ ParsedResponse(r, 10) = Response(st, WholeHeaders, <<>>)
        /\ ParsedResponse(r, 11) = Response(st, WholeHeaders, <<x>>)
        /\ ParsedResponse(r, 12) = Response(st, WholeHeaders, <<x, y>>)
    BY ResponseTable DEF WholeData
  <1> HIDE DEF x, y, st
  <1>3. /\ Response(st, WholeHeaders, <<>>).data = <<>>
        /\ Response(st, WholeHeaders, <<x>>).data = <<x>>
        /\ Response(st, WholeHeaders, <<x, y>>).data = <<x, y>>
    BY DEF Response
  <1>4. /\ SetData(Response(st, WholeHeaders, <<>>), <<x>>) = Response(st, WholeHeaders, <<x>>)
        /\ SetData(Response(st, WholeHeaders, <<x>>), <<x, y>>)
           = Response(st, WholeHeaders, <<x, y>>)
        /\ SetData(Response(st, WholeHeaders, <<x, y>>), <<x, y>>)
           = Response(st, WholeHeaders, <<x, y>>)
    BY SetDataOf
  <1>5. ParsedParser(r, 10) = ParsedParser(r, 11) /\ ParsedParser(r, 11) = ParsedParser(r, 12)
    BY ParserTable
  <1>6. /\ WithData(ParsedResponse(r, 10), x) = ParsedResponse(r, 11)
        /\ WithData(ParsedResponse(r, 11), y) = ParsedResponse(r, 12)
        /\ \A z : WithData(ParsedResponse(r, 12), z) = ParsedResponse(r, 12)
    BY <1>1, <1>2, <1>3, <1>4, Zenon DEF WithData
  <1> QED
    BY <1>5, <1>6, Zenon DEF x, y

\* A repeated header is joined to the first one.
LEMMA HeadersParsed ==
    ASSUME NEW r, NEW k, parser = ParsedParser(r, k)
    PROVE  /\ k = 5 => SetHeaders(ParsedResponse(r, 5), AddTo(ParsedResponse(r, 5).headers))
                       = ParsedResponse(r, 6)
           /\ k = 9 => SetHeaders(ParsedResponse(r, 9), AddTo(ParsedResponse(r, 9).headers))
                       = ParsedResponse(r, 10)
  <1> DEFINE h == [name |-> Joined, value |-> <<"a">>]
  <1>1. CASE k = 5
    <2>1. parser.name = Joined /\ parser.value = <<"a">>
      <3>1. parser = Parser(InHeaders, "LAST_WAS_VALUE", Joined, <<"a">>)
        BY <1>1, ParserTable
      <3> QED
        BY <3>1 DEF Parser
    <2>2. {g \in {} : g.name = parser.name} = {}
      OBVIOUS
    <2>3. AddTo({}) = FirstHeader
      BY <2>1, <2>2 DEF AddTo, FirstHeader
    <2>4. Response(StatusOf(r), {}, <<>>).headers = {}
      BY DEF Response
    <2>5. SetHeaders(Response(StatusOf(r), {}, <<>>), FirstHeader)
          = Response(StatusOf(r), FirstHeader, <<>>)
      BY SetHeadersOf
    <2> QED
      BY <1>1, <2>3, <2>4, <2>5, ResponseTable
  <1>2. CASE k = 9
    <2>1. parser.name = Joined /\ parser.value = <<"b1", "b2">>
      <3>1. parser = Parser(InHeaders, "LAST_WAS_VALUE", Joined, <<"b1", "b2">>)
        BY <1>2, ParserTable
      <3> QED
        BY <3>1 DEF Parser
    <2>2. {g \in {h} : g.name = parser.name} = {h} /\ {h} # {} /\ {h} \ {h} = {}
      BY <2>1
    <2>3. <<"a">> \o <<", ">> \o <<"b1", "b2">> = <<"a", ", ", "b1", "b2">>
      <3> DEFINE S == {"a", ", ", "b1", "b2"}
      <3>1. "a" \in S /\ ", " \in S /\ "b1" \in S /\ "b2" \in S
        OBVIOUS
      <3> HIDE DEF S
      <3> QED
        BY <3>1, JoinedValue, ZenonT(60)
    <2>4. [h EXCEPT !.value = @ \o <<", ">> \o parser.value]
          = [name |-> Joined, value |-> <<"a", ", ", "b1", "b2">>]
      <3> DEFINE v == <<"a", ", ", "b1", "b2">>
      <3>1. h.value = <<"a">>
        OBVIOUS
      <3>2. [h EXCEPT !.value = v] = [name |-> Joined, value |-> v]
        <4> HIDE DEF v
        <4> QED
          OBVIOUS
      <3>3. h.value \o <<", ">> \o parser.value = v
        BY <2>1, <2>3, <3>1, Zenon
      <3> HIDE DEF h, v
      <3>4. [h EXCEPT !.value = @ \o <<", ">> \o parser.value] = [h EXCEPT !.value = v]
        BY <3>3, Zenon
      <3> QED
        BY <3>2, <3>4, Zenon DEF v
    <2>5. {[g EXCEPT !.value = @ \o <<", ">> \o parser.value] : g \in {h}} = WholeHeaders
      BY <2>4, Zenon DEF WholeHeaders, Joined
    <2>6. AddTo({h}) = ({h} \ {h})
               \cup {[g EXCEPT !.value = @ \o <<", ">> \o parser.value] : g \in {h}}
      BY <2>2, Zenon DEF AddTo
    <2>7. AddTo(FirstHeader) = WholeHeaders
      BY <2>2, <2>5, <2>6 DEF FirstHeader
    <2>8. Response(StatusOf(r), FirstHeader, <<>>).headers = FirstHeader
      BY DEF Response
    <2>9. SetHeaders(Response(StatusOf(r), FirstHeader, <<>>), WholeHeaders)
          = Response(StatusOf(r), WholeHeaders, <<>>)
      BY SetHeadersOf
    <2> QED
      BY <1>2, <2>7, <2>8, <2>9, ResponseTable
  <1> QED
    BY <1>1, <1>2

\* A callback is called for the piece that it is for.
LEMMA PieceRead ==
    ASSUME HInv,
           NEW t \in {"begin", "status", "field", "value", "headersEnd", "body", "end"}, Read(t)
    PROVE  /\ reply \in Replies /\ hpc = "read" /\ conn[scheme].bytes # <<>>
           /\ UNCHANGED <<scheme, reply>>
           /\ \E k \in 0..12 :
                 /\ parser = ParsedParser(reply, k) /\ response = ParsedResponse(reply, k)
                 /\ k # 12 => Unread(reply, k + 1, conn[scheme].asked, Tail(conn[scheme].bytes))
                 /\ t = "begin" => k = 0 /\ Piece1 = (IF reply.blank THEN "CR" ELSE "H")
                 /\ t = "status" => k = 1 /\ Piece1 = [code |-> reply.http, reason |-> reply.reason]
                 /\ t = "field" => \/ k \in {2, 5} /\ Piece1 = "f1"
                                   \/ k \in {3, 6} /\ Piece1 = "f2"
                 /\ t = "value" => \/ k = 4 /\ Piece1 = "a"
                                   \/ k = 7 /\ Piece1 = "b1"
                                   \/ k = 8 /\ Piece1 = "b2"
                 /\ t = "headersEnd" => k = 9 /\ Piece1 = reply.framing
                 /\ t = "body" => \/ k = 10 /\ Piece1 = <<reply.content, 1>>
                                  \/ k = 11 /\ Piece1 = <<reply.content, 2>>
                                  \/ k = 12 /\ Unread(reply, 12, conn[scheme].asked,
                                                      Tail(conn[scheme].bytes))
                 /\ t = "end" => k = 12 /\ reply.framing = "length"
  <1> DEFINE h == Head(conn[scheme].bytes)
             U(j) == Unread(reply, j, conn[scheme].asked, Tail(conn[scheme].bytes))
  <1>1. /\ hpc = "read" /\ conn[scheme].bytes # <<>> /\ h.kind = t
        /\ UNCHANGED <<scheme, reply>>
    BY DEF Read
  <1>2. reply \in Replies
    BY <1>1, NextPiece
  <1>3. PICK k \in 0..12 :
           /\ parser = ParsedParser(reply, k) /\ response = ParsedResponse(reply, k)
           /\ \/ /\ k + 1 \in 1..13 /\ k + 1 <= Len(Pieces(reply))
                 /\ h = Pieces(reply)[k + 1] \/ h.kind = "junk"
                 /\ U(k + 1)
              \/ k = 12 /\ h = More /\ U(12)
    BY <1>1, NextPiece
  <1>4. CASE k = 12 /\ h = More /\ U(12)
    <2>1. t = "body"
      BY <1>1, <1>4 DEF More, Piece
    <2> QED
      BY <1>1, <1>2, <1>3, <1>4, <2>1
  <1>5. CASE /\ k + 1 \in 1..13 /\ k + 1 <= Len(Pieces(reply))
             /\ h = Pieces(reply)[k + 1] \/ h.kind = "junk"
             /\ U(k + 1)
    <2>1. h = Pieces(reply)[k + 1] /\ t # "junk"
      BY <1>1, <1>5
    <2>2. Piece1 = h.val
      BY DEF Piece1
    <2> DEFINE q == Pieces(reply)[k + 1]
               i == k + 1
    <2>3. PieceAt(reply, i, q)
      BY <1>2, <1>5, PieceKinds
    <2>4. /\ i = 1 => k = 0
          /\ i = 2 => k = 1
          /\ i \in {3, 6} => k \in {2, 5}
          /\ i \in {4, 7} => k \in {3, 6}
          /\ i = 5 => k = 4
          /\ i = 8 => k = 7
          /\ i = 9 => k = 8
          /\ i = 10 => k = 9
          /\ i = 11 => k = 10
          /\ i = 12 => k = 11
          /\ i = 13 => k = 12
      OBVIOUS
    <2>5. q = h /\ q.kind = t /\ Piece1 = q.val
      BY <1>1, <2>1, <2>2
    <2> HIDE DEF q, i, h
    <2>6. /\ t = "begin" => k = 0 /\ Piece1 = (IF reply.blank THEN "CR" ELSE "H")
          /\ t = "status" => k = 1 /\ Piece1 = [code |-> reply.http, reason |-> reply.reason]
          /\ t = "field" => \/ k \in {2, 5} /\ Piece1 = "f1"
                            \/ k \in {3, 6} /\ Piece1 = "f2"
          /\ t = "value" => \/ k = 4 /\ Piece1 = "a"
                            \/ k = 7 /\ Piece1 = "b1"
                            \/ k = 8 /\ Piece1 = "b2"
          /\ t = "headersEnd" => k = 9 /\ Piece1 = reply.framing
          /\ t = "body" => \/ k = 10 /\ Piece1 = <<reply.content, 1>>
                           \/ k = 11 /\ Piece1 = <<reply.content, 2>>
          /\ t = "end" => k = 12 /\ reply.framing = "length"
      BY <2>3, <2>4, <2>5, ZenonT(60) DEF PieceAt
    <2> QED
      BY <1>1, <1>2, <1>3, <1>5, <2>6, Zenon
  <1> QED
    BY <1>3, <1>4, <1>5, Zenon

LEMMA HttpMessageBegin ==
    ASSUME HInv, OnMessageBegin
    PROVE  HInv'
  <1>1. /\ Read("begin") /\ Continue
        /\ parser' = [parser EXCEPT !.started = TRUE,
                          !.at = IF Piece1 = "H" THEN "s_res_H" ELSE "s_start_res"]
        /\ response' = response
    BY DEF OnMessageBegin
  <1>2. /\ reply \in Replies /\ hpc = "read" /\ conn[scheme].bytes # <<>>
        /\ UNCHANGED <<scheme, reply>>
    BY <1>1, PieceRead
  <1>3. PICK k \in 0..12 :
           /\ parser = ParsedParser(reply, k) /\ response = ParsedResponse(reply, k)
           /\ k # 12 => Unread(reply, k + 1, conn[scheme].asked, Tail(conn[scheme].bytes))
           /\ k = 0 /\ Piece1 = (IF reply.blank THEN "CR" ELSE "H")
    BY <1>1, PieceRead
  <1>4. 0 + 1 = 1 /\ 1 \in 0..12 /\ 0 # 12
    OBVIOUS
  <1>5. parser' = ParsedParser(reply, 1)
    BY <1>1, <1>3, BeginParsed, Zenon
  <1>6. response' = ParsedResponse(reply, 1)
    BY <1>1, <1>3, BeginParsed, Zenon
  <1> QED
    BY <1>1, <1>2, <1>3, <1>4, <1>5, <1>6, HttpContinues

LEMMA HttpStatus ==
    ASSUME HInv, OnStatus
    PROVE  HInv'
  <1>1. /\ Read("status") /\ Continue
        /\ parser' = [parser EXCEPT !.at = InHeaders]
        /\ response' = SetStatus(response,
                             IF Piece1.reason THEN Piece1.code ELSE response.httpStatus)
    BY DEF OnStatus, SetStatus, InHeaders
  <1>2. /\ reply \in Replies /\ hpc = "read" /\ conn[scheme].bytes # <<>>
        /\ UNCHANGED <<scheme, reply>>
    BY <1>1, PieceRead
  <1>3. PICK k \in 0..12 :
           /\ parser = ParsedParser(reply, k) /\ response = ParsedResponse(reply, k)
           /\ k # 12 => Unread(reply, k + 1, conn[scheme].asked, Tail(conn[scheme].bytes))
           /\ k = 1 /\ Piece1 = [code |-> reply.http, reason |-> reply.reason]
    BY <1>1, PieceRead
  <1>4. 1 + 1 = 2 /\ 2 \in 0..12 /\ 1 # 12
    OBVIOUS
  <1>5. parser' = ParsedParser(reply, 2)
    BY <1>1, <1>3, StatusParsed, Zenon
  <1>6. (IF Piece1.reason THEN Piece1.code ELSE response.httpStatus) = StatusOf(reply)
    <2>1. Piece1.reason = reply.reason /\ Piece1.code = reply.http
      BY <1>3
    <2>2. response.httpStatus = "NON_HTTP_ERROR"
      BY <1>3, StatusParsed, Zenon
    <2> QED
      BY <2>1, <2>2, Zenon DEF StatusOf
  <1>7. response' = ParsedResponse(reply, 2)
    BY <1>1, <1>3, <1>6, StatusParsed, Zenon
  <1> QED
    BY <1>1, <1>2, <1>3, <1>4, <1>5, <1>7, HttpContinues

LEMMA HttpHeaderField ==
    ASSUME HInv, OnHeaderField
    PROVE  HInv'
  <1> DEFINE n == IF parser.state = "LAST_WAS_FIELD" THEN Append(parser.name, Piece1)
                  ELSE <<Piece1>>
  <1>1. /\ Read("field") /\ Continue
        /\ parser' = SetName(parser, n)
        /\ response' = IF parser.state = "LAST_WAS_VALUE"
                       THEN SetHeaders(response, AddTo(response.headers)) ELSE response
    BY DEF OnHeaderField, SetName, SetHeaders
  <1>2. /\ reply \in Replies /\ hpc = "read" /\ conn[scheme].bytes # <<>>
        /\ UNCHANGED <<scheme, reply>>
    BY <1>1, PieceRead
  <1>3. PICK k \in 0..12 :
           /\ parser = ParsedParser(reply, k) /\ response = ParsedResponse(reply, k)
           /\ k # 12 => Unread(reply, k + 1, conn[scheme].asked, Tail(conn[scheme].bytes))
           /\ \/ k \in {2, 5} /\ Piece1 = "f1"
              \/ k \in {3, 6} /\ Piece1 = "f2"
    BY <1>1, PieceRead
  <1>4. parser' = ParsedParser(reply, k + 1)
    <2>1. SetName(parser, n) = ParsedParser(reply, k + 1)
      BY <1>3, FieldParsed
    <2> QED
      BY <1>1, <2>1
  <1>5. k # 12 /\ k + 1 \in 0..12
    BY <1>3
  <1>6. response' = ParsedResponse(reply, k + 1)
    <2>1. CASE k = 5
      <3>1. parser.state = "LAST_WAS_VALUE"
        <4>1. parser = Parser(InHeaders, "LAST_WAS_VALUE", Joined, <<"a">>)
          BY <1>3, <2>1, ParserTable
        <4> QED
          BY <4>1 DEF Parser
      <3>2. response' = SetHeaders(response, AddTo(response.headers))
        BY <1>1, <3>1
      <3> QED
        BY <1>3, <2>1, <3>2, HeadersParsed
    <2>2. CASE k # 5
      <3>1. k = 2 \/ k = 3 \/ k = 6
        BY <1>3, <2>2
      <3>2. parser.state # "LAST_WAS_VALUE"
        <4>1. \/ parser = Parser(InHeaders, "INITIAL", <<>>, <<>>)
              \/ parser = Parser(InHeaders, "LAST_WAS_FIELD", <<"f1">>, <<>>)
              \/ parser = Parser(InHeaders, "LAST_WAS_FIELD", <<"f1">>, <<"a">>)
          BY <1>3, <3>1, ParserTable
        <4> QED
          BY <4>1 DEF Parser
      <3>3. response' = response
        BY <1>1, <3>2
      <3>4. ParsedResponse(reply, k) = ParsedResponse(reply, k + 1)
        <4>1. 2 + 1 = 3 /\ 3 + 1 = 4 /\ 6 + 1 = 7
          OBVIOUS
        <4> QED
          BY <3>1, <4>1, ResponseTable, Zenon
      <3> QED
        BY <1>3, <3>3, <3>4
    <2> QED
      BY <2>1, <2>2
  <1> QED
    BY <1>1, <1>2, <1>3, <1>4, <1>5, <1>6, HttpContinues

LEMMA HttpHeaderValue ==
    ASSUME HInv, OnHeaderValue
    PROVE  HInv'
  <1> DEFINE v == IF parser.state = "LAST_WAS_VALUE" THEN Append(parser.value, Piece1)
                  ELSE <<Piece1>>
  <1>1. /\ Read("value") /\ Continue
        /\ parser' = SetValue(parser, v)
        /\ response' = response
    BY DEF OnHeaderValue, SetValue
  <1>2. /\ reply \in Replies /\ hpc = "read" /\ conn[scheme].bytes # <<>>
        /\ UNCHANGED <<scheme, reply>>
    BY <1>1, PieceRead
  <1>3. PICK k \in 0..12 :
           /\ parser = ParsedParser(reply, k) /\ response = ParsedResponse(reply, k)
           /\ k # 12 => Unread(reply, k + 1, conn[scheme].asked, Tail(conn[scheme].bytes))
           /\ \/ k = 4 /\ Piece1 = "a"
              \/ k = 7 /\ Piece1 = "b1"
              \/ k = 8 /\ Piece1 = "b2"
    BY <1>1, PieceRead
  <1>4. /\ SetValue(parser, v) = ParsedParser(reply, k + 1)
        /\ ParsedResponse(reply, k) = ParsedResponse(reply, k + 1)
    BY <1>3, ValueParsed
  <1>5. parser' = ParsedParser(reply, k + 1) /\ response' = ParsedResponse(reply, k + 1)
    BY <1>1, <1>3, <1>4
  <1>6. k # 12 /\ k + 1 \in 0..12
    BY <1>3
  <1> QED
    BY <1>1, <1>2, <1>3, <1>5, <1>6, HttpContinues

LEMMA HttpHeadersComplete ==
    ASSUME HInv, OnHeadersComplete
    PROVE  HInv'
  <1>1. /\ Read("headersEnd") /\ Continue
        /\ parser' = SetAt(parser, Piece1)
        /\ response' = IF parser.state = "LAST_WAS_VALUE"
                       THEN SetHeaders(response, AddTo(response.headers)) ELSE response
    BY DEF OnHeadersComplete, SetAt, SetHeaders
  <1>2. /\ reply \in Replies /\ hpc = "read" /\ conn[scheme].bytes # <<>>
        /\ UNCHANGED <<scheme, reply>>
    BY <1>1, PieceRead
  <1>3. PICK k \in 0..12 :
           /\ parser = ParsedParser(reply, k) /\ response = ParsedResponse(reply, k)
           /\ k # 12 => Unread(reply, k + 1, conn[scheme].asked, Tail(conn[scheme].bytes))
           /\ k = 9 /\ Piece1 = reply.framing
    BY <1>1, PieceRead
  <1>4. 9 + 1 = 10 /\ 10 \in 0..12 /\ 9 # 12
    OBVIOUS
  <1>5. parser' = ParsedParser(reply, 10)
    BY <1>1, <1>3, HeadersEndParsed
  <1>6. response' = ParsedResponse(reply, 10)
    <2>1. parser.state = "LAST_WAS_VALUE"
      <3>1. parser = Parser(InHeaders, "LAST_WAS_VALUE", Joined, <<"b1", "b2">>)
        BY <1>3, ParserTable
      <3> QED
        BY <3>1 DEF Parser
    <2>2. response' = SetHeaders(response, AddTo(response.headers))
      BY <1>1, <2>1
    <2> QED
      BY <1>3, <2>2, HeadersParsed
  <1> QED
    BY <1>1, <1>2, <1>3, <1>4, <1>5, <1>6, HttpContinues

LEMMA HttpBody ==
    ASSUME HInv, OnBody
    PROVE  HInv'
  <1> DEFINE U(j) == Unread(reply, j, conn[scheme].asked, Tail(conn[scheme].bytes))
  <1>1. /\ Read("body") /\ Continue
        /\ parser' = parser
        /\ response' = WithData(response, Piece1)
    BY DEF OnBody, SetData, WithData
  <1>2. /\ reply \in Replies /\ hpc = "read" /\ conn[scheme].bytes # <<>>
        /\ UNCHANGED <<scheme, reply>>
    BY <1>1, PieceRead
  <1>3. PICK k \in 0..12 :
           /\ parser = ParsedParser(reply, k) /\ response = ParsedResponse(reply, k)
           /\ k # 12 => U(k + 1)
           /\ \/ k = 10 /\ Piece1 = <<reply.content, 1>>
              \/ k = 11 /\ Piece1 = <<reply.content, 2>>
              \/ k = 12 /\ U(12)
    BY <1>1, PieceRead
  <1>4. \E j \in 0..12 :
           response' = ParsedResponse(reply, j) /\ parser' = ParsedParser(reply, j) /\ U(j)
    <2>1. 10 + 1 = 11 /\ 11 + 1 = 12 /\ 10 # 12 /\ 11 # 12 /\ 11 \in 0..12 /\ 12 \in 0..12
      OBVIOUS
    <2> HIDE DEF U
    <2>2. CASE k = 10 /\ Piece1 = <<reply.content, 1>>
      <3>1. response' = ParsedResponse(reply, 11) /\ parser' = ParsedParser(reply, 11) /\ U(11)
        BY <1>1, <1>3, <2>1, <2>2, BodyParsed, Zenon
      <3> QED
        BY <2>1, <3>1, Zenon
    <2>3. CASE k = 11 /\ Piece1 = <<reply.content, 2>>
      <3>1. response' = ParsedResponse(reply, 12) /\ parser' = ParsedParser(reply, 12) /\ U(12)
        BY <1>1, <1>3, <2>1, <2>3, BodyParsed, Zenon
      <3> QED
        BY <2>1, <3>1, Zenon
    <2>4. CASE k = 12 /\ U(12)
      <3>1. response' = ParsedResponse(reply, 12) /\ parser' = ParsedParser(reply, 12) /\ U(12)
        BY <1>1, <1>3, <2>1, <2>4, BodyParsed, Zenon
      <3> QED
        BY <2>1, <3>1, Zenon
    <2> QED
      BY <1>3, <2>2, <2>3, <2>4, Zenon
  <1> QED
    BY <1>1, <1>2, <1>4, HttpContinues

LEMMA PairPrefixes ==
    ASSUME NEW S, NEW x \in S, NEW y \in S
    PROVE  /\ SubSeq(<<x, y>>, 1, 0) = <<>>
           /\ SubSeq(<<x, y>>, 1, 1) = <<x>>
           /\ SubSeq(<<x, y>>, 1, 2) = <<x, y>>
  <1> DEFINE d == <<x, y>>
             c == <<x>>
             e == SubSeq(d, 1, 1)
  <1>1. /\ d \in Seq(S) /\ Len(d) = 2 /\ d[1] = x /\ d[2] = y
        /\ c \in Seq(S) /\ Len(c) = 1 /\ c[1] = x
    OBVIOUS
  <1> HIDE DEF d, c
  <1>2. e \in Seq(S) /\ Len(e) = 1 /\ e[1] = d[1]
    BY <1>1, SubSeqProperties
  <1>3. SubSeq(d, 1, 0) = <<>>
    BY <1>1, SubSeqEmpty
  <1>4. SubSeq(d, 1, 2) = d
    BY <1>1, SubSeqFull
  <1> HIDE DEF e
  <1>5. e = c
    <2>1. \A i \in 1..Len(e) : e[i] = c[i]
      BY <1>1, <1>2
    <2> QED
      BY <1>1, <1>2, <2>1, SeqEqual
  <1> QED
    BY <1>3, <1>4, <1>5 DEF c, d, e

LEMMA ReplyNotNone ==
    ASSUME NEW r \in Replies
    PROVE  r # NoReply
  <1>1. NoReply.http = "none"
    BY DEF NoReply
  <1>2. r.http \in {"OK", "error"}
    BY DEF Replies
  <1> QED
    BY <1>1, <1>2

\* Once the headers have ended, and all of the body is there if its length is known.
LEMMA ParsedFaithful ==
    ASSUME reply \in Replies, NEW k \in {10, 11, 12}, response = ParsedResponse(reply, k),
           reply.framing = "length" => k = 12
    PROVE  Faithful
  <1> DEFINE c == reply.content
             x == <<c, 1>>
             y == <<c, 2>>
  <1>1. /\ SubSeq(WholeData(c), 1, 0) = <<>>
        /\ SubSeq(WholeData(c), 1, 1) = <<x>>
        /\ SubSeq(WholeData(c), 1, 2) = WholeData(c)
    <2>1. x \in {x, y} /\ y \in {x, y} /\ WholeData(c) = <<x, y>>
      BY DEF WholeData
    <2> HIDE DEF x, y
    <2> QED
      BY <2>1, PairPrefixes
  <1>2. /\ k = 10 => response = Response(StatusOf(reply), WholeHeaders, <<>>)
        /\ k = 11 => response = Response(StatusOf(reply), WholeHeaders, <<x>>)
        /\ k = 12 => response = Response(StatusOf(reply), WholeHeaders, WholeData(c))
    BY ResponseTable
  <1>3. response.httpStatus = StatusOf(reply) /\ response.headers = WholeHeaders
    BY <1>2 DEF Response
  <1>4. /\ k = 10 => response.data = <<>>
        /\ k = 11 => response.data = <<x>>
        /\ k = 12 => response.data = WholeData(c)
    BY <1>2 DEF Response
  <1>5. \E n \in 0..MaxData : response.data = SubSeq(WholeData(c), 1, n)
    <2>1. 0 \in 0..MaxData /\ 1 \in 0..MaxData /\ 2 \in 0..MaxData
      BY DEF MaxData
    <2> QED
      BY <1>1, <1>4, <2>1, Zenon
  <1>6. reply.framing = "length" => response.data = WholeData(c)
    BY <1>4
  <1> QED
    BY <1>3, <1>5, <1>6, ReplyNotNone DEF Faithful

LEMMA HttpMessageComplete ==
    ASSUME HInv, OnMessageComplete
    PROVE  HInv'
  <1>1. Read("end") /\ Finish("SUCCESS")
    BY DEF OnMessageComplete
  <1>2. reply \in Replies /\ hpc = "read" /\ UNCHANGED <<scheme, reply>>
    BY <1>1, PieceRead
  <1>3. PICK k \in 0..12 : response = ParsedResponse(reply, k) /\ k = 12
    BY <1>1, PieceRead
  <1>4. Faithful
    BY <1>2, <1>3, ParsedFaithful
  <1> QED
    BY <1>1, <1>2, <1>4, HttpFinish

LEMMA HttpParseError ==
    ASSUME HInv, OnParseError
    PROVE  HInv'
  <1>1. Finish("PARSE_ERROR") /\ hpc = "read" /\ UNCHANGED <<scheme, reply>>
    BY DEF OnParseError, Read
  <1> QED
    BY <1>1, HttpFinish

\* The end of the connection completes a response only behind its headers, or when
\* nothing but an empty line was read.
LEMMA EofFaithful ==
    ASSUME HInv, hpc = "read", parser.started, parser.at \in {"s_start_res", "eof"}
    PROVE  Faithful
  <1>1. parser # NewParser
    BY DEF NewParser
  <1>2. reply \in Replies /\ reply # NoReply
    BY <1>1 DEF HInv, ReadInv
  <1>3. PICK k \in 0..12 : parser = ParsedParser(reply, k) /\ response = ParsedResponse(reply, k)
    BY <1>2 DEF HInv, ReadInv
  <1>4. k # 0
    BY <1>1, <1>3, ParserTable
  <1>5. parser.at = IF k = 0 THEN "s_start_res"
                    ELSE IF k = 1 THEN (IF reply.blank THEN "s_start_res" ELSE "s_res_H")
                    ELSE IF k <= 9 THEN "s_header_field_start" ELSE reply.framing
    BY <1>3 DEF ParsedParser
  <1>6. reply.framing \in {"length", "eof"}
    BY <1>2, FramingsAssumption DEF Replies
  <1>7. CASE k = 1
    <2>1. reply.blank
      BY <1>5, <1>7
    <2>2. response = Response("NON_HTTP_ERROR", {}, <<>>)
      BY <1>3, <1>7, ResponseTable
    <2>3. response.httpStatus = "NON_HTTP_ERROR" /\ response.headers = {} /\ response.data = <<>>
      BY <2>2 DEF Response
    <2> QED
      BY <1>2, <2>1, <2>3, Zenon DEF Faithful
  <1>8. CASE k # 1
    <2>1. k >= 10 /\ reply.framing = "eof"
      BY <1>4, <1>5, <1>6, <1>8
    <2>2. k \in {10, 11, 12}
      BY <2>1
    <2> QED
      BY <1>2, <1>3, <2>1, <2>2, ParsedFaithful
  <1> QED
    BY <1>7, <1>8

LEMMA HttpReadNothing ==
    ASSUME HInv, hpc = "read", Finish(EofStatus), UNCHANGED <<scheme, reply>>
    PROVE  HInv'
  <1>1. CASE parser.started /\ parser.at \in {"s_start_res", "eof"}
    <2>1. EofStatus = "SUCCESS"
      BY <1>1 DEF EofStatus
    <2>2. Finish("SUCCESS")
      BY <2>1
    <2> QED
      BY <1>1, <2>2, EofFaithful, HttpFinish
  <1>2. CASE ~(parser.started /\ parser.at \in {"s_start_res", "eof"})
    <2>1. EofStatus = "PARSE_ERROR"
      BY <1>2 DEF EofStatus
    <2>2. Finish("PARSE_ERROR")
      BY <2>1
    <2> QED
      BY <2>2, HttpFinish
  <1> QED
    BY <1>1, <1>2

\* Every step of Execute keeps the invariant.
LEMMA HttpStepInv ==
    ASSUME HInv, HttpStep
    PROVE  HInv'
  <1>1. CASE ConnectTo
    BY <1>1, HttpConnects
  <1>2. CASE ConnectToFails
    <2>1. hpc = "connect" /\ Finish("NETWORK_ERROR") /\ UNCHANGED <<scheme, reply>>
      BY <1>2 DEF ConnectToFails
    <2> QED
      BY <2>1, HttpFinish
  <1>3. CASE SendRequest
    BY <1>3, HttpSends
  <1>4. CASE SendFails
    <2>1. hpc = "send" /\ Finish("NETWORK_ERROR") /\ UNCHANGED <<scheme, reply>>
      BY <1>4 DEF SendFails
    <2> QED
      BY <2>1, HttpFinish
  <1>5. CASE OnStatus
    BY <1>5, HttpStatus
  <1>6. CASE OnHeaderField
    BY <1>6, HttpHeaderField
  <1>7. CASE OnHeaderValue
    BY <1>7, HttpHeaderValue
  <1>8. CASE OnHeadersComplete
    BY <1>8, HttpHeadersComplete
  <1>9. CASE OnBody
    BY <1>9, HttpBody
  <1>10. CASE OnMessageComplete
    BY <1>10, HttpMessageComplete
  <1>11. CASE OnParseError
    BY <1>11, HttpParseError
  <1>12. CASE ReadEnds
    <2>1. hpc = "read" /\ Finish(EofStatus) /\ UNCHANGED <<scheme, reply>>
      BY <1>12 DEF ReadEnds
    <2> QED
      BY <2>1, HttpReadNothing
  <1>13. CASE ReadTimesOut
    <2>1. hpc = "read" /\ Finish(EofStatus) /\ UNCHANGED <<scheme, reply>>
      BY <1>13 DEF ReadTimesOut
    <2> QED
      BY <2>1, HttpReadNothing
  <1>14. CASE OnMessageBegin
    BY <1>14, HttpMessageBegin
  <1> QED
    BY <1>1, <1>2, <1>3, <1>4, <1>5, <1>6, <1>7, <1>8, <1>9, <1>10, <1>11, <1>12, <1>13, <1>14
       DEF HttpStep, Reading

(***************************************************************************)
(* The server, and the caller of Execute                                   *)
(***************************************************************************)

\* A server answers only the request that is being read.
LEMMA HttpAnswers ==
    ASSUME HInv, NEW s \in Schemes, NEW r \in Replies, NEW p, NEW then \in {"no", "more"},
           Left(r, 0, p), Unread(r, 0, then, p), Answers(s, r, p, then)
    PROVE  HInv' /\ hpc = "read" /\ reply' = r /\ UNCHANGED <<hpc, response>>
  <1>1. /\ conn[s].asked \in {"now", "before"}
        /\ conn' = [conn EXCEPT
                      ![s].asked = then,
                      ![s].bytes = @ \o IF conn[s].asked = "now" THEN p
                                        ELSE [i \in DOMAIN p |-> [p[i] EXCEPT !.old = TRUE]]]
        /\ reply' = IF conn[s].asked = "now" THEN r ELSE reply
        /\ UNCHANGED <<hpc, scheme, m_connection, parser, response>>
    BY DEF Answers
  <1>2. /\ hpc \in {"idle", "connect", "send", "read"} /\ scheme \in Schemes
        /\ m_connection = (IF hpc \in {"send", "read"} THEN scheme ELSE "NULL")
        /\ conn \in [Schemes -> Connections]
        /\ \A t \in Schemes : t # m_connection => conn[t] = NotOpen
        /\ hpc = "send" => conn[scheme] = [NotOpen EXCEPT !.up = TRUE]
    BY DEF HInv, ConnInv
  <1>3. s = m_connection
    BY <1>1, <1>2, NotOpenType
  <1>4. s = scheme /\ hpc \in {"send", "read"}
    BY <1>2, <1>3, SchemesAssumption
  <1>5. hpc = "read"
    BY <1>1, <1>2, <1>4, NotOpenType
  <1>6. conn[s] \in Connections
    BY <1>2
  <1>7. conn[s].asked = "now"
    BY <1>1, <1>6 DEF Connections
  <1>8. reply = NoReply
    BY <1>4, <1>5, <1>7 DEF HInv, ReadInv
  <1>9. conn[s].bytes = <<>> /\ parser = NewParser /\ response = NewResponse
    BY <1>4, <1>5, <1>8 DEF HInv, ReadInv
  <1>10. p \in Seq(AllPieces)
    BY DEF Left
  <1>11. <<>> \o p = p
    BY <1>10, ConcatEmptySeq
  <1>12. conn' = [conn EXCEPT ![s] = [@ EXCEPT !.asked = then, !.bytes = p]]
    BY <1>1, <1>7, <1>9, <1>11
  <1> DEFINE c == [conn[s] EXCEPT !.asked = then, !.bytes = p]
  <1>13. c \in Connections /\ c.asked = then /\ c.bytes = p
    BY <1>6, <1>10 DEF Connections
  <1>14. conn' = [conn EXCEPT ![s] = c]
    BY <1>12
  <1> HIDE DEF c
  <1>15. /\ conn' \in [Schemes -> Connections] /\ conn'[s] = c
         /\ \A t \in Schemes : t # s => conn'[t] = conn[t]
    BY <1>2, <1>13, <1>14
  <1>16. reply' = r /\ r # NoReply
    BY <1>1, <1>7, ReplyNotNone
  <1>17. ConnInv'
    BY <1>1, <1>2, <1>4, <1>5, <1>15 DEF ConnInv
  <1>18. parser = ParsedParser(r, 0) /\ response = ParsedResponse(r, 0)
    <2>1. NewResponse = Response("NON_HTTP_ERROR", {}, <<>>)
      BY DEF NewResponse, Response
    <2> QED
      BY <1>9, <2>1, ParserTable, ResponseTable
  <1>19. ReadInv'
    <2>1. 0 \in 0..12
      OBVIOUS
    <2>2. \E k \in 0..12 : /\ parser = ParsedParser(r, k) /\ response = ParsedResponse(r, k)
                           /\ Unread(r, k, then, p)
      BY <1>18, <2>1
    <2>3. conn'[scheme'].asked = then /\ conn'[scheme'].bytes = p
      BY <1>1, <1>4, <1>13, <1>15
    <2>4. \E k \in 0..12 : /\ parser' = ParsedParser(reply', k)
                           /\ response' = ParsedResponse(reply', k)
                           /\ Unread(reply', k, conn'[scheme'].asked, conn'[scheme'].bytes)
      BY <1>1, <1>16, <2>2, <2>3
    <2>5. hpc' = "read" /\ reply' \in Replies /\ reply' # NoReply
      BY <1>1, <1>5, <1>16
    <2> QED
      BY <2>3, <2>4, <2>5 DEF ReadInv
  <1>20. response'.executeStatus = "INVALID"
    BY <1>1, <1>9 DEF NewResponse
  <1>21. ReturnInv'
    BY <1>1, <1>5, <1>20 DEF ReturnInv, ResponseFaithful
  <1> QED
    BY <1>1, <1>5, <1>16, <1>17, <1>19, <1>21 DEF HInv

\* What a server may send, however far it gets.
LEMMA AnswersLeft ==
    ASSUME NEW r \in Replies
    PROVE  /\ Left(r, 0, Pieces(r))
           /\ \A k \in 0..(Len(Pieces(r)) - 1) :
                 /\ Left(r, 0, SubSeq(Pieces(r), 1, k))
                 /\ Left(r, 0, Append(SubSeq(Pieces(r), 1, k), Piece("junk", "")))
  <1> DEFINE q == Pieces(r)
             j == Piece("junk", "")
  <1>1. q \in Seq(AllPieces) /\ Len(q) \in {12, 13}
    BY PieceTable
  <1>2. j \in AllPieces /\ j.kind = "junk"
    BY PieceTypes DEF Piece
  <1> HIDE DEF q, j
  <1>3. ASSUME NEW p \in Seq(AllPieces), Len(p) <= Len(q),
               \A i \in 1..Len(p) : p[i] = q[i] \/ p[i].kind = "junk"
        PROVE  Left(r, 0, p)
    <2>1. 0 + Len(p) <= Len(Pieces(r))
      <3>1. Len(p) \in Nat /\ Len(p) <= Len(Pieces(r))
        BY <1>3 DEF q
      <3> QED
        BY <3>1
    <2>2. ASSUME NEW i \in 1..Len(p)
          PROVE  p[i] = Pieces(r)[0 + i] \/ p[i].kind = "junk"
      <3>1. 0 + i = i
        OBVIOUS
      <3> QED
        BY <1>3, <3>1 DEF q
    <2> QED
      BY <1>3, <2>1, <2>2 DEF Left
  <1>4. Left(r, 0, q)
    BY <1>1, <1>3
  <1>5. ASSUME NEW k \in 0..(Len(q) - 1)
        PROVE  Left(r, 0, SubSeq(q, 1, k)) /\ Left(r, 0, Append(SubSeq(q, 1, k), j))
    <2> DEFINE p == SubSeq(q, 1, k)
               a == Append(p, j)
    <2>1. /\ p \in Seq(AllPieces) /\ Len(p) = k
          /\ \A i \in 1..k : p[i] = q[i]
      BY <1>1, SubSeqProperties
    <2> HIDE DEF p
    <2>2. /\ a \in Seq(AllPieces) /\ Len(a) = k + 1
          /\ \A i \in 1..k : a[i] = p[i]
          /\ a[k + 1] = j
      BY <1>2, <2>1, AppendProperties
    <2> HIDE DEF a
    <2>3. Left(r, 0, p)
      BY <1>1, <1>3, <2>1
    <2>4. Left(r, 0, a)
      <3>1. Len(a) <= Len(q)
        BY <1>1, <2>2
      <3>2. ASSUME NEW i \in 1..Len(a)
            PROVE  a[i] = q[i] \/ a[i].kind = "junk"
        <4>1. i \in 1..k \/ i = k + 1
          BY <2>2
        <4> QED
          BY <1>2, <2>1, <2>2, <4>1
      <3> QED
        BY <1>3, <2>2, <3>1, <3>2
    <2> QED
      BY <2>3, <2>4 DEF p, a
  <1> QED
    BY <1>4, <1>5 DEF q, j

LEMMA HttpServer ==
    ASSUME HInv, NEW s \in Schemes, NEW r \in Replies,
           ServerAnswers(s, r) \/ ServerBreaksOff(s, r) \/ ServerGarbles(s, r)
    PROVE  HInv' /\ hpc = "read" /\ reply' = r /\ UNCHANGED <<hpc, response>>
  <1>1. \E p : \E then \in {"no", "more"} :
           Left(r, 0, p) /\ Unread(r, 0, then, p) /\ Answers(s, r, p, then)
    <2>1. CASE ServerAnswers(s, r)
      <3> DEFINE then == IF Endless(r) THEN "more" ELSE "no"
      <3>1. Answers(s, r, Pieces(r), then) /\ then \in {"no", "more"}
        BY <2>1 DEF ServerAnswers
      <3>2. then = "more" => Endless(r) /\ 0 + Len(Pieces(r)) = 12
        <4>1. Len(Pieces(r)) = IF r.framing = "length" THEN 13 ELSE 12
          BY PieceTable
        <4> QED
          BY <4>1 DEF Endless
      <3>3. Left(r, 0, Pieces(r))
        BY AnswersLeft
      <3>4. Unread(r, 0, then, Pieces(r))
        BY <3>2, <3>3 DEF Unread
      <3> HIDE DEF then
      <3> QED
        BY <3>1, <3>3, <3>4
    <2>2. CASE ServerBreaksOff(s, r) \/ ServerGarbles(s, r)
      <3>1. \E p : Left(r, 0, p) /\ Answers(s, r, p, "no")
        BY <2>2, AnswersLeft DEF ServerBreaksOff, ServerGarbles
      <3> QED
        BY <3>1 DEF Unread
    <2> QED
      BY <2>1, <2>2
  <1> QED
    BY <1>1, HttpAnswers

\* More of an endless body comes only when the rest of it has been read.
LEMMA HttpGoesOn ==
    ASSUME HInv, NEW s \in Schemes, ServerGoesOn(s), <<More>> \in Seq(AllPieces)
    PROVE  HInv' /\ hpc # "idle" /\ reply' = reply
  <1>1. /\ conn[s].asked = "more" /\ conn[s].bytes = <<>>
        /\ conn' = [conn EXCEPT ![s].bytes = <<More>>]
        /\ UNCHANGED <<hpc, scheme, m_connection, parser, response, reply>>
    BY DEF ServerGoesOn, More
  <1>2. /\ hpc \in {"idle", "connect", "send", "read"} /\ scheme \in Schemes
        /\ m_connection = (IF hpc \in {"send", "read"} THEN scheme ELSE "NULL")
        /\ conn \in [Schemes -> Connections]
        /\ \A t \in Schemes : t # m_connection => conn[t] = NotOpen
        /\ hpc = "send" => conn[scheme] = [NotOpen EXCEPT !.up = TRUE]
    BY DEF HInv, ConnInv
  <1>3. s = m_connection
    BY <1>1, <1>2, NotOpenType
  <1>4. s = scheme /\ hpc \in {"send", "read"}
    BY <1>2, <1>3, SchemesAssumption
  <1>5. hpc = "read"
    BY <1>1, <1>2, <1>4, NotOpenType
  <1>6. reply # NoReply
    BY <1>1, <1>4, <1>5 DEF HInv, ReadInv
  <1>7. PICK k \in 0..12 : /\ parser = ParsedParser(reply, k)
                           /\ response = ParsedResponse(reply, k)
                           /\ Unread(reply, k, "more", <<>>)
    BY <1>1, <1>4, <1>5, <1>6 DEF HInv, ReadInv
  <1>8. Endless(reply) /\ k = 12
    <2>1. <<>> # <<More>> /\ Len(<<>>) = 0 /\ k + 0 = k
      OBVIOUS
    <2> QED
      BY <1>7, <2>1 DEF Unread
  <1>9. /\ conn' \in [Schemes -> Connections] /\ conn'[s].asked = "more"
        /\ conn'[s].bytes = <<More>>
        /\ \A t \in Schemes : t # s => conn'[t] = conn[t]
    BY <1>1, <1>2 DEF Connections
  <1>10. ConnInv'
    BY <1>1, <1>2, <1>4, <1>5, <1>9 DEF ConnInv
  <1>11. ReadInv'
    <2>1. Unread(reply, 12, "more", <<More>>) /\ 12 \in 0..12
      BY <1>8 DEF Unread
    <2>2. \E j \in 0..12 : /\ parser' = ParsedParser(reply', j)
                           /\ response' = ParsedResponse(reply', j)
                           /\ Unread(reply', j, conn'[scheme'].asked, conn'[scheme'].bytes)
      BY <1>1, <1>4, <1>7, <1>8, <1>9, <2>1
    <2>3. hpc' = "read" /\ reply' \in Replies \cup {NoReply} /\ reply' # NoReply
      BY <1>1, <1>5, <1>6 DEF HInv, ReadInv
    <2>4. conn'[scheme'].asked = "more"
      BY <1>1, <1>4, <1>9
    <2> QED
      BY <2>2, <2>3, <2>4 DEF ReadInv
  <1>12. ReturnInv'
    BY <1>1, <1>5 DEF HInv, ReturnInv, ResponseFaithful
  <1> QED
    BY <1>1, <1>5, <1>10, <1>11, <1>12 DEF HInv

LEMMA HttpConsumed ==
    ASSUME HInv, hpc = "idle", Consumed
    PROVE  HInv'
  <1>1. /\ response' = NewResponse /\ reply' = NoReply
        /\ UNCHANGED <<hpc, scheme, m_connection, conn, parser>>
    BY DEF Consumed
  <1>2. response'.executeStatus = "INVALID"
    BY <1>1 DEF NewResponse
  <1>3. ConnInv'
    BY <1>1 DEF HInv, ConnInv
  <1> QED
    BY <1>1, <1>2, <1>3 DEF HInv, ReadInv, ReturnInv, ResponseFaithful

LEMMA HttpUnchanged ==
    ASSUME HInv, UNCHANGED <<hpc, scheme, m_connection, conn, parser, response, reply>>
    PROVE  HInv'
  <1>1. ConnInv'
    BY DEF HInv, ConnInv
  <1>2. ReadInv'
    BY DEF HInv, ReadInv
  <1>3. ReturnInv'
    BY DEF HInv, ReturnInv, ResponseFaithful
  <1> QED
    BY <1>1, <1>2, <1>3 DEF HInv

(***************************************************************************)
(* The steps of the authentication and of the messages keep the invariant  *)
(***************************************************************************)
LEMMA HttpStepFrame ==
    ASSUME HttpStep
    PROVE  hpc # "idle" /\ reply' = reply
  BY DEF HttpStep, Reading, ConnectTo, ConnectToFails, SendRequest, SendFails, OnMessageBegin,
         OnStatus, OnHeaderField, OnHeaderValue, OnHeadersComplete, OnBody, OnMessageComplete,
         OnParseError, ReadEnds, ReadTimesOut, Read

\* The keys and the messages stay as they are.
LEMMA MessagesUnchanged ==
    ASSUME KeysInv, PrivateReadable, UNCHANGED <<m_userId, pending, event>>,
           m_conf'.identity.user = m_conf.identity.user,
           m_conf'.identity.sok = m_conf.identity.sok
    PROVE  KeysInv' /\ PrivateReadable'
  <1>1. KeysInv'
    BY DEF KeysInv
  <1>2. PrivateReadable'
    BY DEF PrivateReadable, Genuine
  <1> QED
    BY <1>1, <1>2

\* A text that DoAuth can use is one the server has sent, with status OK.
LEMMA ContentRead ==
    ASSUME ResponseFaithful, NEW c, MakeRequest(c)
    PROVE  reply # NoReply /\ reply.http = "OK" /\ reply.reason /\ reply.content = c
  <1>0. /\ hpc = "idle" /\ response.executeStatus = "SUCCESS" /\ response.httpStatus = "OK"
        /\ response.data = WholeData(c)
    BY DEF MakeRequest
  <1>1. /\ reply # NoReply /\ StatusOf(reply) = "OK"
        /\ \E n \in 0..2 : response.data = SubSeq(WholeData(reply.content), 1, n)
    BY <1>0 DEF ResponseFaithful, MaxData
  <1>8. reply.http = "OK" /\ reply.reason
    BY <1>1 DEF StatusOf
  <1>2. PICK n \in 0..2 : WholeData(c) = SubSeq(WholeData(reply.content), 1, n)
    BY <1>0, <1>1
  <1> DEFINE d == reply.content
             x == <<d, 1>>
             y == <<d, 2>>
             u == <<c, 1>>
             v == <<c, 2>>
  <1>3. /\ SubSeq(<<x, y>>, 1, 0) = <<>>
        /\ SubSeq(<<x, y>>, 1, 1) = <<x>>
        /\ SubSeq(<<x, y>>, 1, 2) = <<x, y>>
    <2>1. x \in {x, y} /\ y \in {x, y}
      OBVIOUS
    <2> HIDE DEF x, y
    <2> QED
      BY <2>1, PairPrefixes
  <1>4. WholeData(d) = <<x, y>> /\ WholeData(c) = <<u, v>>
    BY DEF WholeData
  <1>5. <<u, v>> = <<>> \/ <<u, v>> = <<x>> \/ <<u, v>> = <<x, y>>
    <2>1. n = 0 \/ n = 1 \/ n = 2
      OBVIOUS
    <2> HIDE DEF x, y, u, v, d
    <2>2. <<u, v>> = SubSeq(<<x, y>>, 1, n)
      BY <1>2, <1>4 DEF d
    <2> QED
      BY <1>3, <2>1, <2>2, Zenon
  <1> HIDE DEF x, y, u, v
  <1>6. u = x
    BY <1>5
  <1>7. c = d
    BY <1>6 DEF u, x
  <1> QED
    BY <1>1, <1>7, <1>8

LEMMA AuthInitInv ==
    ASSUME Init
    PROVE  AInv
  <1>1. /\ m_conf \in Configs /\ m_userId = m_conf.identity.user /\ m_state = "NO_SESSION"
        /\ apc = "idle" /\ given = m_conf.identity /\ known = m_conf.identity
        /\ pending = NoMessage /\ event = NoEvent
    BY DEF Init, AuthInit
  <1>2. /\ hpc = "idle" /\ scheme = CHOOSE s \in Schemes : TRUE
        /\ m_connection = "NULL" /\ conn = [s \in Schemes |-> NotOpen]
        /\ parser = NewParser /\ response = NewResponse /\ reply = NoReply
    BY DEF Init, AuthInit, HttpInit
  <1>3. m_conf \in [authServer : Servers, identity : Identities]
    BY <1>1, ConfigsAssumption
  <1>4. m_conf.authServer \in Servers /\ m_conf.identity.user \in Users
    BY <1>3 DEF Identities
  <1>5. scheme \in Schemes
    BY <1>2, <1>4, ServersAssumption
  <1>6. ConnInv
    BY <1>2, <1>5, NotOpenType DEF ConnInv
  <1>7. response.executeStatus = "INVALID"
    BY <1>2 DEF NewResponse
  <1>8. HInv
    BY <1>2, <1>6, <1>7 DEF HInv, ReadInv, ReturnInv, ResponseFaithful
  <1>9. CallTypes
    BY <1>1, <1>2, <1>3, <1>4 DEF CallTypes
  <1>10. RenewInv
    BY <1>1, <1>2 DEF RenewInv
  <1>11. KeysInv
    BY <1>1, IssuedAssumption DEF KeysInv
  <1>12. IdentityWhole
    BY <1>1, IssuedAssumption DEF IdentityWhole
  <1>13. FreshKey /\ PrivateReadable
    BY <1>1 DEF FreshKey, PrivateReadable
  <1> QED
    BY <1>8, <1>9, <1>10, <1>11, <1>12, <1>13 DEF AInv

\* Only the state of Execute has changed.
LEMMA OnlyHttp ==
    ASSUME AInv, HInv', UNCHANGED <<authVars, pmVars>>, hpc # "idle",
           \/ reply' = reply
           \/ reply'.content = "renew" => apc = "authenticate" /\ m_conf.identity.mpinId < MaxIssue
    PROVE  AInv'
  <1>1. /\ CallTypes /\ RenewInv /\ KeysInv /\ PrivateReadable /\ FreshKey /\ IdentityWhole
        /\ UNCHANGED <<m_conf, m_userId, m_state, started, given, apc, psk, known>>
        /\ UNCHANGED <<pending, event>>
    BY DEF AInv, authVars, confVars, pmVars
  <1>2. apc \notin {"idle", "tls"}
    BY <1>1 DEF RenewInv
  <1>3. CallTypes'
    BY <1>1, <1>2 DEF CallTypes
  <1>4. RenewInv'
    BY <1>1, <1>2 DEF RenewInv
  <1>5. KeysInv' /\ PrivateReadable'
    BY <1>1, MessagesUnchanged
  <1>6. FreshKey' /\ IdentityWhole'
    BY <1>1 DEF FreshKey, IdentityWhole
  <1> QED
    BY <1>3, <1>4, <1>5, <1>6 DEF AInv

\* The scheme of a configured server is one of the schemes.
LEMMA ServerScheme ==
    ASSUME CallTypes
    PROVE  m_conf.authServer.scheme \in Schemes
  BY ServersAssumption DEF CallTypes

\* The next request begins.
LEMMA NextRequest ==
    ASSUME AInv, NEW s \in Schemes, Execute(s), apc' \in Requests,
           apc' = "renew" => m_conf.identity.mpinId < MaxIssue,
           UNCHANGED <<confVars, known, pmVars>>
    PROVE  AInv'
  <1>1. /\ HInv /\ CallTypes /\ RenewInv /\ KeysInv /\ PrivateReadable /\ IdentityWhole
        /\ UNCHANGED <<m_conf, m_userId, m_state, started, given, known, pending, event>>
    BY DEF AInv, confVars, pmVars
  <1>2. HInv'
    BY <1>1, HttpExecute
  <1>3. hpc' = "connect" /\ reply' = NoReply
    BY DEF Execute
  <1>4. apc' \notin {"idle", "tls"}
    BY DEF Requests
  <1>5. CallTypes'
    BY <1>1, <1>4 DEF CallTypes
  <1>6. RenewInv'
    BY <1>1, <1>3, <1>4 DEF RenewInv
  <1>7. KeysInv' /\ PrivateReadable'
    BY <1>1, MessagesUnchanged
  <1>8. FreshKey' /\ IdentityWhole'
    BY <1>1, <1>4 DEF FreshKey, IdentityWhole
  <1> QED
    BY <1>2, <1>5, <1>6, <1>7, <1>8 DEF AInv

\* The last response has been used, or thrown away.
LEMMA ResponseUsed ==
    ASSUME AInv, hpc = "idle", Consumed, apc' \in {"idle", "tls"},
           m_conf' \in [authServer : Servers, identity : Identities], FreshKey', IdentityWhole',
           UNCHANGED <<m_userId, m_state, given, pmVars>>,
           m_conf'.identity.user = m_conf.identity.user,
           m_conf'.identity.sok = m_conf.identity.sok
    PROVE  AInv'
  <1>1. /\ HInv /\ CallTypes /\ KeysInv /\ PrivateReadable
        /\ UNCHANGED <<m_userId, m_state, pending, event>>
    BY DEF AInv, pmVars
  <1>2. HInv'
    BY <1>1, HttpConsumed
  <1>3. hpc' = "idle" /\ reply' = NoReply /\ response' = NewResponse
    BY DEF Consumed
  <1>4. CallTypes'
    BY <1>1, <1>3 DEF CallTypes
  <1>5. RenewInv'
    BY <1>3 DEF RenewInv
  <1>6. KeysInv' /\ PrivateReadable'
    BY <1>1, MessagesUnchanged
  <1> QED
    BY <1>2, <1>4, <1>5, <1>6 DEF AInv

LEMMA AuthStepInv ==
    ASSUME AInv, AuthStep, UNCHANGED pmVars
    PROVE  AInv'
  <1>0. /\ HInv /\ CallTypes /\ RenewInv /\ KeysInv /\ PrivateReadable /\ FreshKey
        /\ IdentityWhole /\ ResponseFaithful
    BY DEF AInv, HInv, ReturnInv
  <1>1. CASE HttpStep /\ UNCHANGED authVars
    <2>1. HInv'
      BY <1>0, <1>1, HttpStepInv
    <2> QED
      BY <1>1, <2>1, HttpStepFrame, OnlyHttp
  <1>2. CASE Pass1Done
    <2>1. /\ apc' = "pass2" /\ Execute(m_conf.authServer.scheme)
          /\ UNCHANGED <<confVars, known>>
      BY <1>2 DEF Pass1Done
    <2>2. apc' \in Requests /\ apc' # "renew"
      BY <2>1 DEF Requests
    <2>3. PICK s \in Schemes : s = m_conf.authServer.scheme
      BY <1>0, ServerScheme
    <2>4. Execute(s)
      BY <2>1, <2>3
    <2> QED
      BY <2>1, <2>2, <2>4, NextRequest
  <1>3. CASE Pass2Done
    <2>1. /\ apc' = "authenticate" /\ Execute(m_conf.authServer.scheme)
          /\ UNCHANGED <<confVars, known>>
      BY <1>3 DEF Pass2Done
    <2>2. apc' \in Requests /\ apc' # "renew"
      BY <2>1 DEF Requests
    <2>3. PICK s \in Schemes : s = m_conf.authServer.scheme
      BY <1>0, ServerScheme
    <2>4. Execute(s)
      BY <2>1, <2>3
    <2> QED
      BY <2>1, <2>2, <2>4, NextRequest
  <1>4. CASE Authenticated
    <2>1. /\ hpc = "idle" /\ Consumed /\ apc' = "tls" /\ psk' = "now"
          /\ UNCHANGED <<m_conf, m_userId, m_state, given, known>>
      BY <1>4 DEF Authenticated, MakeRequest, SetPsk, confVars
    <2>2. FreshKey' /\ IdentityWhole'
      BY <1>0, <2>1 DEF FreshKey, IdentityWhole
    <2>3. m_conf' \in [authServer : Servers, identity : Identities]
      BY <1>0, <2>1 DEF CallTypes
    <2> QED
      BY <2>1, <2>2, <2>3, ResponseUsed
  <1>5. ASSUME NEW s \in Schemes, StartRenewal(s)
        PROVE  AInv'
    <2>1. /\ MakeRequest("renew") /\ apc' = "renew" /\ Execute(s)
          /\ UNCHANGED <<confVars, known>>
      BY <1>5 DEF StartRenewal
    <2>2. reply # NoReply /\ reply.content = "renew"
      BY <1>0, <2>1, ContentRead
    <2>3. m_conf.identity.mpinId < MaxIssue
      BY <1>0, <2>2 DEF RenewInv
    <2>4. apc' \in Requests
      BY <2>1 DEF Requests
    <2> QED
      BY <2>1, <2>3, <2>4, NextRequest
  <1>6. CASE Renewed
    <2> DEFINE id == m_conf.identity
               new == [id EXCEPT !.mpinId = @ + 1, !.clientSecret = id.mpinId + 1]
    <2>1. /\ apc = "renew" /\ hpc = "idle" /\ Consumed /\ apc' = "tls" /\ psk' = "now"
          /\ m_conf' = [m_conf EXCEPT !.identity = RenewExpiredIdentity(@)]
          /\ known' = RenewExpiredIdentity(id)
          /\ UNCHANGED <<m_userId, m_state, given>>
      BY <1>6 DEF Renewed, MakeRequest, SetPsk
    <2>2. id.mpinId < MaxIssue /\ m_conf \in [authServer : Servers, identity : Identities]
      BY <1>0, <2>1 DEF RenewInv, CallTypes
    <2>3. RenewExpiredIdentity(id) = new
      BY DEF RenewExpiredIdentity
    <2>4. /\ id \in Identities /\ id.mpinId + 1 \in 0..MaxIssue
      BY <2>2, MaxIssueAssumption DEF Identities
    <2>5. /\ new \in Identities /\ new.mpinId = new.clientSecret
          /\ new.user = id.user /\ new.sok = id.sok
      BY <2>4 DEF Identities
    <2> HIDE DEF new
    <2>6. /\ m_conf' \in [authServer : Servers, identity : Identities]
          /\ m_conf'.identity = new /\ known' = new
      BY <2>1, <2>2, <2>3, <2>5
    <2>7. FreshKey' /\ IdentityWhole'
      BY <1>0, <2>1, <2>5, <2>6 DEF FreshKey, IdentityWhole
    <2> QED
      BY <2>1, <2>5, <2>6, <2>7, ResponseUsed
  <1>7. CASE AuthFails
    <2>1. /\ hpc = "idle" /\ Consumed /\ apc' = "idle"
          /\ UNCHANGED <<m_conf, m_userId, m_state, given, known>>
      BY <1>7 DEF AuthFails, confVars
    <2>2. FreshKey' /\ IdentityWhole'
      BY <1>0, <2>1 DEF FreshKey, IdentityWhole
    <2>3. m_conf' \in [authServer : Servers, identity : Identities]
      BY <1>0, <2>1 DEF CallTypes
    <2> QED
      BY <2>1, <2>2, <2>3, ResponseUsed
  <1>8. CASE TlsConnected \/ TlsFails
    <2>1. /\ apc = "tls" /\ apc' = "idle" /\ m_state' \in {m_state, "CONNECTED"}
          /\ UNCHANGED <<hpc, scheme, m_connection, conn, parser, response, reply>>
          /\ UNCHANGED <<m_conf, m_userId, given, known, pending, event>>
      BY <1>8 DEF TlsConnected, TlsFails, httpVars, confVars, pmVars
    <2>2. HInv'
      BY <1>0, <2>1, HttpUnchanged
    <2>3. CallTypes' /\ RenewInv'
      BY <1>0, <2>1 DEF CallTypes, RenewInv
    <2>4. KeysInv' /\ PrivateReadable'
      BY <1>0, <2>1, MessagesUnchanged
    <2>5. FreshKey' /\ IdentityWhole'
      BY <1>0, <2>1 DEF FreshKey, IdentityWhole
    <2> QED
      BY <2>2, <2>3, <2>4, <2>5 DEF AInv
  <1> QED
    BY <1>1, <1>2, <1>3, <1>4, <1>5, <1>6, <1>7, <1>8 DEF AuthStep

LEMMA ServerInv ==
    ASSUME AInv, Server, UNCHANGED pmVars
    PROVE  AInv'
  <1>1. UNCHANGED authVars
    BY DEF Server
  <1>2. ASSUME NEW s \in Schemes, NEW r \in Replies, MayOffer(r),
               ServerAnswers(s, r) \/ ServerBreaksOff(s, r) \/ ServerGarbles(s, r)
        PROVE  AInv'
    <2>1. HInv' /\ hpc = "read" /\ reply' = r
      BY <1>2, HttpServer DEF AInv
    <2>2. r.content = "renew" => apc = "authenticate" /\ m_conf.identity.mpinId < MaxIssue
      BY <1>2 DEF MayOffer
    <2> QED
      BY <1>1, <2>1, <2>2, OnlyHttp
  <1>3. ASSUME NEW s \in Schemes, ServerGoesOn(s)
        PROVE  AInv'
    <2>1. <<More>> \in Seq(AllPieces)
      <3>1. "unusable" \in Contents
        BY ContentsAssumption
      <3>2. More \in AllPieces
        BY <3>1, PieceTypes DEF More, MaxData
      <3> QED
        BY <3>2
    <2>2. HInv' /\ hpc # "idle" /\ reply' = reply
      BY <1>3, <2>1, HttpGoesOn DEF AInv
    <2> QED
      BY <1>1, <2>2, OnlyHttp
  <1> QED
    BY <1>2, <1>3 DEF Server

\* A call begins with an authentication.
LEMMA CallBegins ==
    ASSUME AInv, Authenticate, UNCHANGED <<m_conf, given>>, m_userId' \in Users,
           m_state' \in {"NO_SESSION", "DISCONNECTED", "CONNECTED"},
           pending' \in Plain \cup Encrypted \cup {NoMessage}, KeysInv', PrivateReadable'
    PROVE  AInv'
  <1>1. HInv /\ CallTypes /\ IdentityWhole
    BY DEF AInv
  <1>2. apc' = "pass1" /\ known' = known /\ Execute(m_conf.authServer.scheme)
    BY DEF Authenticate
  <1>3. PICK s \in Schemes : s = m_conf.authServer.scheme
    BY <1>1, ServerScheme
  <1>4. Execute(s)
    BY <1>2, <1>3
  <1>5. HInv'
    BY <1>1, <1>4, HttpExecute
  <1>6. hpc' = "connect" /\ reply' = NoReply
    BY <1>4 DEF Execute
  <1>7. CallTypes'
    BY <1>1, <1>2 DEF CallTypes, Requests
  <1>8. RenewInv'
    BY <1>2, <1>6 DEF RenewInv
  <1>9. FreshKey' /\ IdentityWhole'
    BY <1>1, <1>2 DEF FreshKey, IdentityWhole
  <1> QED
    BY <1>5, <1>7, <1>8, <1>9 DEF AInv

\* A call returns at once.
LEMMA CallReturns ==
    ASSUME AInv, UNCHANGED <<httpVars, apc>>,
           m_conf' \in [authServer : Servers, identity : Identities], m_userId' = m_userId,
           m_state' \in {"NO_SESSION", "DISCONNECTED", "CONNECTED"}, psk' = psk,
           m_conf'.identity.mpinId < MaxIssue \/ m_conf' = m_conf \/ apc = "idle",
           pending' \in Plain \cup Encrypted \cup {NoMessage},
           KeysInv', PrivateReadable', IdentityWhole'
    PROVE  AInv'
  <1>1. /\ HInv /\ CallTypes /\ RenewInv /\ FreshKey
        /\ UNCHANGED <<hpc, scheme, m_connection, conn, parser, response, reply>>
    BY DEF AInv, httpVars
  <1>2. HInv'
    BY <1>1, HttpUnchanged
  <1>3. CallTypes'
    BY <1>1 DEF CallTypes
  <1>4. RenewInv'
    BY <1>1 DEF RenewInv
  <1>5. FreshKey'
    BY <1>1 DEF FreshKey
  <1> QED
    BY <1>2, <1>3, <1>4, <1>5 DEF AInv

LEMMA ApplicationInv ==
    ASSUME AInv, Application, pending = NoMessage, event' = NoEvent, pending' = pending
    PROVE  AInv'
  <1>0. /\ CallTypes /\ KeysInv /\ IdentityWhole
        /\ m_conf \in [authServer : Servers, identity : Identities] /\ m_userId \in Users
        /\ m_state \in {"NO_SESSION", "DISCONNECTED", "CONNECTED"}
        /\ pending' \in Plain \cup Encrypted \cup {NoMessage}
    BY DEF AInv, CallTypes
  <1>1. PrivateReadable'
    BY DEF PrivateReadable
  <1>2. m_conf' = m_conf => KeysInv'
    BY <1>0 DEF KeysInv
  <1>3. ASSUME NEW c \in Configs, Configure(c)
        PROVE  AInv'
    <2>1. /\ apc = "idle" /\ m_conf' = c /\ given' = c.identity /\ known' = c.identity
          /\ UNCHANGED <<httpVars, m_userId, m_state, apc, psk>>
      BY <1>3 DEF Configure, Idle
    <2>2. c \in [authServer : Servers, identity : Identities]
      BY ConfigsAssumption
    <2>3. KeysInv' /\ IdentityWhole'
      BY <1>3, <2>1, IssuedAssumption DEF KeysInv, IdentityWhole
    <2> QED
      BY <1>0, <1>1, <2>1, <2>2, <2>3, CallReturns
  <1>4. CASE StartSession
    <2>1. /\ Authenticate /\ m_state' = "DISCONNECTED" /\ m_userId' = m_conf.identity.user
          /\ UNCHANGED <<m_conf, given>>
      BY <1>4 DEF StartSession
    <2>2. m_userId' \in Users
      BY <1>0, <2>1 DEF Identities
    <2> QED
      BY <1>0, <1>1, <1>2, <2>1, <2>2, CallBegins
  <1>5. CASE Reconnect
    <2>1. Authenticate /\ UNCHANGED <<m_conf, m_userId, m_state, given>>
      BY <1>5 DEF Reconnect, confVars
    <2> QED
      BY <1>0, <1>1, <1>2, <2>1, CallBegins
  <1>6. CASE EndSession \/ ConnectionLost
    <2>1. /\ m_state' \in {"NO_SESSION", "DISCONNECTED"}
          /\ UNCHANGED <<httpVars, m_conf, m_userId, given, apc, psk, known>>
      BY <1>6 DEF EndSession, ConnectionLost
    <2>2. IdentityWhole'
      BY <1>0, <2>1 DEF IdentityWhole
    <2> QED
      BY <1>0, <1>1, <1>2, <2>1, <2>2, CallReturns
  <1> QED
    BY <1>3, <1>4, <1>5, <1>6 DEF Application

LEMMA NoMessageKinds ==
    /\ NoMessage.kind = "none"
    /\ \A m \in Plain : m.kind = "plain" /\ m # NoMessage
    /\ \A m \in Encrypted : m.kind = "encrypted" /\ m # NoMessage
  <1>1. NoMessage.kind = "none"
    BY DEF NoMessage
  <1>2. \A m \in Plain : m.kind = "plain"
    BY DEF Plain
  <1>3. \A m \in Encrypted : m.kind = "encrypted"
    BY DEF Encrypted
  <1> QED
    BY <1>1, <1>2, <1>3

\* The message is made with the keys of the user whose name it carries, if they are
\* those of the session.
LEMMA SendInv ==
    ASSUME AInv, NEW to \in Users, NEW encrypt \in BOOLEAN, SendPrivateMessage(to, encrypt)
    PROVE  AInv'
  <1>0. /\ CallTypes /\ KeysInv /\ IdentityWhole
        /\ m_conf \in [authServer : Servers, identity : Identities] /\ m_userId \in Users
        /\ m_state \in {"NO_SESSION", "DISCONNECTED", "CONNECTED"}
    BY DEF AInv, CallTypes
  <1> DEFINE m == SerializePrivateMessage(to, encrypt)
             sok == m_conf.identity.sok
  <1>1. /\ encrypt => sok # "none"
        /\ pending' = m /\ event' = NoEvent
        /\ \/ UNCHANGED <<httpVars, authVars>>
           \/ Authenticate /\ UNCHANGED confVars
    BY DEF SendPrivateMessage, Serializable
  <1>2. UNCHANGED <<m_conf, m_userId, m_state, given>>
    BY <1>1 DEF authVars, confVars
  <1>3. m_conf.identity \in Identities /\ sok \in {m_conf.identity.user, "none"}
    BY <1>0 DEF KeysInv
  <1>4. m_conf.identity.user \in Users
    BY <1>3 DEF Identities
  <1>5. CASE encrypt
    <2>1. m = [kind |-> "encrypted", from |-> m_userId, sendKey |-> sok, to |-> to]
      BY <1>5 DEF SerializePrivateMessage
    <2>2. sok = m_conf.identity.user
      BY <1>1, <1>3, <1>5
    <2>3. /\ m \in Encrypted /\ m.kind = "encrypted" /\ m.from = m_userId /\ m.sendKey = sok
      BY <1>0, <1>4, <2>1, <2>2 DEF Encrypted
    <2> HIDE DEF m
    <2>4. KeysInv'
      BY <1>1, <1>2, <1>3, <2>3 DEF KeysInv
    <2>5. PrivateReadable'
      BY <1>1, <1>2, <2>2, <2>3 DEF PrivateReadable, Genuine
    <2> QED
      BY <1>0, <1>1, <1>2, <2>3, <2>4, <2>5, CallBegins, CallReturns
         DEF authVars, confVars, IdentityWhole
  <1>6. CASE ~encrypt
    <2>1. m = [kind |-> "plain", from |-> m_userId]
      BY <1>6 DEF SerializePrivateMessage
    <2>2. m \in Plain /\ m.kind = "plain"
      BY <1>0, <2>1 DEF Plain
    <2> HIDE DEF m
    <2>3. KeysInv'
      BY <1>1, <1>2, <1>3, <2>2 DEF KeysInv
    <2>4. PrivateReadable'
      BY <1>1, <1>2, <2>2 DEF PrivateReadable, Genuine
    <2> QED
      BY <1>0, <1>1, <1>2, <2>2, <2>3, <2>4, CallBegins, CallReturns
         DEF authVars, confVars, IdentityWhole
  <1> QED
    BY <1>5, <1>6

LEMMA SendReturnsInv ==
    ASSUME AInv, SendReturns
    PROVE  AInv'
  <1>0. CallTypes /\ KeysInv /\ IdentityWhole /\ PrivateReadable
    BY DEF AInv
  <1>1. /\ pending' = NoMessage /\ event' = event /\ UNCHANGED httpVars
        /\ UNCHANGED <<m_conf, m_userId, m_state, given, apc, psk, known>>
    BY DEF SendReturns, authVars, confVars
  <1>2. KeysInv' /\ IdentityWhole'
    BY <1>0, <1>1 DEF KeysInv, IdentityWhole
  <1>3. PrivateReadable'
    BY <1>0, <1>1 DEF PrivateReadable
  <1> QED
    BY <1>0, <1>1, <1>2, <1>3, CallReturns DEF CallTypes

\* A message that was made for the user of the session can be read with the keys of
\* the identity, however often it was renewed.
LEMMA ArrivedInv ==
    ASSUME AInv, NEW m \in Payloads, NEW private \in BOOLEAN, OnMessageArrived(m, private)
    PROVE  AInv'
  <1>0. CallTypes /\ KeysInv /\ IdentityWhole /\ PrivateReadable
    BY DEF AInv
  <1>1. /\ pending = NoMessage /\ pending' = pending /\ UNCHANGED httpVars
        /\ UNCHANGED <<m_conf, m_userId, m_state, given, apc, psk, known>>
        /\ event' = [callback |-> Callback(m, private), msg |-> m, private |-> private,
                     user |-> m_userId,
                     reconfigured |-> m_conf.identity.user # m_userId,
                     keys |-> given.sok # "none"]
    BY DEF OnMessageArrived, authVars, confVars
  <1>2. KeysInv' /\ IdentityWhole'
    BY <1>0, <1>1 DEF KeysInv, IdentityWhole
  <1>3. /\ event'.callback = Callback(m, private) /\ event'.msg = m
        /\ event'.private = private /\ event'.user = m_userId
        /\ event'.reconfigured = (m_conf.identity.user # m_userId)
        /\ event'.keys = (given.sok # "none")
    BY <1>1, Zenon
  <1>4. ASSUME private, given.sok # "none", m_conf.identity.user = m_userId, Genuine(m),
               m.to = m_userId
        PROVE  Callback(m, private) = "OnPrivateMessageArrived"
    <2>1. m_conf.identity.sok = m.to
      BY <1>0, <1>4 DEF KeysInv, IdentityWhole
    <2>2. PrivateMessage(m)
      BY <1>4, <2>1 DEF PrivateMessage, Decrypts, Genuine
    <2> QED
      BY <1>4, <2>2 DEF Callback
  <1>5. PrivateReadable'
    <2>1. ASSUME event'.private, event'.keys, ~event'.reconfigured, Genuine(event'.msg),
                 event'.msg.to = event'.user
          PROVE  event'.callback = "OnPrivateMessageArrived"
      <3>1. private /\ given.sok # "none" /\ m_conf.identity.user = m_userId
        BY <1>3, <2>1, Zenon
      <3>2. Genuine(m) /\ m.to = m_userId
        BY <1>3, <2>1, Zenon
      <3>3. Callback(m, private) = "OnPrivateMessageArrived"
        BY <1>4, <3>1, <3>2
      <3> QED
        BY <1>3, <3>3, Zenon
    <2>2. pending' = NoMessage
      BY <1>1
    <2> QED
      BY <2>1, <2>2, Zenon DEF PrivateReadable, Genuine
  <1> QED
    BY <1>0, <1>1, <1>2, <1>5, CallReturns DEF CallTypes

LEMMA NextInv ==
    ASSUME AInv, [Next]_vars
    PROVE  AInv'
  <1>1. CASE AuthStep /\ UNCHANGED pmVars
    BY <1>1, AuthStepInv
  <1>2. CASE SendReturns
    BY <1>2, SendReturnsInv
  <1>3. CASE Server /\ UNCHANGED pmVars
    BY <1>3, ServerInv
  <1>4. CASE Application /\ pending = NoMessage /\ event' = NoEvent /\ UNCHANGED pending
    BY <1>4, ApplicationInv
  <1>5. ASSUME NEW to \in Users, NEW encrypt \in BOOLEAN, SendPrivateMessage(to, encrypt)
        PROVE  AInv'
    BY <1>5, SendInv
  <1>6. ASSUME NEW m \in Payloads, NEW private \in BOOLEAN, OnMessageArrived(m, private)
        PROVE  AInv'
    BY <1>6, ArrivedInv
  <1>7. CASE UNCHANGED vars
    <2>1. /\ CallTypes /\ KeysInv /\ IdentityWhole /\ PrivateReadable
          /\ UNCHANGED httpVars
          /\ UNCHANGED <<m_conf, m_userId, m_state, given, apc, psk, known, pending, event>>
      BY <1>7 DEF AInv, vars, authVars, confVars, pmVars
    <2>2. KeysInv' /\ PrivateReadable'
      BY <2>1, MessagesUnchanged
    <2>3. IdentityWhole'
      BY <2>1 DEF IdentityWhole
    <2> QED
      BY <2>1, <2>2, <2>3, CallReturns DEF CallTypes
  <1> QED
    BY <1>1, <1>2, <1>3, <1>4, <1>5, <1>6, <1>7 DEF Next, Client

LEMMA AuthInvariant == Spec => []AInv
  <1>1. Init => AInv
    BY AuthInitInv
  <1>2. AInv /\ [Next]_vars => AInv'
    BY NextInv
  <1> QED
    BY <1>1, <1>2, PTL DEF Spec

(***************************************************************************)
(* The theorems                                                            *)
(***************************************************************************)

\* Every variable keeps its type, and the HTTP client has a connection exactly while
\* a request is under way (NetworkImpl::Close in every way out of Execute).
THEOREM AuthTypes == Spec => []AuthTypeOK
  <1>1. AInv => AuthTypeOK
    <2> SUFFICES ASSUME AInv PROVE AuthTypeOK
      OBVIOUS
    <2>1. HInv /\ CallTypes
      BY DEF AInv
    <2>2. parser = NewParser \/ \E k \in 0..12 : parser = ParsedParser(reply, k)
      BY <2>1 DEF HInv, ConnInv, ReadInv, ReturnInv
    <2>3. parser.state \in {"INITIAL", "LAST_WAS_FIELD", "LAST_WAS_VALUE"}
      BY <2>2 DEF NewParser, ParsedParser
    <2> QED
      BY <2>1, <2>3 DEF AuthTypeOK, CallTypes, HInv, ConnInv, ReturnInv
  <1> QED
    BY <1>1, AuthInvariant, PTL

\* What ReadResponse reads is the answer to its own request (http_client.cpp), whatever
\* earlier requests, their timeouts and late answers have left behind.
THEOREM OwnResponseRead == Spec => []OwnResponse
  <1>1. AInv => OwnResponse
    <2> SUFFICES ASSUME AInv, hpc = "read", NEW i \in DOMAIN conn[scheme].bytes
                 PROVE  ~conn[scheme].bytes[i].old
      BY DEF OwnResponse
    <2>1. conn[scheme] \in Connections
      BY DEF AInv, HInv, ConnInv
    <2>2. conn[scheme].bytes \in Seq(AllPieces)
      BY <2>1 DEF Connections
    <2>3. conn[scheme].bytes[i] \in AllPieces
      BY <2>2
    <2>4. \A a \in AllPieces : a.old = FALSE
      BY DEF AllPieces
    <2> QED
      BY <2>3, <2>4
  <1> QED
    BY <1>1, AuthInvariant, PTL

\* A response that Execute calls a success has the server's status, if the status line
\* has a reason phrase, its headers with repeated ones joined, and a beginning of its data
\* or all of it (ResponseParser in http_response_parser.cpp), however it came in pieces; or
\* it is empty, and nothing but an empty line was read.
THEOREM SuccessIsFaithful == Spec => []ResponseFaithful
  <1>1. AInv => ResponseFaithful
    BY DEF AInv, HInv, ReturnInv
  <1> QED
    BY <1>1, AuthInvariant, PTL

\* The authentication goes on only with an answer the server has given, with status OK, to
\* the request it has just made (MakeRequest of DoAuth in mpin_full.cpp).
THEOREM OnlyServersAnswers == Spec => []AnswerIsServers
  <1>1. AInv => AnswerIsServers
    <2> SUFFICES ASSUME AInv, NEW c \in {"plain", "renew"}, MakeRequest(c)
                 PROVE  reply # NoReply /\ reply.http = "OK" /\ reply.reason /\ reply.content = c
      BY DEF AnswerIsServers
    <2>1. ResponseFaithful
      BY DEF AInv, HInv, ReturnInv
    <2> QED
      BY <2>1, ContentRead
  <1> QED
    BY <1>1, AuthInvariant, PTL

\* The broker is tried only with the key of the authentication that has just succeeded
\* (Authenticate and SetPsk in client.cpp).
THEOREM KeyIsFresh == Spec => []FreshKey
  <1>1. AInv => FreshKey
    BY DEF AInv
  <1> QED
    BY <1>1, AuthInvariant, PTL

\* A renewal replaces the identity as a whole or not at all, and keeps the user's keys
\* for private messages (RenewExpiredIdentity in mpin_full.cpp).
THEOREM IdentityStaysWhole == Spec => []IdentityWhole
  <1>1. AInv => IdentityWhole
    BY DEF AInv
  <1> QED
    BY <1>1, AuthInvariant, PTL

\* Private messages can be read by whom they are for over any number of reconnections
\* and renewals (SendPrivateMessage and OnMessageArrived in client.cpp).
THEOREM MessagesReadable == Spec => []PrivateReadable
  <1>1. AInv => PrivateReadable
    BY DEF AInv
  <1> QED
    BY <1>1, AuthInvariant, PTL
=============================================================================
