----------------------------- MODULE HttpClient -----------------------------
(***************************************************************************)
(* net::http::Client over NetworkImpl (lib/netlib/src/http_client.cpp),    *)
(* its ResponseParser (http_response_parser.cpp) and the two connections   *)
(* it chooses from, TcpConnection and TlsConnection: one Execute at a      *)
(* time, on a connection opened for it and closed after it.                *)
(*                                                                         *)
(* A response is a sequence of pieces, each as small as the parser can     *)
(* tell apart: field names and values come in fragments.  A read returns   *)
(* the next piece.  The server may answer late, break off, answer          *)
(* something that is not HTTP, not answer, or answer without end.          *)
(*                                                                         *)
(* Of http_parser (lib/netlib/lib/http-parser-2.7.1) the module has the    *)
(* states in which it calls back, or takes the end of the stream for the   *)
(* end of the response.  The server is external.  Left out: 1xx responses, *)
(* responses without headers or a body, chunks (a body in chunks is one of *)
(* framing "length") and what a server sends behind the end of a response. *)
(***************************************************************************)
EXTENDS Naturals, Sequences

CONSTANTS
    Schemes,     \* schemes of URLs, one connection object each
    Contents,    \* what the body of a response may say
    Framings,    \* how the end of a body is marked: "length", "eof"
    Reasons,     \* whether a status line may have a reason phrase, and may have none
    Blanks,      \* whether an empty line may come before it, and may not
    MaxFaults    \* how many faults may happen in one behaviour

ASSUME SchemesAssumption == "NULL" \notin Schemes
ASSUME FramingsAssumption == Framings \subseteq {"length", "eof"}
ASSUME ReasonsAssumption == Reasons \subseteq BOOLEAN /\ Blanks \subseteq BOOLEAN
ASSUME MaxFaultsAssumption == MaxFaults \in Nat

VARIABLES
    hpc,            \* where Execute is
    scheme,         \* of the URL of the request
    m_connection,   \* NetworkImpl::m_connection: a scheme, or "NULL"
    conn,           \* both connections, with the server's side of each
    parser,         \* ResponseParser of the current Execute
    response,       \* Client::m_response
    reply,          \* history: what the server has answered to this request
    faults          \* number of faults so far

httpVars == <<hpc, scheme, m_connection, conn, parser, response, reply, faults>>

\* A reply: its status, whether the status line has a reason phrase and whether an
\* empty line comes before it, how its end is marked and what it says.
Replies == [http : {"OK", "error"}, reason : Reasons, blank : Blanks,
            framing : Framings, content : Contents]
NoReply == [http |-> "none"]

\* A body without a length that the client cannot use may go on for ever.
Endless(r) == r.framing = "eof" /\ r.content = "unusable"

Piece(k, v) == [kind |-> k, val |-> v, old |-> FALSE]

\* What http_parser makes of a response, one operator for each group of its states.  The
\* first byte is one of the status line, or of an empty line before it.
MessageBegin(r) == Piece("begin", IF r.blank THEN "CR" ELSE "H")
StatusLine(r) == Piece("status", [code |-> r.http, reason |-> r.reason])
HeaderField(f) == Piece("field", f)
HeaderValue(v) == Piece("value", v)
HeadersEnd(r) == Piece("headersEnd", r.framing)
BodyData(r, i) == Piece("body", <<r.content, i>>)
MessageEnd == Piece("end", "")

\* A status line, a header twice, and a body in two pieces.  Only a body whose length is
\* known has an end of its own.
Pieces(r) ==
       <<MessageBegin(r), StatusLine(r),
         HeaderField("f1"), HeaderField("f2"), HeaderValue("a"),
         HeaderField("f1"), HeaderField("f2"), HeaderValue("b1"), HeaderValue("b2"),
         HeadersEnd(r), BodyData(r, 1), BodyData(r, 2)>>
    \o IF r.framing = "length" THEN <<MessageEnd>> ELSE <<>>

MaxData == 2    \* how many pieces of the data of a response are told apart

WholeData(c) == <<<<c, 1>>, <<c, 2>>>>
WholeHeaders == {[name |-> <<"f1", "f2">>, value |-> <<"a", ", ", "b1", "b2">>]}

NotOpen == [up |-> FALSE, asked |-> "no", bytes |-> <<>>]
NewResponse == [executeStatus |-> "INVALID", httpStatus |-> "NON_HTTP_ERROR",
                headers |-> {}, data |-> <<>>]
\* started is m_messageStarted, at the state of http_parser, the rest m_currentHeader.
NewParser == [started |-> FALSE, at |-> "s_start_res", state |-> "INITIAL",
              name |-> <<>>, value |-> <<>>]

HttpInit ==
    /\ hpc = "idle"
    /\ scheme = CHOOSE s \in Schemes : TRUE
    /\ m_connection = "NULL"
    /\ conn = [s \in Schemes |-> NotOpen]
    /\ parser = NewParser
    /\ response = NewResponse
    /\ reply = NoReply
    /\ faults = 0

Fault == faults < MaxFaults /\ faults' = faults + 1

(***************************************************************************)
(* Execute and NetworkImpl                                                 *)
(***************************************************************************)

\* What was asked and answered before belongs to an earlier request.
Aged(c) == [c EXCEPT !.asked = IF @ = "no" THEN "no" ELSE "before",
                     !.bytes = [i \in DOMAIN @ |-> [@[i] EXCEPT !.old = TRUE]]]

\* NetworkImpl::Close, on connections c.
Closed(c) == IF m_connection = "NULL" THEN c ELSE [c EXCEPT ![m_connection] = NotOpen]

\* TcpConnection::Connect and TlsConnection::Connect return at once if m_connected.
Opened(c) == IF c.up THEN c ELSE [NotOpen EXCEPT !.up = TRUE]

\* Execute begins: the response is reset.
Execute(s) ==
    /\ hpc = "idle"
    /\ scheme' = s
    /\ hpc' = "connect"
    /\ response' = NewResponse
    /\ parser' = NewParser
    /\ reply' = NoReply
    /\ conn' = [r \in Schemes |-> Aged(conn[r])]
    /\ UNCHANGED <<m_connection, faults>>

ConnectTo ==
    /\ hpc = "connect"
    /\ hpc' = "send"
    /\ conn' = [Closed(conn) EXCEPT ![scheme] = Opened(@)]
    /\ m_connection' = scheme
    /\ UNCHANGED <<scheme, parser, response, reply, faults>>

\* Mutant: NetworkImpl::Close leaves m_connection as it is.
FinishKeepsPointer(status) ==
    /\ hpc' = "idle"
    /\ parser' = NewParser
    /\ response' = [response EXCEPT !.executeStatus = status]
    /\ conn' = Closed(conn)
    /\ UNCHANGED m_connection

\* Execute ends: the parser is gone, the status is set, NetworkImpl::Close is called.
Finish(status) ==
    /\ hpc' = "idle"
    /\ parser' = NewParser
    /\ response' = [response EXCEPT !.executeStatus = status]
    /\ conn' = Closed(conn)
    /\ m_connection' = "NULL"

ConnectToFails ==
    /\ hpc = "connect"
    /\ ~conn[scheme].up
    /\ Fault
    /\ Finish("NETWORK_ERROR")
    /\ UNCHANGED <<scheme, reply>>

\* SendRequest writes the whole request; m_connection is not NULL.
SendRequest ==
    /\ hpc = "send"
    /\ hpc' = "read"
    /\ conn' = [conn EXCEPT ![scheme].asked = "now"]
    /\ UNCHANGED <<scheme, m_connection, parser, response, reply, faults>>

\* One of the writes fails; the connection has closed itself.
SendFails ==
    /\ hpc = "send"
    /\ Fault
    /\ Finish("NETWORK_ERROR")
    /\ UNCHANGED <<scheme, reply>>

(***************************************************************************)
(* ReadResponse: the callbacks of ResponseParser, one for each piece.      *)
(***************************************************************************)
Read(k) ==
    /\ hpc = "read"
    /\ conn[scheme].bytes # <<>>
    /\ Head(conn[scheme].bytes).kind = k
    /\ UNCHANGED <<scheme, reply, faults>>

Piece1 == Head(conn[scheme].bytes).val

\* The loop goes on with the next read.
Continue ==
    /\ conn' = [conn EXCEPT ![scheme].bytes = Tail(@)]
    /\ UNCHANGED <<hpc, m_connection>>

\* Mutant: the value of a repeated header replaces the first one.
AddToReplaces(headers) ==
    {h \in headers : h.name # parser.name} \cup {[name |-> parser.name, value |-> parser.value]}

\* Header::AddTo
AddTo(headers) ==
    LET same == {h \in headers : h.name = parser.name}
    IN  IF same = {}
        THEN headers \cup {[name |-> parser.name, value |-> parser.value]}
        ELSE (headers \ same)
             \cup {[h EXCEPT !.value = @ \o <<", ">> \o parser.value] : h \in same}

\* http_parser stays where it is at an empty line, and calls back all the same.
OnMessageBegin ==
    /\ Read("begin")
    /\ parser' = [parser EXCEPT !.started = TRUE,
                                !.at = IF Piece1 = "H" THEN "s_res_H" ELSE "s_start_res"]
    /\ UNCHANGED response
    /\ Continue

\* The status line; http_parser calls OnStatus only if there is a reason phrase.
OnStatus ==
    /\ Read("status")
    /\ parser' = [parser EXCEPT !.at = "s_header_field_start"]
    /\ response' = [response EXCEPT !.httpStatus = IF Piece1.reason THEN Piece1.code ELSE @]
    /\ Continue

OnHeaderField ==
    /\ Read("field")
    /\ parser' = [parser EXCEPT !.state = "LAST_WAS_FIELD",
                                !.name = IF parser.state = "LAST_WAS_FIELD"
                                         THEN Append(@, Piece1) ELSE <<Piece1>>]
    /\ response' = IF parser.state = "LAST_WAS_VALUE"
                   THEN [response EXCEPT !.headers = AddTo(@)] ELSE response
    /\ Continue

OnHeaderValue ==
    /\ Read("value")
    /\ parser' = [parser EXCEPT !.state = "LAST_WAS_VALUE",
                                !.value = IF parser.state = "LAST_WAS_VALUE"
                                          THEN Append(@, Piece1) ELSE <<Piece1>>]
    /\ UNCHANGED response
    /\ Continue

OnHeadersComplete ==
    /\ Read("headersEnd")
    /\ parser' = [parser EXCEPT !.state = "INITIAL", !.at = Piece1]
    /\ response' = IF parser.state = "LAST_WAS_VALUE"
                   THEN [response EXCEPT !.headers = AddTo(@)] ELSE response
    /\ Continue

\* What comes beyond the pieces that are told apart is not kept.
OnBody ==
    /\ Read("body")
    /\ response' = [response EXCEPT !.data = IF Len(@) < MaxData THEN Append(@, Piece1) ELSE @]
    /\ UNCHANGED parser
    /\ Continue

OnMessageComplete ==
    /\ Read("end")
    /\ Finish("SUCCESS")

\* http_parser stops before the end of what it was given.
OnParseError ==
    /\ Read("junk")
    /\ Finish("PARSE_ERROR")

(***************************************************************************)
(* A read returns nothing: the connection is over, or ten seconds are.     *)
(* FeedEOF cannot tell which; it completes a body that only the end of the *)
(* connection delimits, is no error before the status line if anything has *)
(* come at all, and is one anywhere else.                                  *)
(***************************************************************************)
EofStatus ==
    IF parser.started /\ parser.at \in {"s_start_res", "eof"} THEN "SUCCESS" ELSE "PARSE_ERROR"

\* The server has closed the connection, as it may in an endless body, or it is lost.
ReadEnds ==
    /\ hpc = "read"
    /\ conn[scheme].bytes = <<>>
    /\ conn[scheme].asked # "now"
    /\ Finish(EofStatus)
    /\ UNCHANGED <<scheme, reply, faults>>

\* Mutants: the loop is not left when a read times out; NetworkImpl::Read takes a
\* timeout for the end of the connection and forgets it without closing it.
ReadTimesOutAgain == hpc = "read" /\ UNCHANGED httpVars
ReadTimesOutForgets ==
    /\ hpc = "read"
    /\ conn[scheme].asked \in {"now", "more"} \/ conn[scheme].bytes # <<>>
    /\ hpc' = "idle"
    /\ response' = [response EXCEPT !.executeStatus = EofStatus]
    /\ m_connection' = "NULL"
    /\ parser' = NewParser
    /\ UNCHANGED <<scheme, conn, reply, faults>>

\* The next piece, the whole answer, or more of it, is not there in time.
ReadTimesOut ==
    /\ hpc = "read"
    /\ conn[scheme].asked \in {"now", "more"} \/ conn[scheme].bytes # <<>>
    /\ Finish(EofStatus)
    /\ UNCHANGED <<scheme, reply, faults>>

Reading ==
    \/ OnMessageBegin
    \/ OnStatus
    \/ OnHeaderField
    \/ OnHeaderValue
    \/ OnHeadersComplete
    \/ OnBody
    \/ OnMessageComplete
    \/ OnParseError
    \/ ReadEnds
    \/ ReadTimesOut

HttpStep == ConnectTo \/ ConnectToFails \/ SendRequest \/ SendFails \/ Reading

\* The caller is done with the response: nobody reads it before the next Execute.
Consumed ==
    /\ response' = NewResponse
    /\ reply' = NoReply
    /\ UNCHANGED <<hpc, scheme, m_connection, conn, parser, faults>>

(***************************************************************************)
(* The server                                                              *)
(***************************************************************************)

\* The server answers the request of a connection that is still open.  Then more comes
\* or nothing.
Answers(s, r, p, then) ==
    /\ conn[s].asked \in {"now", "before"}
    /\ conn' = [conn EXCEPT
                  ![s].asked = then,
                  ![s].bytes = @ \o IF conn[s].asked = "now" THEN p
                                    ELSE [i \in DOMAIN p |-> [p[i] EXCEPT !.old = TRUE]]]
    /\ reply' = IF conn[s].asked = "now" THEN r ELSE reply
    /\ UNCHANGED <<hpc, scheme, m_connection, parser, response>>

ServerAnswers(s, r) ==
    /\ Answers(s, r, Pieces(r), IF Endless(r) THEN "more" ELSE "no")
    /\ UNCHANGED faults

\* It sends more of an endless body.
ServerGoesOn(s) ==
    /\ conn[s].asked = "more"
    /\ conn[s].bytes = <<>>
    /\ conn' = [conn EXCEPT ![s].bytes = <<Piece("body", <<"unusable", MaxData>>)>>]
    /\ UNCHANGED <<hpc, scheme, m_connection, parser, response, reply, faults>>

\* It breaks off, or goes on with something that is not HTTP.
ServerBreaksOff(s, r) ==
    /\ Fault
    /\ \E k \in 0..(Len(Pieces(r)) - 1) : Answers(s, r, SubSeq(Pieces(r), 1, k), "no")

ServerGarbles(s, r) ==
    /\ Fault
    /\ \E k \in 0..(Len(Pieces(r)) - 1) :
           Answers(s, r, Append(SubSeq(Pieces(r), 1, k), Piece("junk", "")), "no")

(***************************************************************************)
(* Properties                                                              *)
(***************************************************************************)

\* What ReadResponse reads is the answer to its own request, never what an earlier
\* request that timed out or failed has left on a connection.
OwnResponse ==
    hpc = "read" =>
        \A i \in DOMAIN conn[scheme].bytes : ~conn[scheme].bytes[i].old

\* The status that http_parser lets the client know of.
StatusOf(r) == IF r.reason THEN r.http ELSE "NON_HTTP_ERROR"

\* A response that Execute calls a success has nothing in it that the server has not
\* sent.  Either nothing but an empty line was read: then it has no status, no headers
\* and no data.  Or it has the server's status, unless the reason phrase is missing, the
\* headers with repeated ones joined, and a beginning of the data.  The data is complete
\* if its length is known; a body that only the end of the connection delimits may have
\* been cut off anywhere, by the server or by a timeout.
ResponseFaithful ==
    hpc = "idle" /\ response.executeStatus = "SUCCESS" =>
        /\ reply # NoReply
        /\ \/ /\ reply.blank
              /\ response.httpStatus = "NON_HTTP_ERROR"
              /\ response.headers = {}
              /\ response.data = <<>>
           \/ /\ response.httpStatus = StatusOf(reply)
              /\ response.headers = WholeHeaders
              /\ \E n \in 0..MaxData : response.data = SubSeq(WholeData(reply.content), 1, n)
              /\ reply.framing = "length" => response.data = WholeData(reply.content)
=============================================================================
