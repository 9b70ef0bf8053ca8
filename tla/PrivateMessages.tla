-------------------------- MODULE PrivateMessages --------------------------
(***************************************************************************)
(* Private messages of iot::Client (src/client.cpp): one user's client,    *)
(* whose session goes on over reconnections, renewed identities and        *)
(* changed configurations, and the messages other users send to it.        *)
(*                                                                         *)
(* A message carries the user id it claims to be from and, if encrypted,   *)
(* what its key was made of.  The cryptography is external: a message can  *)
(* be decrypted with the receiving key of the user it was encrypted for,   *)
(* given the user whose sending key was used.                              *)
(***************************************************************************)
EXTENDS Authentication

VARIABLES
    pending,   \* the message SendPrivateMessage has serialised
    event      \* the last callback for a message that has arrived

pmVars == <<pending, event>>
vars == <<httpVars, authVars, pmVars>>

NoMessage == [kind |-> "none"]
NoEvent == [callback |-> "none"]

Plain == [kind : {"plain"}, from : Users]
Encrypted == [kind : {"encrypted"}, from : Users, sendKey : Users, to : Users]
\* What may arrive on a topic: also a text that is no private message.
Payloads == Plain \cup Encrypted \cup {[kind |-> "other"]}

\* Every variable has its type; the parser has a header's name before its value, and
\* the client has a connection exactly while a request is under way.
AuthTypeOK ==
    /\ hpc \in {"idle", "connect", "send", "read"}
    /\ m_connection = (IF hpc \in {"send", "read"} THEN scheme ELSE "NULL")
    /\ parser.state \in {"INITIAL", "LAST_WAS_FIELD", "LAST_WAS_VALUE"}
    /\ response.executeStatus \in {"INVALID", "NETWORK_ERROR", "PARSE_ERROR", "SUCCESS"}
    /\ m_conf.authServer \in Servers
    /\ m_conf.identity \in Identities
    /\ m_userId \in Users
    /\ m_state \in {"NO_SESSION", "DISCONNECTED", "CONNECTED"}
    /\ apc \in Requests \cup {"idle", "tls"}
    /\ apc = "idle" => hpc = "idle"
    /\ pending \in Plain \cup Encrypted \cup {NoMessage}

Init ==
    /\ AuthInit
    /\ pending = NoMessage
    /\ event = NoEvent

(***************************************************************************)
(* Sending                                                                 *)
(***************************************************************************)

\* SerializePrivateMessage and SokEncrypt, which throws if there is no key.
Serializable(encrypt) == encrypt => m_conf.identity.sok # "none"

SerializePrivateMessage(to, encrypt) ==
    IF encrypt
    THEN [kind |-> "encrypted", from |-> m_userId, sendKey |-> m_conf.identity.sok, to |-> to]
    ELSE [kind |-> "plain", from |-> m_userId]

\* SendPrivateMessage: the message is serialised before Publish checks the
\* connection, and perhaps authenticates again.
SendPrivateMessage(to, encrypt) ==
    /\ Idle
    /\ pending = NoMessage
    /\ m_state # "NO_SESSION"
    /\ Serializable(encrypt)
    /\ pending' = SerializePrivateMessage(to, encrypt)
    /\ event' = NoEvent
    /\ IF m_state = "CONNECTED"
       THEN UNCHANGED <<httpVars, authVars>>
       ELSE Authenticate /\ UNCHANGED confVars

\* Publish has sent the message, or has failed, or CheckState returned false.
SendReturns ==
    /\ Idle
    /\ pending # NoMessage
    /\ pending' = NoMessage
    /\ UNCHANGED <<httpVars, authVars, event>>

(***************************************************************************)
(* Receiving                                                               *)
(***************************************************************************)

\* SokDecrypt and the check of its tag.
Decrypts(m) ==
    /\ m.to = m_conf.identity.sok
    /\ m.sendKey = m.from

\* The constructor of PrivateMessage, which throws if it returns FALSE here.
PrivateMessage(m) ==
    \/ m.kind = "plain"
    \/ m.kind = "encrypted" /\ Decrypts(m)

Callback(m, private) ==
    CASE ~private -> "OnMessageArrived"
      [] private /\ PrivateMessage(m) -> "OnPrivateMessageArrived"
      [] OTHER -> "OnError"

\* A message arrives on the topic of private messages, which was made of m_userId
\* when the session was started, or on another one.
OnMessageArrived(m, private) ==
    /\ Idle
    /\ pending = NoMessage
    /\ m_state = "CONNECTED"
    /\ event' = [callback |-> Callback(m, private), msg |-> m, private |-> private,
                 user |-> m_userId,
                 reconfigured |-> m_conf.identity.user # m_userId,
                 keys |-> given.sok # "none"]
    /\ UNCHANGED <<httpVars, authVars, pending>>

(***************************************************************************)
(* The specification                                                       *)
(***************************************************************************)
Client == (AuthStep /\ UNCHANGED pmVars) \/ SendReturns

Next ==
    \/ Client
    \/ Server /\ UNCHANGED pmVars
    \/ /\ Application
       /\ pending = NoMessage
       /\ event' = NoEvent
       /\ UNCHANGED pending
    \/ \E to \in Users, encrypt \in BOOLEAN : SendPrivateMessage(to, encrypt)
    \/ \E m \in Payloads, private \in BOOLEAN : OnMessageArrived(m, private)

Spec == Init /\ [][Next]_vars

\* The client waits for a TLS handshake, which has no timeout.
Handshaking == (hpc = "connect" /\ scheme = "https") \/ apc = "tls"

\* The client's thread runs: every read of the HTTP client ends with an answer or with
\* its timeout, and so does connecting to a TCP port.  A handshake may last for ever,
\* and nothing is assumed of what the servers send.
FairSpec == Spec /\ WF_vars(Client /\ ~Handshaking)

(***************************************************************************)
(* Properties                                                              *)
(***************************************************************************)

\* Message m was encrypted by the user it names.
Genuine(m) == m.kind = "encrypted" /\ m.sendKey = m.from

\* A genuine message for the user of the session is handed to the application as a
\* private message, and an encrypted one the client sends is genuine; over any
\* number of reconnections and renewals, also one in the middle of
\* SendPrivateMessage, unless another user's identity was configured meanwhile.
PrivateReadable ==
    /\ /\ event # NoEvent
       /\ event.private
       /\ event.keys
       /\ ~event.reconfigured
       /\ Genuine(event.msg)
       /\ event.msg.to = event.user
       => event.callback = "OnPrivateMessageArrived"
    /\ /\ pending # NoMessage
       /\ pending.kind = "encrypted"
       /\ m_conf.identity.user = m_userId
       => Genuine(pending)

Busy == apc # "idle" \/ pending # NoMessage

HandshakesEnd == []<>~Handshaking
ResponsesEnd == <>[][~\E s \in Schemes : ServerGoesOn(s)]_vars

\* Every call returns, whether servers answer or not and whatever faults there are, as long
\* as no handshake lasts for ever and no server sends a response without end: the timeout
\* of the HTTP client holds for each read of ReadResponse, not for all of them.
AuthCallsReturn == HandshakesEnd /\ ResponsesEnd => (Busy ~> ~Busy)

\* README: RunMessageLoop, which reconnects a session that is not connected, blocks no
\* longer than the timeout it is given.  So once the client is idle in such a session, no
\* call that reconnects it, except to send a private message, lasts for ever.
LoopReturns ==
    [](apc = "idle" /\ m_state = "DISCONNECTED" => []<>(apc = "idle" \/ pending # NoMessage))
=============================================================================
