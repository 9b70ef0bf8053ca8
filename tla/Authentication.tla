--------------------------- MODULE Authentication ---------------------------
(***************************************************************************)
(* M-Pin Full authentication (MPinFull, src/mpin_full.cpp) as iot::Client  *)
(* uses it (src/client.cpp): three requests to the authentication server,  *)
(* a fourth one when the server renews an expired identity, and a TLS      *)
(* connection to the broker with the key that results.  Client::Configure  *)
(* may change the configuration between any two calls.                     *)
(*                                                                         *)
(* What follows the TLS connection is in IotClient; here it succeeds or    *)
(* fails.  A failing calculation of the crypto library is a response the   *)
(* client cannot use.  The fields of an answer it can use are well-formed: *)
(* HexDecode turns anything else into an empty string and reports nothing. *)
(***************************************************************************)
EXTENDS HttpClient

CONSTANTS
    Users,       \* user ids
    Servers,     \* authentication servers: [name, scheme]
    Configs,     \* what the application may pass to Configure
    MaxIssue     \* how often an identity may be renewed

Identities == [user : Users, mpinId : 0..MaxIssue, clientSecret : 0..MaxIssue,
               sok : Users \cup {"none"}]

ASSUME ConfigsAssumption == Configs \subseteq [authServer : Servers, identity : Identities]
\* The issuer hands out an identity as a whole, with the user's own keys for private
\* messages or without.
ASSUME IssuedAssumption ==
    \A c \in Configs : /\ c.identity.mpinId = c.identity.clientSecret
                       /\ c.identity.sok \in {c.identity.user, "none"}
ASSUME UsersAssumption == "none" \notin Users
ASSUME MaxIssueAssumption == MaxIssue \in Nat
ASSUME ServersAssumption == \A s \in Servers : s.scheme \in Schemes
ASSUME ContentsAssumption == {"plain", "renew", "unusable"} \subseteq Contents

VARIABLES
    m_conf,      \* Client::Impl::m_conf
    m_userId,    \* Client::Impl::m_userId
    m_state,     \* Client::Impl::m_state, before or after a loss "DISCONNECTED"
    apc,         \* where Authenticate is: the request it waits for
    psk,         \* the key of SetPsk: none, of an earlier Authenticate, of this one
    started,     \* history: the server StartSession found configured
    given,       \* history: the identity last passed to Configure
    known        \* history: the identity the application knows of

confVars == <<m_conf, m_userId, m_state, started, given>>
authVars == <<confVars, apc, psk, known>>

Requests == {"pass1", "pass2", "authenticate", "renew"}

AuthInit ==
    /\ HttpInit
    /\ m_conf \in Configs
    /\ m_userId = m_conf.identity.user
    /\ m_state = "NO_SESSION"
    /\ apc = "idle"
    /\ psk = "none"
    /\ started = m_conf.authServer
    /\ given = m_conf.identity
    /\ known = m_conf.identity

(***************************************************************************)
(* Calls of the application                                                *)
(***************************************************************************)
Idle == apc = "idle" /\ hpc = "idle"

Configure(c) ==
    /\ Idle
    /\ m_conf' = c
    /\ given' = c.identity
    /\ known' = c.identity
    /\ UNCHANGED <<httpVars, m_userId, m_state, apc, psk, started>>

\* Authenticate begins with /auth/pass1 at the server configured now.
Authenticate ==
    /\ apc' = "pass1"
    /\ Execute(m_conf.authServer.scheme)
    /\ psk' = IF psk = "none" THEN "none" ELSE "earlier"
    /\ UNCHANGED known

StartSession ==
    /\ Idle
    /\ m_state = "NO_SESSION"
    /\ m_state' = "DISCONNECTED"
    /\ m_userId' = m_conf.identity.user
    /\ started' = m_conf.authServer
    /\ Authenticate
    /\ UNCHANGED <<m_conf, given>>

\* CheckState of any other call.
Reconnect ==
    /\ Idle
    /\ m_state = "DISCONNECTED"
    /\ Authenticate
    /\ UNCHANGED confVars

EndSession ==
    /\ Idle
    /\ m_state # "NO_SESSION"
    /\ m_state' = "NO_SESSION"
    /\ UNCHANGED <<httpVars, m_conf, m_userId, started, given, apc, psk, known>>

ConnectionLost ==
    /\ Idle
    /\ m_state = "CONNECTED"
    /\ m_state' = "DISCONNECTED"
    /\ UNCHANGED <<httpVars, m_conf, m_userId, started, given, apc, psk, known>>

(***************************************************************************)
(* DoAuth.  JsonHttpClient::MakeRequest throws unless the request was a    *)
(* success with status OK and the data is a JSON text; a part of one is    *)
(* none.  An empty response lacks the fields that are then asked for.      *)
(***************************************************************************)

\* Mutant: the status of the response is not looked at.
MakeRequestAnyStatus(content) ==
    /\ hpc = "idle"
    /\ response.executeStatus = "SUCCESS"
    /\ response.data = WholeData(content)

MakeRequest(content) ==
    /\ hpc = "idle"
    /\ response.executeStatus = "SUCCESS"
    /\ response.httpStatus = "OK"
    /\ response.data = WholeData(content)

Pass1Done ==
    /\ apc = "pass1"
    /\ MakeRequest("plain")
    /\ apc' = "pass2"
    /\ Execute(m_conf.authServer.scheme)
    /\ UNCHANGED <<confVars, psk, known>>

Pass2Done ==
    /\ apc = "pass2"
    /\ MakeRequest("plain")
    /\ apc' = "authenticate"
    /\ Execute(m_conf.authServer.scheme)
    /\ UNCHANGED <<confVars, psk, known>>

\* m_client.SetPsk
SetPsk ==
    /\ psk' = "now"
    /\ apc' = "tls"

Authenticated ==
    /\ apc = "authenticate"
    /\ MakeRequest("plain")
    /\ SetPsk
    /\ Consumed
    /\ UNCHANGED <<confVars, known>>

\* Mutant: what the response has of the new identity is installed at once.
StartRenewalInPlace(s) ==
    /\ apc = "authenticate"
    /\ MakeRequest("renew")
    /\ apc' = "renew"
    /\ m_conf' = [m_conf EXCEPT !.identity.mpinId = @ + 1]
    /\ Execute(s)
    /\ UNCHANGED <<m_userId, m_state, started, given, psk, known>>

\* RenewExpiredIdentity: the other half of the client secret has a URL of its own.
StartRenewal(s) ==
    /\ apc = "authenticate"
    /\ MakeRequest("renew")
    /\ apc' = "renew"
    /\ Execute(s)
    /\ UNCHANGED <<confVars, psk, known>>

\* Mutant: the keys for private messages are not copied.
RenewedWithoutKeys(id) ==
    [id EXCEPT !.mpinId = @ + 1, !.clientSecret = id.mpinId + 1, !.sok = "none"]

\* The identity the server issues in place of id, with the old SOK keys.
RenewExpiredIdentity(id) ==
    [id EXCEPT !.mpinId = @ + 1, !.clientSecret = id.mpinId + 1]

\* m_conf.identity is replaced and OnIdentityChanged called; then as above.
Renewed ==
    /\ apc = "renew"
    /\ MakeRequest("plain")
    /\ m_conf' = [m_conf EXCEPT !.identity = RenewExpiredIdentity(@)]
    /\ known' = RenewExpiredIdentity(m_conf.identity)
    /\ SetPsk
    /\ Consumed
    /\ UNCHANGED <<m_userId, m_state, started, given>>

\* Mutant: the failure is reported, and the connection is tried all the same.
AuthFailsGoesOn ==
    /\ apc \in Requests
    /\ hpc = "idle"
    /\ \A c \in {"plain", "renew"} : ~MakeRequest(c)
    /\ apc' = "tls"
    /\ Consumed
    /\ UNCHANGED <<confVars, psk, known>>

\* An exception leaves DoAuth; Authenticate returns false and so does the call.
AuthFails ==
    /\ apc \in Requests
    /\ hpc = "idle"
    /\ \A c \in {"plain", "renew"} : ~MakeRequest(c)
    /\ apc' = "idle"
    /\ Consumed
    /\ UNCHANGED <<confVars, psk, known>>

TlsConnected ==
    /\ apc = "tls"
    /\ apc' = "idle"
    /\ m_state' = "CONNECTED"
    /\ UNCHANGED <<httpVars, m_conf, m_userId, started, given, psk, known>>

TlsFails ==
    /\ apc = "tls"
    /\ Fault
    /\ apc' = "idle"
    /\ UNCHANGED <<hpc, scheme, m_connection, conn, parser, response, reply,
                   confVars, psk, known>>

AuthStep ==
    \/ HttpStep /\ UNCHANGED authVars
    \/ Pass1Done
    \/ Pass2Done
    \/ Authenticated
    \/ \E s \in Schemes : StartRenewal(s)
    \/ Renewed
    \/ AuthFails
    \/ TlsConnected
    \/ TlsFails

(***************************************************************************)
(* The servers.  A renewal is offered in the last of the three answers.    *)
(***************************************************************************)
MayOffer(r) ==
    r.content = "renew" => apc = "authenticate" /\ m_conf.identity.mpinId < MaxIssue

Server ==
    /\ \/ \E s \in Schemes, r \in Replies :
              /\ MayOffer(r)
              /\ ServerAnswers(s, r) \/ ServerBreaksOff(s, r) \/ ServerGarbles(s, r)
       \/ \E s \in Schemes : ServerGoesOn(s)
    /\ UNCHANGED authVars

Application ==
    \/ \E c \in Configs : Configure(c)
    \/ StartSession
    \/ Reconnect
    \/ EndSession
    \/ ConnectionLost

(***************************************************************************)
(* Properties                                                              *)
(***************************************************************************)

\* DoAuth goes on only with an answer that the server has given to this very request, with
\* status OK: never with one that was cut off, garbled, or of an unknown status, although
\* Execute may call these a success.
AnswerIsServers ==
    \A c \in {"plain", "renew"} :
        apc \in Requests /\ MakeRequest(c) =>
            /\ reply # NoReply
            /\ reply.http = "OK"
            /\ reply.reason
            /\ reply.content = c

\* The broker is only ever tried with the key of the authentication that has just
\* succeeded, never with one of an earlier connection.
FreshKey == apc = "tls" => psk = "now"

\* However far a renewal gets, the identity is one the application knows of: the
\* one it has configured, or, as a whole, the one it was told of.
IdentityWhole ==
    /\ m_conf.identity = known
    /\ m_conf.identity.mpinId = m_conf.identity.clientSecret
    /\ m_conf.identity.sok = given.sok

\* README: the configuration applies when a session is started.
ConfigAppliesAtStart ==
    apc # "idle" => m_conf.authServer = started /\ m_conf.identity.user = m_userId
=============================================================================
