# A TLA+ model of the MIRACL IoT client SDK

The SDK keeps one MQTT session for an application over a TLS-PSK connection:
it authenticates to an M-Pin Full server, opens the TLS connection with the key
it got, speaks MQTT through a patched Paho client, and reconnects and restores
subscriptions by itself. Everything runs on the application's thread; what makes
it hard is the broker and the network acting between any two of its steps.
Paths below are relative to the repository.

## Inventory

| part | state | operations | talks to |
|---|---|---|---|
| session, `src/client.cpp` (`Client::Impl`) | `m_state`, `m_subscriptions`, `m_conf`, `m_lastError` | StartSession, EndSession, IsConnected, Subscribe, Unsubscribe, Publish, RunMessageLoop, CheckState, Authenticate, Reconnect, RestoreSubscriptions, private messages | MPinFull, MqttTlsClient, the application's EventListener |
| MQTT over TLS, `src/mqtt_tls_client.cpp` | `m_qos`, `m_usePersistentSession`, `m_sessionPresent` | Connect, Reconnect, Disconnect, IsConnected, the commands, RunMessageLoop | MQTT::Client, TlsConnection |
| MQTT client, `lib/paho.mqtt.embedded-c-master/MQTTClient/src/MQTTClient.h` | `isconnected`, `cleansession`, the kept publish, packet id, table of incoming QoS 2 ids, keepalive timers, buffers | connect, subscribe, unsubscribe, publish, disconnect, yield, cycle, keepalive, readPacket | TlsConnection; the message handler |
| connections, `lib/netlib/src/{tls,tcp}_connection.cpp`, `common.cpp` | connected flag, timed-out flag, last error | Connect, Close, Read, ReadAll, Write | mbedtls, sockets |
| HTTP, `lib/netlib/src/http_client.cpp`, `http_response_parser.cpp` | request in progress, parser state | Execute, Feed, FeedEOF | a connection, `http_parser` (vendored) |
| authentication, `src/mpin_full.cpp` | none across calls | three requests, renewal of an expired identity | HTTP, crypto |
| helpers: `src/utils.cpp`, `src/timer.cpp`, `src/crypto.cpp` | random generator | hex, JSON, countdown, M-Pin and SOK | vendored libraries |

Hard behaviours: a command times out and its acknowledgement arrives later; a
connection is lost and noticed only at a later read or write; one half of the
connection (TLS or MQTT) is up and the other down; a reconnection fails half way
through restoring; the broker refuses, rejects, or loses the session it stored; a
publish is kept and sent again; a packet id wraps; the session is ended and
started with something left over from the old one. `PROJECT.json` lists them line
by line, with the property for each or the reason why there is none yet.

What makes the parts correct:

* session: the application is never locked out; after any call on a live
  connection client and broker agree on the subscriptions; calls end; a session
  reconnects;
* MQTT client: an acknowledgement is only taken by the command it answers; what is
  kept for resending is sent again only when that is allowed; an incoming QoS 2 message
  is delivered once and a place of the table is given back; keepalive does not wait for
  an answer that cannot come;
* connection: a new one starts from nothing;
* framing: packets arrive byte for byte, and never reach beyond the buffer;
* HTTP: a response called a success is the answer to this request and has nothing in it that
  the server has not sent. It need not be all of it: a body that only the end of the
  connection delimits may be cut off, and after an empty line there may be nothing;
* authentication: it goes on only with a complete answer of status OK; the broker is tried
  with the key of the last authentication only; an
  identity is renewed as a whole or not at all;
* private messages: they stay readable over reconnections and renewals.

## Modules

| module | models | uses |
|---|---|---|
| `MqttLink` | `TlsConnection` seen as a connection with packets under way in both directions; faults | |
| `PahoClient` | the command half of `MQTT::Client` | `MqttLink` |
| `MqttBroker` | the broker (external), following MQTT 3.1.1 as far as this client's packets reach it | `MqttLink` |
| `IotClient` | `Client::Impl` over `MqttTlsClient`, composed with all of the above; the properties | `PahoClient`, `MqttBroker` |
| `SequenceLemmas` | lemmas on queues: what Head, Tail, Append and concatenation leave where | |
| `IotClientProofs` | theorems on the session and its commands; the invariant `IInv` | `IotClient`, `SequenceLemmas` |
| `SessionProofs` | QoS 1 publishes arrive once; `Session` is implemented | `IotClientProofs` |
| `SubscriptionProofs` | client and broker agree on the subscriptions | `IotClientProofs` |
| `MCIotClient` | small instances | `IotClient` |
| `MqttSender` | the broker (external) as the sender of messages | `MqttLink` |
| `MqttReceive` | the receiving half of `MQTT::Client` and keepalive; the properties | `MqttSender` |
| `MqttReceiveProofs` | theorems on incoming messages and keepalive | `MqttReceive`, `SequenceLemmas` |
| `MCMqttReceive` | small instances | `MqttReceive` |
| `Session` | abstract specification: what the session promises an application | |
| `Framing` | `readPacket` and `decodePacket` on a stream of bytes; the coding of lengths | |
| `FramingProofs` | theorems on the framing and the two buffers | `Framing`, `SequenceLemmas` |
| `MCFraming` | a small instance | `Framing` |
| `HttpClient` | `http::Client`, `NetworkImpl`, `ResponseParser`, what it needs of `http_parser`, the two connections; the server (external) | |
| `Authentication` | `MPinFull`, `Configure` and the parts of `Client::Impl` around `Authenticate` | `HttpClient` |
| `PrivateMessages` | sending and receiving private messages, composed with the two above; the specification | `Authentication` |
| `PrivateMessagesProofs` | theorems on HTTP, authentication and private messages | `PrivateMessages`, `SequenceLemmas` |
| `MCPrivateMessages` | a small instance | `PrivateMessages` |

The two halves of `MQTT::Client` are separate specifications. They share the connection
and `cleanSession`: the receiving half sees a command only when it fails, since that
clears its table; the commands do not depend on incoming messages, except that reading
one takes a cycle of `waitfor`. `Framing` looks below the packets of `MqttLink`, and
`Authentication` into the step that `IotClient` takes as `AuthOk` or `AuthFails`.

`IotClient` implements `Session` (`ImplementsSession`). The mapping is the identity on
the subscriptions and the session's state; `busy` is the call in progress while `pc` is
not `idle`; `handed`, `arrived` and `confirmed` are the history of publishes and what the
broker has received. So a call with all its attempts, timeouts and resends takes effect
in one step, as a whole or not at all: `m_subscriptions` changes only when a Subscribe or
Unsubscribe succeeds in a connected session, `m_state` moves as the callbacks say, no
message reaches the broker that was not handed to Publish, and a QoS 1 publish is reported as
done only after the broker took it over. `Session` says nothing of a QoS 2 publish that
is reported: the code does not wait for it.

### How state and actions correspond to the code

`link` is `TlsConnection::m_connected` split by what the client cannot see:
`"up"` and `"broken"` both mean `m_connected`, and only a read or write that fails
turns `"broken"` into `"closed"`. A write on a broken connection may vanish or
fail; a read may time out or fail. `c2b` and `b2c` hold whole packets. Closing
loses what was not read, a packet already written may still reach the broker until
the next connection is opened.

`isconnected`, `cleansession`, `inflight` (the fields `inflightMsgid`,
`inflightQoS`, `pubbuf`) and `packetid` are fields of `MQTT::Client`. `pubrel` is
always false in the code, so it has no variable. The template is instantiated with
no message handlers (`MqttClient = MQTT::Client<..., 1024, 0>`), so the handler
table has none either.

`pc` is the point where the one thread waits for something outside: `idle`
(between two calls), `auth`, `tls`, `connect` (TLS is up, CONNECT to be written),
`connack`, `connected`, `restore`, `restoreAck`, `body` (CheckState returned true)
and `suback`, `unsuback`, `puback`. The code between two such points is one action:

* `CheckState` is `CallInitial`, `CallConnected` and `CallReconnect`. The latter
  includes what `IsConnected` does to the two halves (`Reconcile`). A call in state
  `NO_SESSION` changes nothing and is not an action.
* `Authenticate` is `AuthOk` or `AuthFails`. It runs at every (re)connection, since
  nothing in the code sets `m_authenticated`.
* `MqttTlsClient::Connect(bool)` is `ConnectTls`, `ConnectSent`, `ConnackOk` and the
  four ways to fail. `Connect()` of a persistent session connects twice
  (`ConnectAgain`), `stage` says which `Connect` is running.
* `Reconnect` is `Connected` or `StartRestore`; `RestoreSubscriptions` is
  `RestoreNext`, its answers, and `Restored`. The order of topics is not fixed in
  the model; `std::set` has one of the orders.
* `Subscribe`, `Unsubscribe` and `Publish` write in `...Sent` and end in `...Ack`,
  `SubscribeRejected`, `CommandNotSent`, `CommandTooLong`/`PublishTooLong` or
  `CommandTimeout`. `WaitOther` is a cycle of `waitfor` that reads another packet,
  `WaitReadFails` one in which the read fails: the loop goes on to its timeout, as
  in the code.
* `RunMessageLoop` is `LoopRead`, `LoopReadTooLate`, `LoopEnd`, `LoopReadFails`.

In `MqttReceive`, `incomingQoS2messages` and `ping_outstanding` are the fields of that
name, and one pass through `cycle` is one action: the packet read (`Connack`,
`PublishQoS1`, `PublishQoS2`, `Pubrel`, `Pingresp`) or not (`NothingRead`, `ReadError`),
the answer to it, which the timer may prevent (`TooLate`), and `keepalive` at the end.
`Connect` is `MqttTlsClient::Reconnect` up to the wait for CONNACK, with the `disconnect`
that `IsConnected` does first. `CommandFails` and `ConnectFailsWithPublish` are the two
ways to `cleanSession`. The timers of keepalive expire at any time, except in the wait for
CONNACK: they last 60 seconds, and the application may have chosen a command timeout that is
longer (`commandTimeout`). `delivered` counts the calls of `OnMessageArrived` per message, up to two. The
broker sends each message once per connection, with an id that is not in use, in any
order of messages.

In `Framing`, a read of one byte of the length is an action, the header and the rest of a
packet one each; between any two the stream may stall until the timeout (`...Stalls`) or
the connection fail (`...ReadFails`). `decodePacket` returns with whatever it has and
`readPacket` does not look at its result, so both go on to the body. A byte knows what it
was sent as; a byte of a header or a body that is read as a length may have any value.
`MQTTSerialize` stands for the functions of that prefix, which compare the estimate of
`MQTTPacket_len` with the size of `sendbuf` before they write to it.

In `HttpClient`, `conn` has both connections of `NetworkImpl` with what the server has
sent on each, and `m_connection` is the pointer to one of them. A response is a sequence
of pieces; `OnMessageBegin`, `OnStatus`, `OnHeaderField` and so on are the callbacks, one
piece per read, so that every way to cut a response is a behaviour. `MessageBegin`, `StatusLine` and
so on name the groups of states of `http_parser` that make these pieces. `parser.at` is its
state, as far as it matters: an empty line before the status line calls
`OnMessageBegin` and leaves it at `s_start_res` (http_parser.c:768-777), a status line
without a reason phrase passes without `OnStatus` (892-896, 918-926), which leaves
`httpStatus` at `NON_HTTP_ERROR`, and the end of the headers decides how the body is
delimited. `ReadEnds` is a read at the end of the stream and `ReadTimesOut` one that waited
ten seconds: `FeedEOF` follows both, and is accepted in a body without a length and at
`s_start_res` (655-674). A body without a length that the client cannot use may go on for
ever (`ServerGoesOn`, while `asked` is `"more"`); of such data the first `MaxData` pieces are
kept, all of them being alike. `Finish` is the end of `Execute`, with the status and
`NetworkImpl::Close`. In `Authentication`,
`apc` is the request that `DoAuth` waits for. `Pass1Done`, `Pass2Done`, `Authenticated`
and `StartRenewal`/`Renewed` are the code between two requests, `AuthFails` an exception
at any of them. An identity is numbered: `mpinId` and `clientSecret` are what the server
issued the n-th time. In `PrivateMessages`, `SendPrivateMessage` serialises first and then
does what `Publish` does; `pending` is the text it has made. Keys are named by the user
they were generated for.

`unsure`, `used` and `done` are history variables: topics whose last command was
not answered, messages handed to Publish (each once), publishes reported as done.

## Runs

The runs of `MCIotClient`; `MaxPacketId` is 3, so ids
wrap within a behaviour.

| run | instance | result |
|---|---|---|
| `all` | one topic, one message, all calls, all four configurations, all faults, two of them, fairness | `TypeOK`, `NotStuck`, `ConnectFromScratch`, `AckIsForThisCommand`, `ResendOnlyQoS2`, `PublishedOnce`, `ImplementsSession`, `CallsReturn`, `Reconnects` hold |
| `subscriptions` | two topics (symmetric), all configurations, all faults except `refuse` and `sessionLoss` | `SubscriptionsAgree` holds |
| `restore` | persistent, all faults | `SubscriptionsRestored` is violated |
| `onconnected` | persistent, QoS 2 | `OnConnectedMeansAccepted` is violated |
| `once` | persistent, QoS 2, connections that drop | `QoS2AtMostOnce` is violated |

The runs of `MCMqttReceive`, with one QoS 1 and two QoS 2 messages (two QoS 2 messages
in the violation), a table of two places and two packet ids:

| run | instance | result |
|---|---|---|
| `receive_all` | both kinds of session and of command timeout, fairness, all faults, two of them | `ReceiveTypeOK`, `DeliveredOnce`, `TableMatchesBroker`, `AcknowledgedDelivered`, `PingNotStale`, `Completed` hold |
| `receive_stale` | persistent, one lost session | `MessageArrives` is violated |

The broker has no more in flight than the table has places: beyond that `cycle` warns
(MQTTClient.h:570) and acknowledges a QoS 2 message it does not deliver. Three
messages over two ids make an id come round after its first message is complete, which
is when a place that was not given back, or was given back too early, shows.
`forgotBy` records that a persistent session went on after a failing command cleared the
client's table or the broker lost its part. `DeliveredOnce` and `TableMatchesBroker`
claim nothing of what follows. A failing command calls `cleanSession` (788) in a
persistent session as well, so that a publish the broker sends again is delivered again,
and `receive_stale` shows what a lost session does. In a session
that is not persistent both hold in any case, because the broker drops what it had in
flight together with the table.

The runs of `MCFraming` and `MCPrivateMessages`:

| run | instance | result |
|---|---|---|
| `framing` | two packets per connection with lengths 0 to 8, digits to base 2, a buffer of 9 bytes | `FramingTypeOK`, `PacketsIntact`, `BufferNotOverrun`, `EstimateSafe` hold |
| `framing_sync` | the same | `InStep` is violated |
| `authentication` | two users, one server, an identity with and without keys for private messages, one renewal of each, one fault, timeouts without limit, all shapes of a response, fairness | `AuthTypeOK`, `OwnResponse`, `ResponseFaithful`, `AnswerIsServers`, `FreshKey`, `IdentityWhole`, `PrivateReadable`, `AuthCallsReturn` hold |
| `blocked` | one configuration, no faults, bodies ended by the connection, fairness | `LoopReturns` is violated |
| `config` | also another user at another server, no renewals, bodies of known length | `ConfigAppliesAtStart` is violated |

A digit of a remaining length has base 128 in the code. With base 2 all four digits are
used by lengths up to 15, so that packets on both sides of every change in the number of
digits are small enough to be read byte by byte, and the buffer ends between two of them.
Two packets are enough for one to be read out of the rest of the other.

In `authentication` a fault is a connection that cannot be made, a failing write, an answer
that breaks off or is not HTTP, or a TLS connection that fails; a timeout of an HTTP read is
no fault and may happen at any piece, any number of times, which is what leaves late answers
behind. The shapes of a response are those with and without a reason phrase, with and without
an empty line before the status line, and with either way to delimit the body, which may be
endless if only the connection delimits it. A header that is repeated, names and values in
two fragments and a body in two pieces are the least that tells apart joining, replacing and
forgetting. An identity is configured, renewed, and configured again while the session lasts;
that the properties hold with any number of users, servers and renewals is proved.

Bounds of the first table. One topic and one message are enough for the
acknowledgement properties, which compare one command with the previous one; two topics are needed for a
restore that fails half way. Two faults allow a fault during the recovery from
another one (a command times out, and then the restore fails); the theorems
remove that bound. A third packet id makes an id come round while the packet that
had it before can still be under way. Sequences need no bound of their own: a
command waits for its answer before the next one, and `CHECK_DEADLOCK` stays on.

Faults are `drop` (the connection is lost), `auth` and `tls` (that step fails),
`timeout` (a timer expires although the connection is alive), `refuse` and
`reject` (the broker says no), `sessionLoss` (the broker restarts without the
session), `tooLong` (the application's topic or message does not fit) and, in
`MqttReceive`, `command` (a command fails, for whatever reason). A
timeout on a lost connection is not a fault but what must happen.

`subscriptions` leaves out `refuse` and `sessionLoss`, because with them a persistent
session really does lose subscriptions: that is what `restore` shows. A session that is
not persistent has nothing to lose: for it a broker that restarts is a connection that
drops.

### What the violations show

* `restore`. The broker loses its session. On reconnecting it creates a new one and
  answers "session present: 0", but the command timeout has passed when the CONNACK
  arrives. The second attempt gets "session present: 1" for the new and empty session
  and `Reconnect` (client.cpp:363) skips `RestoreSubscriptions`. The README of the
  repository (48-50) promises that subscriptions are restored even then.
* `onconnected`. A persistent session with a QoS 2 publish is refused at reconnection.
  `connect` (MQTTClient.h:711-720) sends the kept publish regardless and stores the
  result of that in `rc`, over the return code: `OnConnected` is called.
* `once`. The wait for PUBCOMP (MQTTClient.h:860) is the `#elif` of the QoS 1 branch and
  not compiled, so `publish` returns after the write and nothing clears `inflightMsgid`:
  after a completed QoS 2 exchange and a lost connection `connect` sends the publish
  again. The broker has released the id, so it is a new message.
* `receive_stale`. `disconnect` keeps the table of a persistent session (955-958), and
  `connect` does not look at it when the broker reports that there is no session. The
  first new message with an id in the table counts as a duplicate.
* `framing_sync`. The body of a packet does not come within the timeout: `readPacket`
  (MQTTClient.h:425) returns FAILURE with the connection up, `RunMessageLoop` reports
  success, and what is left of the packet is read as the header of the next one. The
  same follows a length cut short (415) and a packet that does not fit (418), which
  `yield` turns into a plain FAILURE. The comment above `readPacket` (396-397) says that the client should
  disconnect.
* `config`. `Configure` replaces `m_conf` at any time and `Authenticate` (client.cpp:332)
  reads server and identity from it at every reconnection, while user id, broker address,
  QoS and kind of session were copied by `StartSession`. The README of the repository
  (50-52) says that the configuration applies when a session is started.
* `blocked`. A session is connected and loses its connection; the reconnection begins with a
  request, which the server answers with a body of unknown length that goes on for ever.
  Every read of `ReadResponse` (http_client.cpp:219-229) returns something before its ten
  seconds are over, and nothing bounds their number, so the call does not return. A handshake
  that never ends (tls_connection.cpp:96) has the same effect. The README of the repository
  (77) says of `RunMessageLoop`, which reconnects in this way: "It will block for maximum of
  `timeout` milliseconds."

### Fairness

`FairSpec` has weak fairness of the client's own steps (its thread runs, waits end
with an answer or a timeout), of the broker (it answers what it receives) and of
RunMessageLoop being called while the client is idle, as the test application does
(tests/iot_client/main.cpp); and strong fairness of `LoopReadFails`: any single read
on a dead connection may time out, but not all of them for ever, because TCP gives up.
It assumes that the authentication and the TLS handshake end one way or the other.
The code gives neither a timeout, so a server that accepts and stays silent would
block a call; `CallsReturn` does not speak about that.

`FairSpec` of `MqttReceive` has weak fairness of reading, connecting and noticing a lost
connection, and of each thing the broker has to send or answer; keepalive and failing
commands get none. An answer that came too late is not sent on this connection again, and
the broker repeats itself only on a new one. So `Completed` has a premise: again and
again no answer is missing on the current connection (`late` is false). Behaviours in
which the connection is lost, or a command fails, after a late answer satisfy it.

`FairSpec` of `PrivateMessages` has weak fairness of the client's own steps, except while it
waits for a TLS handshake (with an authentication server at `https` or with the broker),
which has no timeout in the code. Connecting to a TCP port ends, because the operating system
gives up; a read ends with data, with the end of the stream or after ten seconds; nothing is
assumed of what servers send. So `AuthCallsReturn` has a premise: no handshake lasts for ever
(`HandshakesEnd`), and from some point on no server sends more of an endless response
(`ResponsesEnd`). It then holds against servers that do not answer, answer late or break off.
Without `ResponsesEnd` it does not: that is the run `blocked`.

## Proofs

Every invariant of the passing runs, and the refinement, is a theorem. A run shows it on a
small instance; the theorem for every set of topics, messages, users, servers, every choice
of configurations, calls and fault kinds, every packet id limit and any number of faults.

| module | theorem | states |
|---|---|---|
| `IotClientProofs` | `TypeCorrect` | `Spec => []TypeOK` |
| | `NeverStuck` | `Spec => []NotStuck` |
| | `FreshConnections` | `Spec => []ConnectFromScratch` |
| | `OwnAcknowledgement` | `Spec => []AckIsForThisCommand` |
| | `NoQoS1Resend` | `Spec => []ResendOnlyQoS2` |
| `SessionProofs` | `QoS1Once` | `Spec => []PublishedOnce` |
| | `SessionImplemented` | `Spec => ImplementsSession` |
| `SubscriptionProofs` | `CleanSessionAgrees` | `Spec => [](~conf.persistent => SubscriptionsAgree)` |
| | `SessionAgrees` | `Spec => []SubscriptionsAgree`, if `SessionSafe` |
| `MqttReceiveProofs` | `ReceiveTypes` | `Spec => []ReceiveTypeOK` |
| | `TableTidy` | `Spec => []TableMatchesBroker` |
| | `QoS1Delivered` | `Spec => []AcknowledgedDelivered` |
| | `PingFresh` | `Spec => []PingNotStale` |
| | `ExactlyOnce` | `Spec => []DeliveredOnce`, if `Window <= MAX_INCOMING_QOS2_MESSAGES` |
| `FramingProofs` | `FramingTypes` | `Spec => []FramingTypeOK` |
| | `ReadBufferSafe` | `Spec => []BufferNotOverrun` |
| | `SendBufferSafe` | `Spec => []EstimateSafe` |
| | `StreamIntact` | `Spec => []PacketsIntact` |
| `PrivateMessagesProofs` | `AuthTypes` | `Spec => []AuthTypeOK` |
| | `OwnResponseRead` | `Spec => []OwnResponse` |
| | `SuccessIsFaithful` | `Spec => []ResponseFaithful` |
| | `OnlyServersAnswers` | `Spec => []AnswerIsServers` |
| | `KeyIsFresh` | `Spec => []FreshKey` |
| | `IdentityStaysWhole` | `Spec => []IdentityWhole` |
| | `MessagesReadable` | `Spec => []PrivateReadable` |

The assumptions are those the modules state. Most say what kind of value a constant is.
The others:

* `Framing`: a base is at least 2; `readbuf` holds more than a header and four digits; the
  lengths sent are those that four digits can code, as MQTT says.
* `HttpClient`: `"NULL"` stands for no connection, so it is not a scheme. The same goes in
  `Authentication` for the user `"none"`, who stands for an identity without keys.
* `Authentication`, in its definitions: the fields of an answer that can be used are
  well-formed hex. `HexDecode` makes an empty string of anything else and reports nothing.
* `Authentication`: the identities an application configures have been issued whole
  (`IssuedAssumption`): `mpinId` and `clientSecret` belong together, and the keys for private
  messages are the user's or missing. `Configure` takes them as they are and does not check it.

Two theorems have a hypothesis. Both are needed: TLC finds the property violated without
them.

* `ExactlyOnce`: a message for which the table has no place is acknowledged and not
  delivered, so with more messages in flight than places one may be lost.
* `SessionAgrees`: `SessionSafe` says that the broker neither refuses connections nor loses
  a stored session. Either fault alone breaks it in a persistent session. If a QoS 2 publish
  is kept, a refused clean CONNECT counts as a success and the session stored before
  survives, with its subscriptions. And if the broker lost the session, the CONNECT whose
  CONNACK comes too late creates an empty one; the next CONNACK says that the session is
  present, and nothing is restored (run `restore`).

### IotClientProofs

None of the four safety properties is inductive by itself. The invariant is
`IInv == TypeOK /\ HalvesInv /\ StateInv /\ InflightInv /\ WireInv`:

* `StateInv` ties `mState` to `pc`: a restore runs in DISCONNECTED, a body in CONNECTED.
* `HalvesInv` says at each `pc` which halves of the connection may be up. It gives
  `NotStuck` and `ConnectFromScratch`; it needs `StateInv` to know that a failed call
  left in `DISCONNECTED` has gone through `cleanSession`.
* `WireInv` speaks about both directions. An acknowledgement in `b2c` can only be
  traced to its command through `c2b`: when no command waits, neither a command nor an
  acknowledgement is under way (`Quiet`); while one waits there is at most one such
  packet in the two queues together, and it bears the current id (`OnlyOne`). That
  there is only one is what survives a wrap of the ids. When a command fails, nothing is
  claimed until the connection has been replaced: `Quiet` is required between calls only
  if both halves are up, and `HalvesInv` says that they are not.
* `InflightInv`: what is kept is a QoS 2 publish or the QoS 1 publish being waited for.
  It needs `WireInv`, since the code compares the id of the PUBACK with the kept one.

`WireInv` is preserved by lemmas on what may happen to the queues (`QuietRead`,
`QuietAppend`, `OneSent`, `OneRead`, `OneOther`, `QuietOutside`, `OneOutside`), which
rest on the lemma `OutsideWire`: every step of broker and network either loses
everything, or takes the first packet and answers it, if at all, with its own id.

### SessionProofs

`MInv == UsedInv /\ CallInv /\ DoneInv`, on top of `IInv`, follows one message: not handed to
Publish, it is nowhere (`UsedInv`); in a Publish that has not written yet, it still is
nowhere; while its PUBACK is awaited, it is under way and not received, or received once
and only its PUBACK is left (`AwaitedInv`); after a Publish that returned true it is
received once and nothing of it is left to be sent again (`DoneInv`). `IInv` gives that the
PUBACK read is its own. The lemma `PublishesStep` says who may write a publish at all.

The refinement has two parts: `SessionInit`, and `SessionStep`, in which every step from a
state of `IInv /\ MInv` is a step of `Session` or leaves its variables alone. The case of a
PUBACK needs `AwaitedInv`: it is what makes the message one the broker has.

### SubscriptionProofs

`SubscriptionsAgree` speaks about the moments between calls. What leads there:

* `PhaseInv`: the stages of connecting; no subscriptions before the first connection;
  `toRestore` is a part of `mSubscriptions` and empty except during a restore.
* `ConnectInv`: while a CONNACK is awaited, the CONNECT or its answer is all that is under
  way, so the CONNACK read answers this CONNECT. While connected neither a CONNECT nor a
  DISCONNECT is under way: nothing changes the broker's session behind the client.
* `AckInv`: a command under way is for the topic of the call, and its acknowledgement
  tells what the broker has.
* `CleanInv`, for sessions that are not persistent: a connection begins with no
  subscriptions at the broker, and a restore adds them one by one until they are all of
  `mSubscriptions`. This alone gives `CleanSessionAgrees`, with all faults.
* `StoredInv`, for persistent ones: of the two connections of `Connect()` the first makes the
  broker forget; from then on the stored session differs from `mSubscriptions` in topics of
  `unsure` only, no CONNECT is clean and every CONNACK says that the session is present,
  so that a restore, which could not remove anything, never runs.

TLC checked `CleanInv` with all faults and `StoredInv` without the two of `SessionSafe`, on
the instance of the run `subscriptions`, before they were proved.

### MqttReceiveProofs

`RInv` relates what each packet under way says to where its message stands:

* `ConnInv`: a CONNECT is the first packet of a connection and asks for the kind of session
  of the client; an answer is under way only while the broker has the connection
  open.
* `SenderInv` and `KeptInv`: messages in flight have different ids and are at most `Window`;
  the broker keeps a session only if the client asked for it, and repeats nothing otherwise.
* `OneEach` and `Tells`: for a message in flight at most one packet is under way in the two
  directions together, and it tells how far the exchange is. Without the first the second
  would not be inductive: a step of the exchange would leave the other packet wrong.
* `TableInv`: an id in the table is that of a message delivered and still in flight; no id
  occurs twice; the table is empty before a connection that starts a new session; a PUBCOMP
  is under way only for an id already freed.
* `PingInv`: an outstanding ping or its answer is under way on this connection.

`ExactlyOnce` adds `OnceInv`, for as long as neither side has forgotten the session: a message
is delivered at most once, one that may arrive again is in the table (`CountedOnce`), one
not yet read is new (`UnreadNew`), and a PUBREC under way is for a delivered message
(`RecDelivered`). The hypothesis on `Window` enters through the pigeonhole principle: a
message to be entered is in flight and not in the table, so a place is free.

### FramingProofs

`FInv` is `FramingTypeOK`, the state of `readPacket` in each step (`ReadingInv`), what was
compared before writing (`WriteInv`), `BufferNotOverrun` and `InStepInv`. The latter holds
until something goes wrong (`hurt = {}`). `Layout` says that there is a function giving each
packet not yet returned its place in the stream, the first one without the bytes already
taken; a sequence that is a concatenation of packets would need an induction over the
packets, the function does not. `PartInv` says that the digits read so far are the lower
digits of the length, `rem_len = n % Power[digits]`. That the last digit completes the
length is the lemma that Euclid's division is unique.

### PrivateMessagesProofs

`HInv` is about a request: a connection is open only while its request runs (`ConnInv`), so
no bytes of an earlier one are there to be read; parser and response are those of the first
`k` pieces of the reply, for every `k` and every shape of a reply, and what is left in the
connection are the pieces that follow, as far as they come, some of them garbled
(`ReadInv`). More of an endless body comes only after all pieces were read, when the data has
`MaxData` pieces and a further one changes nothing. So at the end of the stream the response
is the one after an empty line, or after the headers of a body without a length and a
beginning of the data: these are the two cases of `ResponseFaithful`. `ReturnInv` is what `Execute` returns. `AInv`
adds the types, when a renewal can be under way (`RenewInv`), whose keys are in use, also
by a message being sent (`KeysInv`), and the three properties `FreshKey`, `IdentityWhole` and
`PrivateReadable`. `AnswerIsServers` follows from `ReturnInv`: of the responses called a success
only the complete ones have status OK and all the data.

### Only model-checked

`CallsReturn`, `Reconnects`, `Completed` and `AuthCallsReturn`: liveness under fairness is out
of the prover's reach. The seven runs that expect a violation show behaviours, which need no
proof.

## Plan

1. done: the session, the MQTT commands, the connection and the broker; the four
   safety theorems.
2. done: the receiving half of the MQTT client, keepalive included.
3. done: the abstract session and the refinement.
4. done: authentication, the renewal of an identity, `Configure` during a session, private
   messages.
5. done: the HTTP client with its parser; the framing of MQTT packets.
6. done: proofs of the refinement, of `PublishedOnce` and `SubscriptionsAgree`, of the
   invariants of `MqttReceive`, of the framing for every base, buffer and set of sizes, and
   of the HTTP client, the authentication and the private messages.
7. Weaker hypotheses: `SessionAgrees` with a broker that refuses connections, as long as no
   QoS 2 publish is kept; what remains of `PingNotStale` when the command timeout is
   longer than keepalive.

## Not modelled

* Callbacks that call the client from inside `cycle`; the test application has none.
* Durations: a timer expires at any step. `timer.cpp`, the timeout that `RunMessageLoop`
  passes on after a slow reconnection (client.cpp:240), and a command timeout of 0
  (127) are therefore outside. A handshake may last for ever in `PrivateMessages`; `IotClient`
  assumes that it ends (tls_connection.cpp:96).
* Incoming QoS 0 messages, which the SDK does not subscribe to, malformed packets, a
  client id too long for a CONNECT packet, topic handlers (the SDK has none).
* Invalid URLs and methods, 1xx responses, responses without headers or a body, chunk
  callbacks, what a server sends behind the end of a response, error texts.
* Hex coding, address parsing and JSON: functions without state. A renewal with malformed hex
  (mpin_full.cpp:82), which would be installed, is left out.
* Cryptography and certificates, except for which keys fit together.
* The test application and the key generator, which only call the API.
* The vendored libraries (mbedtls, milagro-crypto-c, cajun, fmt and the unused parts of
  Paho). They are nearly all of the repository's lines; the SDK's own code is about three
  thousand.
