------------------------------ MODULE Session ------------------------------
(***************************************************************************)
(* What iot::Client promises an application, without connections, packets, *)
(* timeouts or a broker's answers: a session that is started, is connected *)
(* or not, and is ended; the topics it is subscribed to; the messages      *)
(* handed to it; and one call at a time, which takes effect as a whole or  *)
(* not at all.  IotClient implements it.                                   *)
(***************************************************************************)
CONSTANTS
    Topics,   \* topics the application uses
    Msgs      \* messages the application publishes

VARIABLES
    state,      \* of the session
    qos2,       \* the session publishes with QoS 2
    topics,     \* subscriptions of the session
    busy,       \* the call the application is in
    handed,     \* messages handed to Publish
    arrived,    \* messages the broker has taken over
    confirmed   \* publishes reported as successful

vars == <<state, qos2, topics, busy, handed, arrived, confirmed>>

NoCall == [op |-> "none"]
Start == [op |-> "StartSession"]
Calls == [op : {"Subscribe", "Unsubscribe"}, topic : Topics]
    \cup [op : {"Publish"}, msg : Msgs]
    \cup [op : {"RunMessageLoop"}]

Init ==
    /\ state = "NO_SESSION"
    /\ qos2 \in BOOLEAN
    /\ topics = {}
    /\ busy = NoCall
    /\ handed = {}
    /\ arrived = {}
    /\ confirmed = {}

StartSession ==
    /\ state = "NO_SESSION"
    /\ busy = NoCall
    /\ state' = "INITIAL"
    /\ qos2' \in BOOLEAN
    /\ busy' = Start
    /\ UNCHANGED <<topics, handed, arrived, confirmed>>

\* The subscriptions go with the session, the messages do not.
EndSession ==
    /\ state # "NO_SESSION"
    /\ busy = NoCall
    /\ state' = "NO_SESSION"
    /\ topics' = {}
    /\ UNCHANGED <<qos2, busy, handed, arrived, confirmed>>

\* A call begins, and may find that the connection was lost.
Call(c) ==
    /\ state # "NO_SESSION"
    /\ busy = NoCall
    /\ busy' = c
    /\ state' \in IF state = "CONNECTED" THEN {"CONNECTED", "DISCONNECTED"} ELSE {state}
    /\ handed' = IF c.op = "Publish" THEN handed \cup {c.msg} ELSE handed
    /\ UNCHANGED <<qos2, topics, arrived, confirmed>>

\* OnConnected.  StartSession has nothing more to do after it.
Connect ==
    /\ busy # NoCall
    /\ state \in {"INITIAL", "DISCONNECTED"}
    /\ state' = "CONNECTED"
    /\ busy' = IF busy = Start THEN NoCall ELSE busy
    /\ UNCHANGED <<qos2, topics, handed, arrived, confirmed>>

\* A call ends without an effect.
Return ==
    /\ busy # NoCall
    /\ busy' = NoCall
    /\ UNCHANGED <<state, qos2, topics, handed, arrived, confirmed>>

\* A connected call succeeds.
Subscribe ==
    /\ state = "CONNECTED"
    /\ busy.op = "Subscribe"
    /\ topics' = topics \cup {busy.topic}
    /\ busy' = NoCall
    /\ UNCHANGED <<state, qos2, handed, arrived, confirmed>>

Unsubscribe ==
    /\ state = "CONNECTED"
    /\ busy.op = "Unsubscribe"
    /\ topics' = topics \ {busy.topic}
    /\ busy' = NoCall
    /\ UNCHANGED <<state, qos2, handed, arrived, confirmed>>

\* With QoS 1 only once the broker has the message.
Publish ==
    /\ state = "CONNECTED"
    /\ busy.op = "Publish"
    /\ qos2 \/ busy.msg \in arrived
    /\ confirmed' = confirmed \cup {[msg |-> busy.msg, qos2 |-> qos2]}
    /\ busy' = NoCall
    /\ UNCHANGED <<state, qos2, topics, handed, arrived>>

\* The broker takes over a message that was handed to Publish, at any time.
Arrive(m) ==
    /\ m \in handed \ arrived
    /\ arrived' = arrived \cup {m}
    /\ UNCHANGED <<state, qos2, topics, busy, handed, confirmed>>

Next ==
    \/ StartSession
    \/ EndSession
    \/ \E c \in Calls : Call(c)
    \/ Connect
    \/ Return
    \/ Subscribe
    \/ Unsubscribe
    \/ Publish
    \/ \E m \in Msgs : Arrive(m)

Spec == Init /\ [][Next]_vars
=============================================================================
