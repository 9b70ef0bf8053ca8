------------------------- MODULE MCPrivateMessages -------------------------
(***************************************************************************)
(* HttpClient, Authentication and PrivateMessages together, on a small     *)
(* instance.                                                               *)
(***************************************************************************)
EXTENDS PrivateMessages

CONSTANTS u1, u2

MCUsers == {u1, u2}
MCSchemes == {"http", "https"}
MCContents == {"plain", "renew", "unusable"}
Server1 == [name |-> "s1", scheme |-> "https"]
Server2 == [name |-> "s2", scheme |-> "http"]
MCServers == {Server1, Server2}

Fresh(u, k) == [user |-> u, mpinId |-> 0, clientSecret |-> 0, sok |-> k]

\* One user with and without keys for private messages, another user elsewhere.
MCConfigs == {[authServer |-> Server1, identity |-> Fresh(u1, u1)],
              [authServer |-> Server1, identity |-> Fresh(u1, "none")],
              [authServer |-> Server2, identity |-> Fresh(u2, u2)]}

\* The same server and user, with and without the keys.
MCKeyConfigs == {c \in MCConfigs : c.identity.user = u1}

\* One of them, where the configuration does not matter.
MCOneConfig == {[authServer |-> Server1, identity |-> Fresh(u1, u1)]}
=============================================================================
