---------------------------- MODULE MCConnection ----------------------------
(* Configurations of the two sides for the runs of Connection.              *)
EXTENDS Connection

CONSTANTS none, gzip, zstd

\* The server prefers gzip.
ServerTypes == <<gzip, zstd, none>>

\* The interval is half of keepalive_timeout, about the default, in units of
\* about two seconds.
Timeouts == [client |-> 4, server |-> 4]
Handshakes == [client |-> 2, server |-> 2]

Client(offer, version, interval) ==
    [offer |-> offer, version |-> version, interval |-> interval]

Alive == {Client({zstd, none}, 1, 2)}

\* Lists that meet the server's last type or none of them, and a client of
\* another version; without keepalives.
Silent == {Client(o, 1, 0) : o \in {{none}, {}}}
              \cup {Client({none}, 2, 0)}

AllConfigs == Alive \cup Silent

\* Streams and keepalives do not meet: streams are opened where there are no
\* keepalives.
Streams == [c \in AllConfigs |->
              IF c.interval = 0 /\ c.offer = {none} THEN 1 ELSE 0]
=============================================================================
