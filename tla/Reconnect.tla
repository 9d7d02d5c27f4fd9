------------------------------ MODULE Reconnect ------------------------------
(****************************************************************************)
(* ReconnectingConnection (connection/reconnect.rs): open_mani() and        *)
(* accept_mani() keep trying to connect, and try again when the connection  *)
(* fails under them; subscribers are told of each new connection.           *)
(*                                                                          *)
(* The methods take &mut self, so one operation runs at a time: pc is where *)
(* it is.  The connection may fail, an operation be given up and a          *)
(* subscriber look or leave at any time.                                    *)
(****************************************************************************)
EXTENDS Integers, FiniteSets

CONSTANTS Subscribers,
          MaxRetries,      \* max_retries, or Forever
          Forever,
          InitialBackoff,  \* initial_backoff, max_backoff and the multiplier
          MaxBackoff,
          Multiplier,
          MaxConnections,  \* bound: connections established
          MaxFailures,     \* bound: attempts that fail in a row
          MaxCalls         \* bound: operations called

ASSUME ReconnectAssumption ==
    /\ MaxRetries \in Nat \cup {Forever}
    /\ Forever \notin Nat
    /\ {InitialBackoff, MaxBackoff, Multiplier} \subseteq Nat \ {0}
    /\ {MaxConnections, MaxFailures, MaxCalls} \subseteq Nat

VARIABLES
    pc,           \* idle, head, connecting, sleeping, stream, gone
    op,           \* connect, open or accept
    active,       \* active_connection is Some
    up,           \* and its QUIC connection has not failed
    retries,
    backoff,      \* current_backoff
    generation,   \* the value of reconnect_tx
    receivers,    \* subscribers with a live watch::Receiver
    seen,         \* the generation each of them saw last
    result,       \* of the last operation: none, ok, maxRetries
    established,  \* history: connections established
    looked,       \* history: established when a subscriber last looked
    inARow,       \* history: failed attempts since the last success or call
    calls

rcvars == <<pc, op, active, up, retries, backoff, generation, receivers, seen,
            result, established, looked, inARow, calls>>

connVars == <<active, up, generation, established>>
loopVars == <<retries, backoff, inARow>>
subVars  == <<receivers, seen, looked>>

\* connect() was called.
ReconnectInit ==
    /\ pc = "head"
    /\ op = "connect"
    /\ active = FALSE
    /\ up = FALSE
    /\ retries = 0
    /\ backoff = InitialBackoff
    /\ generation = 0
    /\ receivers = {}
    /\ seen = [s \in Subscribers |-> 0]
    /\ result = "none"
    /\ established = 0
    /\ looked = [s \in Subscribers |-> 0]
    /\ inARow = 0
    /\ calls = 0

\* Where an operation leaves the application: a connect() that does not
\* succeed leaves nothing behind.
After(r) == IF op = "connect" /\ r # "ok" THEN "gone" ELSE "idle"

Finish(r) ==
    /\ pc' = After(r)
    /\ result' = r

-----------------------------------------------------------------------------
(* The operations                                                           *)

Call(o) ==
    /\ pc = "idle"
    /\ calls < MaxCalls
    /\ calls' = calls + 1
    /\ op' = o
    /\ pc' = "head"
    /\ result' = "none"
    /\ inARow' = 0
    /\ UNCHANGED <<connVars, subVars, retries, backoff>>

\* The head of the loops of open_mani() and accept_mani(), and the beginning
\* of ensure_connected().
EnsureConnected ==
    /\ pc = "head"
    /\ IF active
       THEN pc' = "stream" /\ UNCHANGED <<retries, backoff>>
       ELSE /\ pc' = "connecting"
            /\ retries' = 0
            /\ backoff' = InitialBackoff
    /\ UNCHANGED <<op, connVars, subVars, result, inARow, calls>>

\* Mutant: the limit is tested against the retries made before the last.
OutOfRetriesLate == MaxRetries # Forever /\ retries > MaxRetries + 1

OutOfRetries == MaxRetries # Forever /\ retries > MaxRetries

GiveUp ==
    /\ pc = "connecting"
    /\ OutOfRetries
    /\ Finish("maxRetries")
    /\ UNCHANGED <<op, connVars, loopVars, subVars, calls>>

\* Mutant: only the first attempt of an operation announces a connection.
AnnouncedFirst ==
    IF receivers = {} \/ retries > 0 THEN generation ELSE generation + 1

\* watch::Sender::send() stores nothing when there is no receiver.
Announced == IF receivers = {} THEN generation ELSE generation + 1

ConnectOk ==
    /\ pc = "connecting"
    /\ ~OutOfRetries
    /\ established < MaxConnections
    /\ established' = established + 1
    /\ active' = TRUE
    /\ up' = TRUE
    /\ generation' = Announced
    /\ inARow' = 0
    /\ IF op = "connect" THEN Finish("ok") ELSE pc' = "stream" /\ UNCHANGED result
    /\ UNCHANGED <<op, subVars, retries, backoff, calls>>

ConnectFails ==
    /\ pc = "connecting"
    /\ ~OutOfRetries
    /\ inARow < MaxFailures
    /\ inARow' = inARow + 1
    /\ pc' = "sleeping"
    /\ UNCHANGED <<op, connVars, subVars, retries, backoff, result, calls>>

NextBackoff ==
    IF backoff * Multiplier <= MaxBackoff THEN backoff * Multiplier ELSE MaxBackoff

Sleep ==
    /\ pc = "sleeping"
    /\ retries' = retries + 1
    /\ backoff' = NextBackoff
    /\ pc' = "connecting"
    /\ UNCHANGED <<op, connVars, subVars, result, inARow, calls>>

\* open_bi() succeeds on a connection that has not failed; accept_bi() when
\* the peer opens a stream.
StreamOk ==
    /\ pc = "stream"
    /\ up
    /\ Finish("ok")
    /\ UNCHANGED <<op, connVars, loopVars, subVars, calls>>

\* Mutant: the connection that failed is kept.
StreamFailsKept ==
    /\ pc = "stream"
    /\ ~up
    /\ pc' = "head"
    /\ UNCHANGED <<op, connVars, loopVars, subVars, result, calls>>

StreamFails ==
    /\ pc = "stream"
    /\ ~up
    /\ active' = FALSE
    /\ pc' = "head"
    /\ UNCHANGED <<op, up, generation, established, loopVars, subVars, result, calls>>

\* The future of the operation is dropped at one of its awaits.
GivenUp ==
    /\ pc \in {"connecting", "sleeping", "stream"}
    /\ ~(pc = "connecting" /\ OutOfRetries)
    /\ Finish("none")
    /\ UNCHANGED <<op, connVars, loopVars, subVars, calls>>

\* The QUIC connection fails.
Break ==
    /\ up
    /\ up' = FALSE
    /\ UNCHANGED <<pc, op, active, generation, established, loopVars, subVars, result,
                   calls>>

-----------------------------------------------------------------------------
(* Subscribers: subscribe_reconnect() and the watch::Receiver it returns    *)

Look(s) ==
    /\ seen' = [seen EXCEPT ![s] = generation]
    /\ looked' = [looked EXCEPT ![s] = established]

Subscribe(s) ==
    /\ pc = "idle"
    /\ s \notin receivers
    /\ receivers' = receivers \cup {s}
    /\ Look(s)
    /\ UNCHANGED <<pc, op, connVars, loopVars, result, calls>>

\* changed() is ready, and borrow_and_update() reads the generation.
Notice(s) ==
    /\ s \in receivers
    /\ seen[s] # generation
    /\ Look(s)
    /\ UNCHANGED <<pc, op, connVars, loopVars, receivers, result, calls>>

Unsubscribe(s) ==
    /\ s \in receivers
    /\ receivers' = receivers \ {s}
    /\ UNCHANGED <<pc, op, connVars, loopVars, seen, looked, result, calls>>

-----------------------------------------------------------------------------
OpStep == EnsureConnected \/ GiveUp \/ ConnectOk \/ ConnectFails \/ Sleep
          \/ StreamFails \/ (op = "open" /\ StreamOk)

ReconnectNext ==
    \/ \E o \in {"open", "accept"} : Call(o)
    \/ OpStep
    \/ StreamOk
    \/ GivenUp
    \/ Break
    \/ \E s \in Subscribers : Subscribe(s) \/ Notice(s) \/ Unsubscribe(s)

ReconnectSpec == ReconnectInit /\ [][ReconnectNext]_rcvars

\* The runtime polls the operation, an attempt to connect ends, a sleep ends
\* and a subscriber looks; the peer need not open a stream to be accepted.
FairReconnectSpec ==
    /\ ReconnectSpec
    /\ WF_rcvars(OpStep)
    /\ \A s \in Subscribers : WF_rcvars(Notice(s))

-----------------------------------------------------------------------------
(* Properties                                                               *)

\* Every variable has its type; the delays keep to their limit.
ReconnectTypeOK ==
    /\ pc \in {"idle", "head", "connecting", "sleeping", "stream", "gone"}
    /\ op \in {"connect", "open", "accept"}
    /\ {active, up} \subseteq BOOLEAN
    /\ {retries, generation, established, inARow, calls} \subseteq Nat
    /\ backoff \in 1 .. MaxBackoff \/ backoff = InitialBackoff
    /\ receivers \subseteq Subscribers
    /\ {seen, looked} \subseteq [Subscribers -> Nat]
    /\ result \in {"none", "ok", "maxRetries"}

\* An operation gives up after the first attempt and max_retries more have
\* failed in a row, neither sooner nor later, and then no connection is kept.
RetriesExhausted ==
    /\ MaxRetries # Forever => inARow <= MaxRetries + 1
    /\ result = "maxRetries" => inARow = MaxRetries + 1 /\ ~active

\* A subscriber finds a change exactly when a connection was established that
\* it has not looked at, however many there were since.
SubscribersTold ==
    \A s \in receivers : seen[s] # generation <=> looked[s] # established

\* The generation counts the connections ("a monotonically increasing
\* generation counter starting at 1").
GenerationStartsAtOne == active => generation >= 1

\* open_mani() comes to an end, whatever connections fail under it: with a
\* stream, or with an error when it has no retries left.
OpenReturns == (op = "open" /\ pc = "head") ~> (pc = "idle")
=============================================================================
