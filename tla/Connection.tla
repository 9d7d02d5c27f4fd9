----------------------------- MODULE Connection -----------------------------
(****************************************************************************)
(* A connection (connection/api.rs): the handshake of connect() and         *)
(* accept(), the keepalive task each side then runs, the ways in which the  *)
(* connection ends, and the identifiers open_mani() and accept_mani() give  *)
(* to streams.                                                              *)
(*                                                                          *)
(* The control stream is QUIC's: what a side writes arrives in order, if it *)
(* arrives.  A message takes at most MaxDelay units of time, unless the     *)
(* network fails, and a timer fires at most MaxLate units late.  Timers hold*)
(* their distance from now, so time itself is no variable.                  *)
(*                                                                          *)
(* No code sends Close, Error or a Keepalive before a Hello, so the arms    *)
(* that receive them are not here.                                          *)
(****************************************************************************)
EXTENDS Integers, Sequences, FiniteSets, FiniteSetsExt, SequencesExt

CONSTANTS Types,             \* CompressionType
          None,              \* CompressionType::None
          Supported,         \* the server's supported_compression_types
          Configs,           \* what the client supports and speaks, and the
                             \* server's keepalive_interval
          KeepaliveTimeout,  \* keepalive_timeout of each side
          HandshakeTimeout,  \* handshake_timeout of each side
          Openers,           \* sides that open streams
          MayDrop,           \* whether applications drop a connection
          MayCut,            \* whether the network may fail
          MaxDelay,          \* bound: of the cut, per message
          MaxLate,           \* bound: of a timer
          MaxStreams         \* bound: streams a side opens

Sides == {"client", "server"}
Other(s) == IF s = "client" THEN "server" ELSE "client"

ASSUME ConnectionAssumption ==
    /\ None \in Types
    /\ Supported \in Seq(Types)
    /\ Configs \subseteq [offer : SUBSET Types, version : Nat, interval : Nat]
    /\ KeepaliveTimeout \in [Sides -> Nat]
    /\ HandshakeTimeout \in [Sides -> Nat]
    /\ Openers \subseteq Sides
    /\ {MayDrop, MayCut} \subseteq BOOLEAN
    /\ {MaxDelay, MaxLate} \subseteq Nat
    /\ MaxStreams \in [Configs -> Nat]

VARIABLES
    config,   \* the client's offer and version, the server's interval
    phase,    \* of each side: start, connecting, hello, up, failed
    agreed,   \* compression and keepalive interval each side works with
    quic,     \* the QUIC connection of each side, see Ended
    handle,   \* sides whose application holds the ProtofishConnection
    task,     \* keepalive_task: none, running, over
    ctl,      \* control messages of each side the other has yet to read
    stop,     \* STOP_SENDING for each side's writes: no, sent, arrived
    cut,      \* the network has failed, for good
    streams,  \* streams for which each side runs a ManiStreamTask
    shaking,  \* time each side has spent in its handshake
    wait,     \* until each side's next keepalive tick; negative when late
    quiet,    \* since keepalive activity, at most QuietCap
    idle      \* since QUIC received anything

cvars == <<config, phase, agreed, quic, handle, task, ctl, stop, cut,
           streams, shaking, wait, quiet, idle>>

clocks == <<shaking, wait, quiet, idle>>

Ended == {"closed",       \* close(), or the last handle dropped: code 0
          "timeout",      \* keepalive timeout: code 1
          "streamEnded",  \* control stream closed: code 2
          "lost",         \* the peer's close arrived
          "idle"}         \* QUIC's idle timeout

\* Mutant: one interval without an answer is too long.
PatienceInterval(s) == agreed[s].interval

Patience(s) == Max({KeepaliveTimeout[s], agreed[s].interval})

\* QUIC works with the smaller of the two sides' max_idle_timeout.
IdleTimeoutOf(s) == KeepaliveTimeout[s] * 3
QuicIdle == Min({IdleTimeoutOf("client"), IdleTimeoutOf("server")})

QuietBound(s) == Patience(s) + agreed[s].interval + MaxLate
QuietCap(s) == QuietBound(s) + 1

Msg(kind, body) == [kind |-> kind, body |-> body, age |-> 0]

\* Mutant: what is written when the other has stopped reading stays queued.
HeardStopped(s) == ~cut

\* Whether what s writes now will be read.
Heard(s) == stop[s] = "no" /\ ~cut
Write(q, s, m) == IF Heard(s) THEN [q EXCEPT ![s] = Append(@, m)] ELSE q

ConnectionInit ==
    /\ config \in Configs
    /\ phase = [s \in Sides |-> "start"]
    /\ agreed = [s \in Sides |-> [compression |-> None, interval |-> 0]]
    /\ quic = [s \in Sides |-> "none"]
    /\ handle = {}
    /\ task = [s \in Sides |-> "none"]
    /\ ctl = [s \in Sides |-> << >>]
    /\ stop = [s \in Sides |-> "no"]
    /\ cut = FALSE
    /\ streams = [s \in Sides |-> {}]
    /\ shaking = [s \in Sides |-> 0]
    /\ wait = [s \in Sides |-> 0]
    /\ quiet = [s \in Sides |-> 0]
    /\ idle = [s \in Sides |-> 0]

----------------------------------------------------------------------------
(* The handshake.                                                           *)

\* The next message for s, if it has arrived.
Arrived(s, kinds) ==
    /\ quic[s] = "open"
    /\ ~cut
    /\ ctl[Other(s)] # << >>
    /\ Head(ctl[Other(s)]).kind \in kinds

\* A keepalive task is over: both halves of the control stream are dropped,
\* which finishes the one and stops the other.
DropControl(s, written) ==
    /\ ctl' = [Write(written, s, Msg("Fin", << >>)) EXCEPT ![Other(s)] = << >>]
    /\ stop' = [stop EXCEPT ![Other(s)] = "sent"]

\* connect() and accept() return: keepalive_task is spawned, and is over at
\* once when the interval is zero.  said: the control stream by then.
BecomeUp(s, terms, said) ==
    /\ phase' = [phase EXCEPT ![s] = "up"]
    /\ agreed' = [agreed EXCEPT ![s] = terms]
    /\ handle' = handle \cup {s}
    /\ idle' = [idle EXCEPT ![s] = 0]
    /\ quiet' = [quiet EXCEPT ![s] = 0]
    /\ wait' = [wait EXCEPT ![s] = terms.interval]
    /\ IF terms.interval = 0
       THEN /\ task' = [task EXCEPT ![s] = "over"]
            /\ DropControl(s, said)
       ELSE /\ task' = [task EXCEPT ![s] = "running"]
            /\ ctl' = said
            /\ UNCHANGED stop

\* connect() and accept() fail: the connection is dropped, which closes it.
Fail(s) ==
    /\ phase' = [phase EXCEPT ![s] = "failed"]
    /\ quic' = [quic EXCEPT ![s] = IF @ = "open" THEN "closed" ELSE @]

Connect ==
    /\ phase["client"] = "start"
    /\ phase' = [phase EXCEPT !["client"] = "connecting"]
    /\ UNCHANGED <<config, agreed, quic, handle, task, ctl, stop, cut,
                   streams, clocks>>

\* The application calls accept() on an Incoming, however late.
Accept ==
    /\ phase["server"] = "start"
    /\ phase["client"] # "start"
    /\ phase' = [phase EXCEPT !["server"] = "connecting"]
    /\ UNCHANGED <<config, agreed, quic, handle, task, ctl, stop, cut,
                   streams, clocks>>

\* QUIC's own handshake is done; the client opens the control stream and
\* sends ClientHello.
SendClientHello ==
    /\ \A s \in Sides : phase[s] = "connecting"
    /\ ~cut
    /\ phase' = [phase EXCEPT !["client"] = "hello"]
    /\ quic' = [s \in Sides |-> "open"]
    /\ idle' = [s \in Sides |-> 0]
    /\ ctl' = Write(ctl, "client",
                    Msg("ClientHello", <<config.version, config.offer>>))
    /\ UNCHANGED <<config, agreed, handle, task, stop, cut, streams,
                   shaking, wait, quiet>>

\* The first type of the server's list that the client has, or None.
FirstCommon(offer, i) ==
    /\ Supported[i] \in offer
    /\ \A j \in 1 .. i - 1 : Supported[j] \notin offer

\* Mutant: the server's favourite, whatever the client has.
ChoiceAlone(offer) == IF Supported = << >> THEN None ELSE Supported[1]

Choice(offer) ==
    IF \E i \in DOMAIN Supported : FirstCommon(offer, i)
    THEN Supported[CHOOSE i \in DOMAIN Supported : FirstCommon(offer, i)]
    ELSE None

VersionAccepted(v) == v = 1

AnswerHello ==
    /\ phase["server"] = "connecting"
    /\ Arrived("server", {"ClientHello"})
    /\ LET hello == Head(ctl["client"]).body
           terms == [compression |-> Choice(hello[2]),
                     interval |-> config.interval]
           read  == [ctl EXCEPT !["client"] = Tail(@)]
       IN  IF VersionAccepted(hello[1])
           THEN /\ BecomeUp("server", terms,
                            Write(read, "server", Msg("ServerHello", terms)))
                /\ UNCHANGED quic
           ELSE /\ Fail("server")
                /\ ctl' = read
                /\ UNCHANGED <<agreed, handle, task, stop, wait, quiet, idle>>
    /\ UNCHANGED <<config, cut, streams, shaking>>

HearServerHello ==
    /\ phase["client"] = "hello"
    /\ Arrived("client", {"ServerHello"})
    /\ BecomeUp("client", Head(ctl["server"]).body,
                [ctl EXCEPT !["server"] = Tail(@)])
    /\ UNCHANGED <<config, quic, cut, streams, shaking>>

InHandshake(s) == phase[s] \in {"connecting", "hello"}

\* Mutant: no handshake_timeout.
GiveUpEnded(s) ==
    /\ InHandshake(s)
    /\ quic[s] \in Ended
    /\ Fail(s)
    /\ UNCHANGED <<config, agreed, handle, task, ctl, stop, cut, streams, clocks>>

\* The connection ended under the handshake, or handshake_timeout ran out.
GiveUpHandshake(s) ==
    /\ InHandshake(s)
    /\ quic[s] \in Ended \/ shaking[s] >= HandshakeTimeout[s]
    /\ Fail(s)
    /\ UNCHANGED <<config, agreed, handle, task, ctl, stop, cut, streams,
                   clocks>>

----------------------------------------------------------------------------
(* The keepalive task.                                                      *)

Working(s) == task[s] = "running" /\ quic[s] = "open"

\* It leaves its loop; the connection is closed only when code says so.
Leave(s, code, written) ==
    /\ task' = [task EXCEPT ![s] = "over"]
    /\ quic' = [quic EXCEPT ![s] = code]
    /\ DropControl(s, written)

\* Mutant: the heuristic of three intervals the timeout replaced.
TooQuietThrice(s) == quiet[s] > 3 * agreed[s].interval

TooQuiet(s) == quiet[s] > Patience(s)

\* A tick: missed ones follow at once.
KeepaliveTick(s) ==
    /\ Working(s)
    /\ wait[s] <= 0
    /\ wait' = [wait EXCEPT ![s] = @ + agreed[s].interval]
    /\ \/ /\ TooQuiet(s)
          /\ Leave(s, "timeout", ctl)
       \/ /\ ~TooQuiet(s)
          /\ stop[s] = "arrived"
          /\ Leave(s, "open", ctl)
       \/ /\ ~TooQuiet(s)
          /\ stop[s] # "arrived"
          /\ ctl' = Write(ctl, s, Msg("Keepalive", << >>))
          /\ UNCHANGED <<task, quic, stop>>
    /\ UNCHANGED <<config, phase, agreed, handle, cut, streams, shaking,
                   quiet, idle>>

\* Activity, and for a Keepalive the acknowledgement.
HearKeepalive(s) ==
    /\ task[s] = "running"
    /\ Arrived(s, {"Keepalive", "KeepaliveAck"})
    /\ LET read == [ctl EXCEPT ![Other(s)] = Tail(@)]
           acks == Head(ctl[Other(s)]).kind = "Keepalive"
       IN  IF acks /\ stop[s] = "arrived"
           THEN Leave(s, "open", read)
           ELSE /\ ctl' = IF acks THEN Write(read, s, Msg("KeepaliveAck", << >>))
                          ELSE read
                /\ UNCHANGED <<task, quic, stop>>
    /\ quiet' = [quiet EXCEPT ![s] = 0]
    /\ idle' = [idle EXCEPT ![s] = 0]
    /\ UNCHANGED <<config, phase, agreed, handle, cut, streams, shaking,
                   wait>>

\* The peer's half of the control stream is finished.
HearFin(s) ==
    /\ task[s] = "running"
    /\ Arrived(s, {"Fin"})
    /\ Leave(s, "streamEnded", [ctl EXCEPT ![Other(s)] = Tail(@)])
    /\ UNCHANGED <<config, phase, agreed, handle, cut, streams, clocks>>

\* The connection is gone: reading and writing both fail.
TaskFails(s) ==
    /\ task[s] = "running"
    /\ quic[s] \in Ended
    /\ task' = [task EXCEPT ![s] = "over"]
    /\ UNCHANGED <<config, phase, agreed, quic, handle, ctl, stop, cut,
                   streams, clocks>>

----------------------------------------------------------------------------
(* The application.                                                         *)

\* Drop aborts the keepalive task.  The router task and the streams' tasks
\* hold the QUIC connection, which stays open.
DropConnection(s) ==
    /\ MayDrop
    /\ s \in handle
    /\ handle' = handle \ {s}
    /\ IF task[s] = "running"
       THEN /\ task' = [task EXCEPT ![s] = "over"]
            /\ DropControl(s, ctl)
       ELSE UNCHANGED <<task, ctl, stop>>
    /\ UNCHANGED <<config, phase, agreed, quic, cut, streams, clocks>>

Close(s) ==
    /\ MayDrop
    /\ s \in handle
    /\ quic[s] = "open"
    /\ quic' = [quic EXCEPT ![s] = "closed"]
    /\ UNCHANGED <<config, phase, agreed, handle, task, ctl, stop, cut,
                   streams, clocks>>

OpenedBy(s) == {x \in streams[s] : x.opener = s}

\* The index of the QUIC stream: streams of either initiator count from zero,
\* and the client's first is the control stream.
ManiStreamId(s, n) == IF s = "client" THEN n + 1 ELSE n

OpenMani(s) ==
    /\ s \in handle \cap Openers
    /\ quic[s] = "open"
    /\ Cardinality(OpenedBy(s)) < MaxStreams[config]
    /\ streams' = [streams EXCEPT ![s] = @ \cup
                     {[opener |-> s,
                       id |-> ManiStreamId(s, Cardinality(OpenedBy(s)))]}]
    /\ UNCHANGED <<config, phase, agreed, quic, handle, task, ctl, stop,
                   cut, clocks>>

AcceptMani(s) ==
    /\ s \in handle
    /\ quic[s] = "open"
    /\ LET offered == OpenedBy(Other(s)) \ streams[s]
       IN  /\ offered # {}
           /\ streams' = [streams EXCEPT ![s] = @ \cup
                {CHOOSE x \in offered : \A y \in offered : x.id <= y.id}]
    /\ UNCHANGED <<config, phase, agreed, quic, handle, task, ctl, stop,
                   cut, clocks>>

----------------------------------------------------------------------------
(* QUIC and time.                                                           *)

StopArrives(s) ==
    /\ stop[s] = "sent"
    /\ quic[s] = "open"
    /\ ~cut
    /\ stop' = [stop EXCEPT ![s] = "arrived"]
    /\ idle' = [idle EXCEPT ![s] = 0]
    /\ UNCHANGED <<config, phase, agreed, quic, handle, task, ctl, cut,
                   streams, shaking, wait, quiet>>

\* The peer's close arrives: it may be lost as well.
LoseConnection(s) ==
    /\ quic[s] = "open"
    /\ quic[Other(s)] \in Ended \ {"idle"}
    /\ ~cut
    /\ quic' = [quic EXCEPT ![s] = "lost"]
    /\ UNCHANGED <<config, phase, agreed, handle, task, ctl, stop, cut,
                   streams, clocks>>

\* Mutant: the idle timeout is left to the keepalive task.
IdleOutTask(s) ==
    /\ Working(s)
    /\ idle[s] >= QuicIdle
    /\ quic' = [quic EXCEPT ![s] = "idle"]
    /\ UNCHANGED <<config, phase, agreed, handle, task, ctl, stop, cut, streams, clocks>>

IdleOut(s) ==
    /\ quic[s] = "open"
    /\ idle[s] >= QuicIdle
    /\ quic' = [quic EXCEPT ![s] = "idle"]
    /\ UNCHANGED <<config, phase, agreed, handle, task, ctl, stop, cut,
                   streams, clocks>>

\* Nothing arrives any more, what is under way included.
Cut ==
    /\ MayCut
    /\ ~cut
    /\ cut' = TRUE
    /\ ctl' = [s \in Sides |-> << >>]
    /\ UNCHANGED <<config, phase, agreed, quic, handle, task, stop, streams,
                   clocks>>

Reads(s) == InHandshake(s) \/ task[s] = "running"

\* What has to happen at s before more time may pass.
Due(s) ==
    \/ Working(s) /\ wait[s] <= -MaxLate
    \/ InHandshake(s) /\ shaking[s] >= HandshakeTimeout[s]
    \/ quic[s] = "open" /\ idle[s] >= QuicIdle
    \/ /\ Reads(s)
       /\ \A t \in Sides : quic[t] = "open"
       /\ ~cut
       /\ ctl[Other(s)] # << >>
       /\ Head(ctl[Other(s)]).age >= MaxDelay

Older(m) == [m EXCEPT !.age = Min({@ + 1, MaxDelay})]

TimePasses ==
    /\ \A s \in Sides : ~Due(s)
    /\ shaking' = [s \in Sides |->
                     IF InHandshake(s) THEN shaking[s] + 1 ELSE 0]
    /\ wait' = [s \in Sides |-> IF Working(s) THEN wait[s] - 1 ELSE 0]
    /\ quiet' = [s \in Sides |->
                   IF phase[s] = "up" /\ quic[s] = "open"
                   THEN Min({quiet[s] + 1, QuietCap(s)}) ELSE 0]
    /\ idle' = [s \in Sides |->
                  IF quic[s] = "open" THEN idle[s] + 1 ELSE 0]
    /\ ctl' = [s \in Sides |-> [i \in DOMAIN ctl[s] |-> Older(ctl[s][i])]]
    /\ UNCHANGED <<config, phase, agreed, quic, handle, task, stop, cut,
                   streams>>

Step(s) ==
    \/ GiveUpHandshake(s)
    \/ KeepaliveTick(s)
    \/ HearKeepalive(s)
    \/ HearFin(s)
    \/ TaskFails(s)
    \/ IdleOut(s)

ConnectionNext ==
    \/ Connect \/ Accept \/ SendClientHello \/ AnswerHello \/ HearServerHello
    \/ Cut \/ TimePasses
    \/ \E s \in Sides :
         \/ Step(s)
         \/ DropConnection(s) \/ Close(s) \/ OpenMani(s) \/ AcceptMani(s)
         \/ StopArrives(s) \/ LoseConnection(s)

ConnectionSpec == ConnectionInit /\ [][ConnectionNext]_cvars

\* The runtime runs what is ready and time goes on; nothing is assumed of the
\* applications, of the cut, or of the notices QUIC does not repeat.
FairConnectionSpec ==
    /\ ConnectionSpec
    /\ WF_cvars(TimePasses)
    /\ WF_cvars(AnswerHello)
    /\ WF_cvars(HearServerHello)
    /\ \A s \in Sides : WF_cvars(Step(s))

----------------------------------------------------------------------------
(* Properties.                                                              *)

Kinds == {"ClientHello", "ServerHello", "Keepalive", "KeepaliveAck", "Fin"}

\* The variables have the values their code can give them, and nothing waits
\* to be read where nobody reads any more.
ConnectionTypeOK ==
    /\ config \in Configs
    /\ phase \in [Sides -> {"start", "connecting", "hello", "up", "failed"}]
    /\ agreed \in [Sides -> [compression : Types, interval : Nat]]
    /\ quic \in [Sides -> Ended \cup {"none", "open"}]
    /\ handle \subseteq Sides
    /\ task \in [Sides -> {"none", "running", "over"}]
    /\ \A s \in Sides : \A i \in DOMAIN ctl[s] : ctl[s][i].kind \in Kinds
    /\ stop \in [Sides -> {"no", "sent", "arrived"}]
    /\ \A s \in Sides : stop[s] # "no" \/ cut => ctl[s] = << >>
    /\ shaking \in [Sides -> Nat]
    /\ wait \in [Sides -> Int]
    /\ quiet \in [Sides -> Nat]
    /\ idle \in [Sides -> Nat]

\* A client whose connect() succeeded has a server whose accept() did, and
\* the two work with the same interval and the same compression: the first of
\* the server's list the client has, None when there is none (api.rs:291-296).
HandshakeAgrees ==
    phase["client"] = "up" =>
        /\ phase["server"] = "up"
        /\ config.version = 1
        /\ agreed["client"] = agreed["server"]
        /\ LET c == agreed["client"].compression
               common == ToSet(Supported) \cap config.offer
           IN  IF common = {} THEN c = None
               ELSE /\ c \in common
                    /\ \A j \in DOMAIN Supported :
                         Supported[j] \in common => \E i \in 1 .. j : Supported[i] = c

\* While both applications hold the connection, neither has closed it and the
\* network works, the keepalives keep it open: no side takes the other for
\* dead, finds the control stream ended or lets QUIC idle out.  Without
\* keepalives QUIC does idle out.
HealthyStaysOpen ==
    (~cut /\ handle = Sides /\ \A s \in Sides : quic[s] # "closed") =>
        \A s \in Sides :
            /\ quic[s] \notin {"timeout", "streamEnded"}
            /\ quic[s] = "idle" => agreed[s].interval = 0

\* A keepalive task that runs on an open connection has heard of its peer
\* within keepalive_timeout and the interval between two looks at it
\* (api.rs:800-806), whatever the network does.
NoticedInTime ==
    \A s \in Sides : Working(s) => quiet[s] <= QuietBound(s)

\* Of the streams a side serves, no two have the same ManiStreamId, the key
\* under which the router finds a stream's channel (api.rs:671, 733).
UniqueStreamIds ==
    \A s \in Sides : \A x, y \in streams[s] : x.id = y.id => x = y

\* A connection the application holds is closed when there has been no
\* keepalive activity for keepalive_timeout, counted up to the next look at it
\* (config.rs:110-113).
InactivityCloses ==
    \A s \in handle :
        quic[s] = "open" /\ agreed[s].interval > 0 => quiet[s] <= QuietBound(s)

\* Every connect() and every accept() returns.
HandshakeEnds ==
    \A s \in Sides : InHandshake(s) ~> phase[s] \in {"up", "failed"}

\* When one side has failed in its handshake, dropped its connection or seen
\* it end, both connections end: none stays half open, and a dropped one is
\* not kept open for ever by the tasks that hold it.
Gone(s) ==
    \/ phase[s] = "failed"
    \/ phase[s] = "up" /\ s \notin handle
    \/ quic[s] \in Ended

GoneIsNoticed ==
    \A s \in Sides :
        (phase[s] = "up" /\ \E t \in Sides : Gone(t)) ~> quic[s] \in Ended
=============================================================================
