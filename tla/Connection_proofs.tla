-------------------------- MODULE Connection_proofs --------------------------
(****************************************************************************)
(* Proofs about Connection: the types of its clocks and of what travels on  *)
(* the control stream, and NoticedInTime for every choice of the constants. *)
(****************************************************************************)
EXTENDS Connection, SequenceTheorems, WellFoundedInduction, TLAPS

Terms == [compression : Types, interval : Nat]

\* What each kind of message carries; none is under way for longer than
\* MaxDelay.
Message == {m \in [kind : Kinds, age : 0 .. MaxDelay,
                   body : Terms \cup {<< >>} \cup (Nat \X SUBSET Types)] :
              /\ m.kind = "ServerHello" => m.body \in Terms
              /\ m.kind = "ClientHello" => m.body \in Nat \X SUBSET Types}

\* The larger of two numbers is one of them, and neither is larger.
LEMMA MaxOfTwo ==
    ASSUME NEW a \in Nat, NEW b \in Nat
    PROVE  Max({a, b}) \in Nat /\ Max({a, b}) >= a /\ Max({a, b}) >= b
<1>1. \E x \in {a, b} : \A y \in {a, b} : x >= y
  <2>1. CASE a >= b  BY <2>1
  <2>2. CASE b >= a  BY <2>2
  <2>. QED  BY <2>1, <2>2
<1>. QED  BY <1>1 DEF Max

\* The compression chosen is one of the types.
LEMMA ChoiceType ==
    ASSUME NEW offer \in SUBSET Types
    PROVE  Choice(offer) \in Types
<1>1. \A i \in DOMAIN Supported : Supported[i] \in Types
  BY ConnectionAssumption DEF ConnectionAssumption
<1>2. CASE \E i \in DOMAIN Supported : FirstCommon(offer, i)
  <2>1. (CHOOSE i \in DOMAIN Supported : FirstCommon(offer, i)) \in DOMAIN Supported
    BY <1>2
  <2>. QED  BY <1>1, <1>2, <2>1 DEF Choice
<1>3. CASE ~ \E i \in DOMAIN Supported : FirstCommon(offer, i)
  BY <1>3, ConnectionAssumption DEF Choice, ConnectionAssumption
<1>. QED  BY <1>2, <1>3

\* The smaller of two numbers is one of them, and neither is smaller.
LEMMA MinOfTwo ==
    ASSUME NEW a \in Nat, NEW b \in Nat
    PROVE  /\ Min({a, b}) \in Nat /\ Min({a, b}) \in {a, b}
           /\ Min({a, b}) <= a /\ Min({a, b}) <= b
<1>1. \E x \in {a, b} : \A y \in {a, b} : x <= y
  <2>1. CASE a <= b  BY <2>1
  <2>2. CASE b <= a  BY <2>2
  <2>. QED  BY <2>1, <2>2
<1>. QED  BY <1>1 DEF Min

-----------------------------------------------------------------------------

Statuses ==
    /\ phase \in [Sides -> {"start", "connecting", "hello", "up", "failed"}]
    /\ quic \in [Sides -> Ended \cup {"none", "open"}]
    /\ handle \subseteq Sides
    /\ task \in [Sides -> {"none", "running", "over"}]
    /\ stop \in [Sides -> {"no", "sent", "arrived"}]
    /\ cut \in BOOLEAN

Clocks ==
    /\ shaking \in [Sides -> Nat]
    /\ wait \in [Sides -> Int]
    /\ quiet \in [Sides -> Nat]
    /\ idle \in [Sides -> Nat]

Agreements == config \in Configs /\ agreed \in [Sides -> Terms]

\* What is written is typed, and is dropped where nobody reads it.
Control ==
    /\ ctl \in [Sides -> Seq(Message)]
    /\ \A s \in Sides : stop[s] # "no" \/ cut => ctl[s] = << >>

\* A keepalive task runs on a connection that is up; its next tick is at most
\* an interval away and at most MaxLate overdue; and the silence at that tick
\* will be at most one interval more than keepalive_timeout.
Paced ==
    \A s \in Sides :
        /\ task[s] = "running" => phase[s] = "up"
        /\ Working(s) => /\ -MaxLate <= wait[s]
                         /\ wait[s] <= agreed[s].interval
                         /\ quiet[s] + wait[s] <= Patience(s) + agreed[s].interval

ConnectionInv == Statuses /\ Clocks /\ Agreements /\ Control /\ Paced

\* How long a side waits is a number, since the timeout and the interval are.
LEMMA PatienceType ==
    ASSUME agreed \in [Sides -> Terms], NEW s \in Sides
    PROVE  /\ Patience(s) \in Nat
           /\ agreed[s].interval \in Nat
           /\ QuietCap(s) \in Nat
<1>1. agreed[s].interval \in Nat /\ KeepaliveTimeout[s] \in Nat /\ MaxLate \in Nat
  BY ConnectionAssumption DEF ConnectionAssumption, Terms
<1>2. Patience(s) \in Nat
  BY <1>1, MaxOfTwo DEF Patience
<1>. QED  BY <1>1, <1>2 DEF QuietCap, QuietBound

LEMMA InvInit == ConnectionInit => ConnectionInv
<1> SUFFICES ASSUME ConnectionInit PROVE ConnectionInv
  OBVIOUS
<1>1. Statuses
  BY DEF ConnectionInit, Statuses, Ended
<1>2. Clocks
  BY DEF ConnectionInit, Clocks
<1>3. Agreements
  BY ConnectionAssumption DEF ConnectionInit, Agreements, Terms, ConnectionAssumption
<1>4. Control
  BY DEF ConnectionInit, Control
<1>5. Paced
  BY DEF ConnectionInit, Paced, Working
<1>. QED  BY <1>1, <1>2, <1>3, <1>4, <1>5 DEF ConnectionInv

\* The messages of the code are messages.
LEMMA MessageTypes ==
    /\ \A k \in {"Keepalive", "KeepaliveAck", "Fin"} : Msg(k, << >>) \in Message
    /\ \A t \in Terms : Msg("ServerHello", t) \in Message
    /\ \A v \in Nat, o \in SUBSET Types : Msg("ClientHello", <<v, o>>) \in Message
<1>1. 0 \in 0 .. MaxDelay
  BY ConnectionAssumption DEF ConnectionAssumption
<1>. QED  BY <1>1 DEF Msg, Message, Kinds

\* Reading and writing keep the control stream typed.
LEMMA ReadType ==
    ASSUME NEW q \in Seq(Message), q # << >>
    PROVE  Tail(q) \in Seq(Message) /\ Head(q) \in Message
OBVIOUS

LEMMA WriteType ==
    ASSUME NEW q \in [Sides -> Seq(Message)], NEW s \in Sides, NEW m \in Message,
           \A t \in Sides : stop[t] # "no" \/ cut => q[t] = << >>
    PROVE  /\ Write(q, s, m) \in [Sides -> Seq(Message)]
           /\ \A t \in Sides : stop[t] # "no" \/ cut => Write(q, s, m)[t] = << >>
<1>1. Append(q[s], m) \in Seq(Message)
  OBVIOUS
<1>. QED  BY <1>1 DEF Write, Heard

LEMMA Others ==
    ASSUME NEW s \in Sides
    PROVE  Other(s) \in Sides /\ Other(s) # s /\ \A t \in Sides : t = s \/ t = Other(s)
BY DEF Sides, Other
-----------------------------------------------------------------------------
(* What the steps share.                                                    *)

\* The end of a keepalive task, whatever it had read and written.
LEMMA DropControlKeeps ==
    ASSUME Statuses, NEW s \in Sides, NEW written \in [Sides -> Seq(Message)],
           \A t \in Sides : stop[t] # "no" \/ cut => written[t] = << >>,
           DropControl(s, written), cut' = cut
    PROVE  Control' /\ stop' \in [Sides -> {"no", "sent", "arrived"}]
<1>1. Msg("Fin", << >>) \in Message
  BY MessageTypes
<1>2. /\ Write(written, s, Msg("Fin", << >>)) \in [Sides -> Seq(Message)]
      /\ \A t \in Sides :
            stop[t] # "no" \/ cut => Write(written, s, Msg("Fin", << >>))[t] = << >>
  BY <1>1, WriteType
<1>3. stop' \in [Sides -> {"no", "sent", "arrived"}]
  BY Others DEF DropControl, Statuses
<1>4. ASSUME NEW t \in Sides, stop'[t] # "no" \/ cut' PROVE ctl'[t] = << >>
  BY <1>2, <1>4, Others DEF DropControl, Statuses
<1>5. << >> \in Seq(Message)
  OBVIOUS
<1>6. ctl' \in [Sides -> Seq(Message)]
  BY <1>2, <1>5 DEF DropControl
<1>. QED  BY <1>3, <1>4, <1>6 DEF Control

\* A connection that comes up.
LEMMA BecomeUpKeeps ==
    ASSUME ConnectionInv, NEW s \in Sides, NEW terms \in Terms,
           NEW said \in [Sides -> Seq(Message)],
           \A t \in Sides : stop[t] # "no" \/ cut => said[t] = << >>,
           BecomeUp(s, terms, said),
           UNCHANGED <<config, quic, cut, streams, shaking>>
    PROVE  ConnectionInv'
<1>. USE DEF ConnectionInv
<1>1. Control' /\ stop' \in [Sides -> {"no", "sent", "arrived"}]
  <2>1. CASE terms.interval = 0
    <3>1. DropControl(s, said) /\ cut' = cut
      BY <2>1 DEF BecomeUp
    <3>. QED  BY <3>1, DropControlKeeps
  <2>2. CASE terms.interval # 0
    BY <2>2 DEF BecomeUp, Control, Statuses
  <2>. QED  BY <2>1, <2>2
<1>2. Statuses'
  BY <1>1 DEF BecomeUp, Statuses
<1>3. terms.interval \in Nat
  BY DEF Terms
<1>4. Clocks'
  BY <1>3 DEF BecomeUp, Clocks
<1>5. Agreements'
  BY DEF BecomeUp, Agreements
<1>6. Paced'
  <2>1. ASSUME NEW t \in Sides, t # s
        PROVE  /\ agreed'[t] = agreed[t] /\ task'[t] = task[t] /\ phase'[t] = phase[t]
               /\ wait'[t] = wait[t] /\ quiet'[t] = quiet[t] /\ quic'[t] = quic[t]
    BY <2>1 DEF BecomeUp, Statuses, Clocks, Agreements
  <2>2. /\ agreed'[s] = terms /\ phase'[s] = "up"
        /\ wait'[s] = terms.interval /\ quiet'[s] = 0
    BY DEF BecomeUp, Statuses, Clocks, Agreements
  <2>3. Patience(s)' \in Nat /\ Patience(s)' >= 0
    <3>1. Max({KeepaliveTimeout[s], terms.interval}) \in Nat
      BY <1>3, MaxOfTwo, ConnectionAssumption DEF ConnectionAssumption
    <3>. QED  BY <2>2, <3>1 DEF Patience
  <2>4. MaxLate \in Nat
    BY ConnectionAssumption DEF ConnectionAssumption
  <2>5. /\ task'[s] = "running" => phase'[s] = "up"
        /\ -MaxLate <= wait'[s]
        /\ wait'[s] <= agreed'[s].interval
        /\ quiet'[s] + wait'[s] <= Patience(s)' + agreed'[s].interval
    BY <1>3, <2>2, <2>3, <2>4
  <2>6. ASSUME NEW t \in Sides, t # s
        PROVE  /\ task'[t] = "running" => phase'[t] = "up"
               /\ Working(t)' => /\ -MaxLate <= wait'[t]
                                 /\ wait'[t] <= agreed'[t].interval
                                 /\ quiet'[t] + wait'[t] <= Patience(t)' + agreed'[t].interval
    BY <2>1, <2>6 DEF Paced, Working, Patience
  <2>. QED  BY <2>5, <2>6 DEF Paced
<1>. QED  BY <1>1, <1>2, <1>4, <1>5, <1>6

\* A step that starts no task, sets no timer and agrees on nothing keeps the
\* pace of both tasks.
LEMMA PaceFrame ==
    ASSUME Paced, UNCHANGED <<agreed, wait, quiet>>,
           \A s \in Sides : /\ task'[s] = "running" => task[s] = "running"
                            /\ phase[s] = "up" => phase'[s] = "up"
                            /\ task[s] = "running" /\ quic'[s] = "open" => quic[s] = "open"
    PROVE  Paced'
BY DEF Paced, Working, Patience
-----------------------------------------------------------------------------
(* The handshake.                                                           *)

LEMMA ConnectKeeps ==
    ASSUME ConnectionInv, Connect \/ Accept
    PROVE  ConnectionInv'
<1>. USE DEF ConnectionInv, Connect, Accept, clocks
<1>1. Statuses'
  BY DEF Statuses
<1>2. Clocks' /\ Agreements' /\ Control'
  BY DEF Clocks, Agreements, Control
<1>3. Paced'
  BY PaceFrame DEF Statuses, Sides
<1>. QED  BY <1>1, <1>2, <1>3

LEMMA SendClientHelloKeeps ==
    ASSUME ConnectionInv, SendClientHello
    PROVE  ConnectionInv'
<1>. USE DEF ConnectionInv, SendClientHello
<1>1. Statuses'
  BY DEF Statuses, Ended, Sides
<1>2. Clocks' /\ Agreements'
  BY DEF Clocks, Agreements
<1>3. Control'
  <2>1. config.version \in Nat /\ config.offer \in SUBSET Types
    BY ConnectionAssumption DEF ConnectionAssumption, Agreements
  <2>2. Msg("ClientHello", <<config.version, config.offer>>) \in Message
    BY <2>1, MessageTypes
  <2>. QED  BY <2>2, WriteType DEF Control, Sides
<1>4. Paced'
  <2>1. \A s \in Sides : task[s] # "running"
    BY DEF Paced, Statuses, Sides
  <2>. QED  BY <2>1 DEF Paced, Working
<1>. QED  BY <1>1, <1>2, <1>3, <1>4

LEMMA FailKeeps ==
    ASSUME ConnectionInv, NEW s \in Sides, Fail(s), phase[s] # "up",
           UNCHANGED <<config, agreed, handle, task, stop, cut, clocks>>,
           Control'
    PROVE  ConnectionInv'
<1>. USE DEF ConnectionInv, Fail, clocks
<1>1. Statuses'
  BY DEF Statuses, Ended
<1>2. Clocks' /\ Agreements'
  BY DEF Clocks, Agreements
<1>3. Paced'
  BY PaceFrame DEF Statuses
<1>. QED  BY <1>1, <1>2, <1>3

LEMMA AnswerHelloKeeps ==
    ASSUME ConnectionInv, AnswerHello
    PROVE  ConnectionInv'
<1>. USE DEF ConnectionInv
<1> DEFINE hello == Head(ctl["client"]).body
           terms == [compression |-> Choice(hello[2]), interval |-> config.interval]
           read == [ctl EXCEPT !["client"] = Tail(@)]
           said == Write(read, "server", Msg("ServerHello", terms))
<1>1. /\ "client" \in Sides /\ "server" \in Sides /\ "server" # "client"
      /\ Other("server") = "client"
  BY DEF Sides, Other
<1>2. ctl["client"] # << >> /\ ctl["client"] \in Seq(Message) /\ ~cut
  BY <1>1 DEF AnswerHello, Arrived, Control
<1>3. read \in [Sides -> Seq(Message)]
  BY <1>1, <1>2, ReadType DEF Control
<1>4. \A t \in Sides : stop[t] # "no" \/ cut => read[t] = << >>
  BY <1>1, <1>2 DEF Control
<1>5. CASE VersionAccepted(hello[1])
  <2>1. Head(ctl["client"]) \in Message /\ Head(ctl["client"]).kind = "ClientHello"
    BY <1>1, <1>2, ReadType DEF AnswerHello, Arrived
  <2>2. hello[2] \in SUBSET Types
    BY <2>1 DEF Message
  <2>3. config.interval \in Nat
    BY ConnectionAssumption DEF ConnectionAssumption, Agreements
  <2>4. terms \in Terms
    BY <2>2, <2>3, ChoiceType DEF Terms
  <2>5. Msg("ServerHello", terms) \in Message
    BY <2>4, MessageTypes
  <2>6. /\ said \in [Sides -> Seq(Message)]
        /\ \A t \in Sides : stop[t] # "no" \/ cut => said[t] = << >>
    <3> HIDE DEF terms, read
    <3> QED BY <1>1, <1>3, <1>4, <2>5, WriteType
  <2>7. BecomeUp("server", terms, said) /\ UNCHANGED <<config, quic, cut, streams, shaking>>
    BY <1>5 DEF AnswerHello
  <2>. QED  BY ONLY <1>1, <2>4, <2>6, <2>7, BecomeUpKeeps, ConnectionInv
<1>6. CASE ~VersionAccepted(hello[1])
  <2>1. Fail("server") /\ ctl' = read /\ phase["server"] # "up"
        /\ UNCHANGED <<config, agreed, handle, task, stop, cut, clocks>>
    BY <1>6 DEF AnswerHello, clocks
  <2>2. Control'
    BY <1>3, <1>4, <2>1 DEF Control
  <2>. QED  BY <1>1, <2>1, <2>2, FailKeeps
<1>. QED  BY <1>5, <1>6
LEMMA HearServerHelloKeeps ==
    ASSUME ConnectionInv, HearServerHello
    PROVE  ConnectionInv'
<1> DEFINE said == [ctl EXCEPT !["server"] = Tail(@)]
<1>1. /\ "client" \in Sides /\ "server" \in Sides /\ Other("client") = "server"
  BY DEF Sides, Other
<1>2. /\ ctl["server"] # << >> /\ ctl["server"] \in Seq(Message) /\ ~cut
      /\ Head(ctl["server"]).kind = "ServerHello"
  BY <1>1 DEF HearServerHello, Arrived, ConnectionInv, Control
<1>3. Head(ctl["server"]).body \in Terms
  BY <1>2, ReadType DEF Message
<1>4. /\ said \in [Sides -> Seq(Message)]
      /\ \A t \in Sides : stop[t] # "no" \/ cut => said[t] = << >>
  BY <1>1, <1>2, ReadType DEF ConnectionInv, Control
<1>5. /\ BecomeUp("client", Head(ctl["server"]).body, said)
      /\ UNCHANGED <<config, quic, cut, streams, shaking>>
  BY DEF HearServerHello
<1>. QED  BY ONLY <1>1, <1>3, <1>4, <1>5, BecomeUpKeeps, ConnectionInv

LEMMA GiveUpHandshakeKeeps ==
    ASSUME ConnectionInv, NEW s \in Sides, GiveUpHandshake(s)
    PROVE  ConnectionInv'
<1>1. Control'
  BY DEF GiveUpHandshake, ConnectionInv, Control
<1>. QED  BY <1>1, FailKeeps DEF GiveUpHandshake, InHandshake

-----------------------------------------------------------------------------
(* The keepalive task.                                                      *)

\* A task that leaves its loop keeps the invariant, whatever else it had
\* read, if what it had read and written is in order.
LEMMA LeaveKeeps ==
    ASSUME ConnectionInv, NEW s \in Sides, NEW code \in Ended \cup {"open"},
           NEW written \in [Sides -> Seq(Message)], Working(s),
           \A t \in Sides : stop[t] # "no" \/ cut => written[t] = << >>,
           Leave(s, code, written), Clocks',
           \A t \in Sides \ {s} : wait'[t] = wait[t] /\ quiet'[t] = quiet[t],
           UNCHANGED <<config, phase, agreed, handle, cut>>
    PROVE  ConnectionInv'
<1>. USE DEF ConnectionInv
<1>1. DropControl(s, written)
  BY DEF Leave
<1>2. Control' /\ stop' \in [Sides -> {"no", "sent", "arrived"}]
  BY <1>1, DropControlKeeps
<1>3. Statuses'
  BY <1>2 DEF Leave, Statuses
<1>4. Agreements'
  BY DEF Agreements
<1>5. Paced'
  <2>1. task'[s] = "over"
    BY DEF Leave, Statuses
  <2>2. \A t \in Sides \ {s} : task'[t] = task[t] /\ quic'[t] = quic[t]
    BY DEF Leave, Statuses
  <2>. QED  BY <2>1, <2>2 DEF Paced, Working, Patience
<1>. QED  BY <1>2, <1>3, <1>4, <1>5

LEMMA KeepaliveTickKeeps ==
    ASSUME ConnectionInv, NEW s \in Sides, KeepaliveTick(s)
    PROVE  ConnectionInv'
<1>. USE DEF ConnectionInv
<1>1. agreed[s].interval \in Nat /\ Patience(s) \in Nat
  BY PatienceType DEF Agreements
<1>2. wait' = [wait EXCEPT ![s] = @ + agreed[s].interval] /\ quiet' = quiet
  BY DEF KeepaliveTick
<1>3. Clocks'
  BY <1>1, <1>2 DEF KeepaliveTick, Clocks
<1>4. \A t \in Sides \ {s} : wait'[t] = wait[t] /\ quiet'[t] = quiet[t]
  BY <1>2 DEF Clocks
<1>5. /\ ctl \in [Sides -> Seq(Message)]
      /\ \A t \in Sides : stop[t] # "no" \/ cut => ctl[t] = << >>
  BY DEF Control
<1>6. UNCHANGED <<config, phase, agreed, handle, cut>> /\ Working(s)
  BY DEF KeepaliveTick
<1>7. CASE Leave(s, "timeout", ctl) \/ Leave(s, "open", ctl)
  <2>1. "timeout" \in Ended \cup {"open"} /\ "open" \in Ended \cup {"open"}
    BY DEF Ended
  <2>. QED  BY ONLY <1>3, <1>4, <1>5, <1>6, <1>7, <2>1, LeaveKeeps, ConnectionInv, s \in Sides
<1>8. CASE /\ ~TooQuiet(s)
           /\ ctl' = Write(ctl, s, Msg("Keepalive", << >>))
           /\ UNCHANGED <<task, quic, stop>>
  <2>1. Control'
    BY <1>5, <1>6, <1>8, MessageTypes, WriteType DEF Control
  <2>2. Statuses' /\ Agreements'
    BY <1>6, <1>8 DEF Statuses, Agreements
  <2>3. Paced'
    <3>1. wait'[s] = wait[s] + agreed[s].interval /\ wait[s] <= 0 /\ wait[s] \in Int
      BY <1>2 DEF KeepaliveTick, Clocks
    <3>2. quiet[s] \in Nat /\ quiet[s] <= Patience(s)
      BY <1>1, <1>8 DEF TooQuiet, Clocks
    <3>3. -MaxLate <= wait[s] /\ MaxLate \in Nat
      BY <1>6, ConnectionAssumption DEF Paced, ConnectionAssumption
    <3>4. /\ -MaxLate <= wait'[s]
          /\ wait'[s] <= agreed[s].interval
          /\ quiet[s] + wait'[s] <= Patience(s) + agreed[s].interval
      BY <1>1, <3>1, <3>2, <3>3
    <3>. QED  BY <1>2, <1>4, <1>6, <1>8, <3>4 DEF Paced, Working, Patience
  <2>. QED  BY <1>3, <2>1, <2>2, <2>3
<1>. QED  BY <1>7, <1>8 DEF KeepaliveTick
\* What has arrived can be read.
LEMMA ArrivedRead ==
    ASSUME ConnectionInv, NEW s \in Sides, NEW kinds, Arrived(s, kinds)
    PROVE  LET read == [ctl EXCEPT ![Other(s)] = Tail(@)]
           IN  /\ read \in [Sides -> Seq(Message)]
               /\ \A t \in Sides : stop[t] # "no" \/ cut => read[t] = << >>
<1>1. ctl[Other(s)] # << >> /\ ctl[Other(s)] \in Seq(Message) /\ ~cut
  BY Others DEF Arrived, ConnectionInv, Control
<1>. QED  BY <1>1, Others, ReadType DEF ConnectionInv, Control

LEMMA HearKeepaliveKeeps ==
    ASSUME ConnectionInv, NEW s \in Sides, HearKeepalive(s)
    PROVE  ConnectionInv'
<1> DEFINE read == [ctl EXCEPT ![Other(s)] = Tail(@)]
           acks == Head(ctl[Other(s)]).kind = "Keepalive"
<1>1. /\ read \in [Sides -> Seq(Message)]
      /\ \A t \in Sides : stop[t] # "no" \/ cut => read[t] = << >>
  BY ArrivedRead DEF HearKeepalive
<1>2. Working(s) /\ UNCHANGED <<config, phase, agreed, handle, cut, wait>>
  BY DEF HearKeepalive, Working, Arrived
<1>3. Clocks' /\ quiet'[s] = 0 /\ \A t \in Sides \ {s} : quiet'[t] = quiet[t]
  BY DEF HearKeepalive, Clocks, ConnectionInv
<1>4. CASE Leave(s, "open", read)
  <2>1. "open" \in Ended \cup {"open"}
    OBVIOUS
  <2>2. \A t \in Sides \ {s} : wait'[t] = wait[t] /\ quiet'[t] = quiet[t]
    BY <1>2, <1>3
  <2>. QED  BY ONLY <1>1, <1>2, <1>3, <1>4, <2>1, <2>2, LeaveKeeps, ConnectionInv, s \in Sides
<1>5. CASE /\ ctl' = IF acks THEN Write(read, s, Msg("KeepaliveAck", << >>)) ELSE read
           /\ UNCHANGED <<task, quic, stop>>
  <2>1. Control'
    <3>1. Msg("KeepaliveAck", << >>) \in Message
      BY MessageTypes
    <3>2. /\ Write(read, s, Msg("KeepaliveAck", << >>)) \in [Sides -> Seq(Message)]
          /\ \A t \in Sides : stop[t] # "no" \/ cut =>
                Write(read, s, Msg("KeepaliveAck", << >>))[t] = << >>
      <4>. HIDE DEF read
      <4>. QED  BY <1>1, <3>1, WriteType
    <3>3. \/ ctl' = Write(read, s, Msg("KeepaliveAck", << >>))
          \/ ctl' = read
      BY <1>5
    <3>. QED  BY ONLY <1>1, <1>2, <1>5, <3>2, <3>3 DEF Control
  <2>2. Statuses' /\ Agreements'
    BY <1>2, <1>5 DEF Statuses, Agreements, ConnectionInv
  <2>3. Paced'
    <3>1. agreed[s].interval \in Nat /\ Patience(s) \in Nat
      BY PatienceType DEF ConnectionInv, Agreements
    <3>2. wait[s] \in Int /\ wait[s] <= agreed[s].interval
      BY <1>2 DEF ConnectionInv, Clocks, Paced
    <3>3. quiet'[s] + wait[s] <= Patience(s) + agreed[s].interval
      BY <1>3, <3>1, <3>2
    <3>. QED  BY <1>2, <1>3, <1>5, <3>3 DEF ConnectionInv, Paced, Working, Patience
  <2>. QED  BY <1>3, <2>1, <2>2, <2>3 DEF ConnectionInv
<1>. QED  BY <1>4, <1>5 DEF HearKeepalive

LEMMA HearFinKeeps ==
    ASSUME ConnectionInv, NEW s \in Sides, HearFin(s)
    PROVE  ConnectionInv'
<1> DEFINE read == [ctl EXCEPT ![Other(s)] = Tail(@)]
<1>1. /\ read \in [Sides -> Seq(Message)]
      /\ \A t \in Sides : stop[t] # "no" \/ cut => read[t] = << >>
  BY ArrivedRead DEF HearFin
<1>2. /\ Working(s)
      /\ UNCHANGED <<config, phase, agreed, handle, cut, clocks>>
      /\ Leave(s, "streamEnded", read)
  BY DEF HearFin, Working, Arrived
<1>3. Clocks' /\ \A t \in Sides \ {s} : wait'[t] = wait[t] /\ quiet'[t] = quiet[t]
  BY <1>2 DEF clocks, Clocks, ConnectionInv
<1>4. "streamEnded" \in Ended \cup {"open"}
  BY DEF Ended
<1>. QED  BY ONLY <1>1, <1>2, <1>3, <1>4, LeaveKeeps, ConnectionInv, s \in Sides

-----------------------------------------------------------------------------
(* Endings, streams and the network.                                        *)

\* A step that only ends tasks or connections.
LEMMA EndingKeeps ==
    ASSUME ConnectionInv, Statuses', Control', UNCHANGED <<config, agreed, clocks>>,
           \A s \in Sides : /\ task'[s] = "running" => task[s] = "running"
                            /\ phase[s] = "up" => phase'[s] = "up"
                            /\ task[s] = "running" /\ quic'[s] = "open" => quic[s] = "open"
    PROVE  ConnectionInv'
<1>1. Clocks' /\ Agreements'
  BY DEF ConnectionInv, Clocks, Agreements, clocks
<1>2. Paced'
  BY PaceFrame DEF ConnectionInv, clocks
<1>. QED  BY <1>1, <1>2 DEF ConnectionInv

LEMMA DropConnectionKeeps ==
    ASSUME ConnectionInv, NEW s \in Sides, DropConnection(s)
    PROVE  ConnectionInv'
<1>1. Control' /\ stop' \in [Sides -> {"no", "sent", "arrived"}]
  <2>1. CASE task[s] = "running"
    <3>1. DropControl(s, ctl) /\ cut' = cut
      BY <2>1 DEF DropConnection
    <3>. QED  BY <3>1, DropControlKeeps DEF ConnectionInv, Control
  <2>2. CASE task[s] # "running"
    BY <2>2 DEF DropConnection, ConnectionInv, Control, Statuses
  <2>. QED  BY <2>1, <2>2
<1>2. Statuses' /\ \A t \in Sides : task'[t] = "running" => task[t] = "running"
  BY <1>1 DEF DropConnection, ConnectionInv, Statuses
<1>. QED  BY <1>1, <1>2, EndingKeeps DEF DropConnection

LEMMA EndKeeps ==
    ASSUME ConnectionInv, NEW s \in Sides,
           \/ TaskFails(s) \/ Close(s) \/ LoseConnection(s) \/ IdleOut(s)
           \/ OpenMani(s) \/ AcceptMani(s)
    PROVE  ConnectionInv'
<1>. USE DEF TaskFails, Close, LoseConnection, IdleOut, OpenMani, AcceptMani
<1>1. UNCHANGED <<config, agreed, clocks, phase, ctl, stop, cut, handle>>
  OBVIOUS
<1>2. Control'
  BY <1>1 DEF ConnectionInv, Control
<1>3. Statuses'
  BY <1>1 DEF ConnectionInv, Statuses, Ended
<1>4. \A t \in Sides : /\ task'[t] = "running" => task[t] = "running"
                       /\ quic'[t] = "open" => quic[t] = "open"
  BY DEF ConnectionInv, Statuses
<1>. QED  BY ONLY <1>1, <1>2, <1>3, <1>4, EndingKeeps, ConnectionInv

LEMMA StopArrivesKeeps ==
    ASSUME ConnectionInv, NEW s \in Sides, StopArrives(s)
    PROVE  ConnectionInv'
<1>1. Statuses' /\ Clocks' /\ Agreements'
  BY DEF StopArrives, ConnectionInv, Statuses, Clocks, Agreements
<1>2. Control'
  BY DEF StopArrives, ConnectionInv, Control, Statuses
<1>3. Paced'
  BY PaceFrame DEF StopArrives, ConnectionInv
<1>. QED  BY <1>1, <1>2, <1>3 DEF ConnectionInv

LEMMA CutKeeps ==
    ASSUME ConnectionInv, Cut
    PROVE  ConnectionInv'
<1>1. Statuses'
  BY DEF Cut, ConnectionInv, Statuses
<1>2. << >> \in Seq(Message)
  OBVIOUS
<1>3. Control'
  BY <1>2 DEF Cut, Control
<1>. QED  BY <1>1, <1>3, EndingKeeps DEF Cut
-----------------------------------------------------------------------------
(* Time.                                                                    *)

LEMMA OlderType ==
    ASSUME NEW q \in Seq(Message)
    PROVE  [i \in DOMAIN q |-> Older(q[i])] \in Seq(Message)
<1>1. \A m \in Message : Older(m) \in Message
  <2> SUFFICES ASSUME NEW m \in Message PROVE Older(m) \in Message
    OBVIOUS
  <2>1. m.age + 1 \in Nat /\ MaxDelay \in Nat
    BY ConnectionAssumption DEF ConnectionAssumption, Message
  <2>2. Min({m.age + 1, MaxDelay}) \in 0 .. MaxDelay
    BY <2>1, MinOfTwo
  <2>. QED  BY <2>2 DEF Older, Message
<1>2. DOMAIN q = 1 .. Len(q) /\ Len(q) \in Nat /\ \A i \in DOMAIN q : q[i] \in Message
  OBVIOUS
<1>3. [i \in DOMAIN q |-> Older(q[i])] \in [1 .. Len(q) -> Message]
  BY <1>1, <1>2
<1>. QED  BY <1>2, <1>3, SeqDef

LEMMA TimePassesKeeps ==
    ASSUME ConnectionInv, TimePasses
    PROVE  ConnectionInv'
<1>. USE DEF ConnectionInv
<1>1. Statuses' /\ Agreements'
  BY DEF TimePasses, Statuses, Agreements
<1>2. ASSUME NEW s \in Sides
      PROVE  Min({quiet[s] + 1, QuietCap(s)}) \in Nat
             /\ Min({quiet[s] + 1, QuietCap(s)}) <= quiet[s] + 1
  <2>1. quiet[s] + 1 \in Nat /\ QuietCap(s) \in Nat
    BY PatienceType DEF Clocks, Agreements
  <2>. QED  BY <2>1, MinOfTwo
<1>3. Clocks'
  BY <1>2 DEF TimePasses, Clocks
<1>4. Control'
  <2>1. ctl' \in [Sides -> Seq(Message)]
    BY OlderType DEF TimePasses, Control
  <2>2. ASSUME NEW s \in Sides, stop'[s] # "no" \/ cut' PROVE ctl'[s] = << >>
    <3>1. ctl[s] = << >>
      BY <2>2 DEF TimePasses, Control
    <3>2. ctl'[s] \in Seq(Message) /\ DOMAIN ctl'[s] = {}
      BY <2>1, <3>1 DEF TimePasses
    <3>3. Len(ctl'[s]) = 0
      <4> DEFINE q == ctl'[s]
      <4>1. q \in Seq(Message) /\ DOMAIN q = {}
        BY <3>2
      <4> HIDE DEF q
      <4>2. DOMAIN q = 1 .. Len(q) /\ Len(q) \in Nat
        BY <4>1
      <4>3. Len(q) = 0
        BY <4>1, <4>2
      <4>. QED  BY <4>3 DEF q
    <3>. QED  BY <3>2, <3>3, EmptySeq
  <2>. QED  BY <2>1, <2>2 DEF Control
<1>5. Paced'
  <2>1. ASSUME NEW s \in Sides, Working(s)'
        PROVE  /\ -MaxLate <= wait'[s]
               /\ wait'[s] <= agreed'[s].interval
               /\ quiet'[s] + wait'[s] <= Patience(s)' + agreed'[s].interval
    <3>1. Working(s) /\ phase[s] = "up" /\ agreed'[s] = agreed[s]
      BY <2>1 DEF TimePasses, Working, Paced
    <3>2. /\ wait'[s] = wait[s] - 1
          /\ quiet'[s] = Min({quiet[s] + 1, QuietCap(s)})
      BY <3>1 DEF TimePasses, Working
    <3>3. ~Due(s)
      BY DEF TimePasses
    <3>4. ~(wait[s] <= -MaxLate)
      BY <3>1, <3>3 DEF Due
    <3>5. wait[s] \in Int /\ MaxLate \in Nat /\ quiet[s] \in Nat /\ quiet'[s] \in Nat
      BY <1>3, ConnectionAssumption DEF Clocks, ConnectionAssumption
    <3>6. agreed[s].interval \in Nat /\ Patience(s) \in Nat /\ Patience(s)' = Patience(s)
      BY <3>1, PatienceType DEF Agreements, Patience
    <3>7. wait[s] <= agreed[s].interval
          /\ quiet[s] + wait[s] <= Patience(s) + agreed[s].interval
      BY <3>1 DEF Paced
    <3>8. quiet'[s] <= quiet[s] + 1
      BY <1>2, <3>2
    <3>. QED  BY ONLY <3>1, <3>2, <3>4, <3>5, <3>6, <3>7, <3>8
  <2>2. \A s \in Sides : task'[s] = "running" => phase'[s] = "up"
    BY DEF TimePasses, Paced
  <2>. QED  BY <2>1, <2>2 DEF Paced
<1>. QED  BY <1>1, <1>3, <1>4, <1>5

-----------------------------------------------------------------------------
(* Theorems.                                                                *)

LEMMA NextKeeps == ConnectionInv /\ [ConnectionNext]_cvars => ConnectionInv'
<1> SUFFICES ASSUME ConnectionInv, [ConnectionNext]_cvars PROVE ConnectionInv'
  OBVIOUS
<1>1. CASE Connect \/ Accept  BY <1>1, ConnectKeeps
<1>2. CASE SendClientHello  BY <1>2, SendClientHelloKeeps
<1>3. CASE AnswerHello  BY <1>3, AnswerHelloKeeps
<1>4. CASE HearServerHello  BY <1>4, HearServerHelloKeeps
<1>5. CASE Cut  BY <1>5, CutKeeps
<1>6. CASE TimePasses  BY <1>6, TimePassesKeeps
<1>7. ASSUME NEW s \in Sides, Step(s) PROVE ConnectionInv'
  BY <1>7, GiveUpHandshakeKeeps, KeepaliveTickKeeps, HearKeepaliveKeeps, HearFinKeeps,
     EndKeeps DEF Step
<1>8. ASSUME NEW s \in Sides,
             \/ DropConnection(s) \/ Close(s) \/ OpenMani(s) \/ AcceptMani(s)
             \/ StopArrives(s) \/ LoseConnection(s)
      PROVE  ConnectionInv'
  BY <1>8, DropConnectionKeeps, EndKeeps, StopArrivesKeeps
<1>9. CASE UNCHANGED cvars
  <2>1. Statuses' /\ Clocks' /\ Agreements' /\ Control'
    BY <1>9 DEF cvars, ConnectionInv, Statuses, Clocks, Agreements, Control
  <2>2. Paced'
    BY <1>9 DEF cvars, ConnectionInv, Paced, Working, Patience
  <2>. QED  BY <2>1, <2>2 DEF ConnectionInv
<1>. QED
  BY <1>1, <1>2, <1>3, <1>4, <1>5, <1>6, <1>7, <1>8, <1>9 DEF ConnectionNext

\* The types of the connection's state (connection/api.rs), and that nothing
\* waits to be read where nobody reads any more.
THEOREM ConnectionTyped == ConnectionSpec => []ConnectionTypeOK
<1>1. ConnectionInv => ConnectionTypeOK
  <2> SUFFICES ASSUME ConnectionInv PROVE ConnectionTypeOK
    OBVIOUS
  <2>1. ASSUME NEW s \in Sides, NEW i \in DOMAIN ctl[s] PROVE ctl[s][i].kind \in Kinds
    <3>1. ctl[s] \in Seq(Message)
      BY DEF ConnectionInv, Control
    <3>2. ctl[s][i] \in Message
      BY <3>1
    <3>. QED  BY <3>2 DEF Message
  <2>2. /\ config \in Configs /\ agreed \in [Sides -> [compression : Types, interval : Nat]]
        /\ \A s \in Sides : stop[s] # "no" \/ cut => ctl[s] = << >>
    BY DEF ConnectionInv, Agreements, Control, Terms
  <2>. QED
    BY <2>1, <2>2 DEF ConnectionTypeOK, ConnectionInv, Statuses, Clocks
<1>. QED  BY <1>1, InvInit, NextKeeps, PTL DEF ConnectionSpec

\* However the network and the applications behave, a keepalive task that runs
\* has heard of its peer within keepalive_timeout, one interval and the
\* lateness of a timer (api.rs:785-840).
THEOREM NoticedInTimeHolds == ConnectionSpec => []NoticedInTime
<1>1. ConnectionInv => NoticedInTime
  <2> SUFFICES ASSUME ConnectionInv, NEW s \in Sides, Working(s)
               PROVE  quiet[s] <= QuietBound(s)
    BY DEF NoticedInTime
  <2>1. /\ quiet[s] \in Nat /\ wait[s] \in Int /\ MaxLate \in Nat
        /\ agreed[s].interval \in Nat /\ Patience(s) \in Nat
    BY PatienceType, ConnectionAssumption
       DEF ConnectionInv, Clocks, Agreements, ConnectionAssumption
  <2>2. -MaxLate <= wait[s] /\ quiet[s] + wait[s] <= Patience(s) + agreed[s].interval
    BY DEF ConnectionInv, Paced
  <2>. QED  BY <2>1, <2>2 DEF QuietBound
<1>. QED  BY <1>1, InvInit, NextKeeps, PTL DEF ConnectionSpec
-----------------------------------------------------------------------------
(* What the two sides agree on.                                             *)

\* What the server's answer to the hello holds, and both sides work with.
Answer == [compression |-> Choice(config.offer), interval |-> config.interval]

\* The hellos on the control stream are the ones written, and a side that is
\* up works with the server's answer.
HelloInv ==
    /\ \A i \in DOMAIN ctl["client"] :
         ctl["client"][i].kind = "ClientHello" =>
            ctl["client"][i].body = <<config.version, config.offer>>
    /\ \A i \in DOMAIN ctl["server"] :
         ctl["server"][i].kind = "ServerHello" =>
            ctl["server"][i].body = Answer /\ phase["server"] = "up"
    /\ \A s \in Sides : phase[s] = "up" => agreed[s] = Answer
    /\ phase["server"] = "up" => config.version = 1
    /\ phase["client"] = "up" => phase["server"] = "up"

\* What is on the control stream after a step was there before, or is a message
\* the step writes.
LEMMA WriteCarries ==
    ASSUME NEW q \in [Sides -> Seq(Message)], NEW s \in Sides, NEW m \in Message,
           NEW t \in Sides, NEW i \in DOMAIN Write(q, s, m)[t]
    PROVE  \/ i \in DOMAIN q[t] /\ Write(q, s, m)[t][i] = q[t][i]
           \/ t = s /\ Write(q, s, m)[t][i] = m
<1>1. CASE Write(q, s, m)[t] = q[t]
  BY <1>1
<1>2. CASE Write(q, s, m)[t] # q[t]
  <2>1. t = s /\ Write(q, s, m)[t] = Append(q[s], m)
    BY <1>2 DEF Write
  <2>2. q[s] \in Seq(Message)
    OBVIOUS
  <2>. QED  BY <2>1, <2>2
<1>. QED  BY <1>1, <1>2

LEMMA TailCarries ==
    ASSUME NEW q \in Seq(Message), q # << >>, NEW i \in DOMAIN Tail(q)
    PROVE  i + 1 \in DOMAIN q /\ Tail(q)[i] = q[i + 1]
OBVIOUS

Beats == {"Keepalive", "KeepaliveAck", "Fin"}

\* Every message after a step was there before, or is no hello.
NoNewHello ==
    \A s \in Sides : \A i \in DOMAIN ctl'[s] :
        \/ \E j \in DOMAIN ctl[s] : /\ ctl'[s][i].kind = ctl[s][j].kind
                                    /\ ctl'[s][i].body = ctl[s][j].body
        \/ ctl'[s][i].kind \in Beats

LEMMA SameMessages ==
    ASSUME ctl' = ctl
    PROVE  NoNewHello
BY DEF NoNewHello

\* Reading and then writing what is no hello.
LEMMA NoNewHelloWrite ==
    ASSUME NEW q \in [Sides -> Seq(Message)], NEW s \in Sides,
           NEW m \in Message, m.kind \in Beats,
           \A t \in Sides : \A i \in DOMAIN q[t] :
              \E j \in DOMAIN ctl[t] : q[t][i] = ctl[t][j],
           \A t \in Sides : ctl'[t] = Write(q, s, m)[t] \/ ctl'[t] = q[t] \/ ctl'[t] = << >>
    PROVE  NoNewHello
<1> SUFFICES ASSUME NEW t \in Sides, NEW i \in DOMAIN ctl'[t]
             PROVE  \/ \E j \in DOMAIN ctl[t] : /\ ctl'[t][i].kind = ctl[t][j].kind
                                                /\ ctl'[t][i].body = ctl[t][j].body
                    \/ ctl'[t][i].kind \in Beats
  BY DEF NoNewHello
<1>1. CASE ctl'[t] = Write(q, s, m)[t]
  <2>1. i \in DOMAIN Write(q, s, m)[t] /\ ctl'[t][i] = Write(q, s, m)[t][i]
    BY <1>1
  <2>2. \/ i \in DOMAIN q[t] /\ Write(q, s, m)[t][i] = q[t][i]
        \/ Write(q, s, m)[t][i] = m
    BY <2>1, WriteCarries
  <2>. QED  BY <2>1, <2>2
<1>2. CASE ctl'[t] = q[t]
  <2>1. i \in DOMAIN q[t] /\ ctl'[t][i] = q[t][i]
    BY <1>2
  <2>2. PICK j \in DOMAIN ctl[t] : q[t][i] = ctl[t][j]
    BY <2>1
  <2>. QED  BY <2>1, <2>2
<1>3. CASE ctl'[t] = << >>
  BY <1>3
<1>. QED  BY <1>1, <1>2, <1>3

\* The same, read first.
LEMMA ReadCarries ==
    ASSUME ConnectionInv, NEW s \in Sides, ctl[Other(s)] # << >>
    PROVE  LET read == [ctl EXCEPT ![Other(s)] = Tail(@)]
           IN  \A t \in Sides : \A i \in DOMAIN read[t] :
                  \E j \in DOMAIN ctl[t] : read[t][i] = ctl[t][j]
<1> DEFINE read == [ctl EXCEPT ![Other(s)] = Tail(@)]
<1>1. Other(s) \in Sides /\ ctl \in [Sides -> Seq(Message)]
  BY Others DEF ConnectionInv, Control
<1>2. ASSUME NEW t \in Sides, NEW i \in DOMAIN read[t]
      PROVE  \E j \in DOMAIN ctl[t] : read[t][i] = ctl[t][j]
  <2>1. CASE t = Other(s)
    <3>1. read[t] = Tail(ctl[t]) /\ ctl[t] \in Seq(Message) /\ ctl[t] # << >>
      BY <1>1, <2>1
    <3>. QED  BY <1>2, <3>1, TailCarries
  <2>2. CASE t # Other(s)
    BY <1>1, <1>2, <2>2
  <2>. QED  BY <2>1, <2>2
<1>. QED  BY <1>2

\* A step that writes no hello, and lets no side come up.
LEMMA HelloFrame ==
    ASSUME HelloInv, NoNewHello, UNCHANGED <<config, agreed>>,
           \A s \in Sides : phase'[s] = "up" <=> phase[s] = "up"
    PROVE  HelloInv'
<1>1. "client" \in Sides /\ "server" \in Sides
  BY DEF Sides
<1>2. Answer' = Answer
  BY DEF Answer, Choice, FirstCommon
<1>3. \A i \in DOMAIN ctl'["client"] :
        ctl'["client"][i].kind = "ClientHello" =>
           ctl'["client"][i].body = <<config.version, config.offer>>
  BY <1>1 DEF HelloInv, NoNewHello, Beats
<1>4. \A i \in DOMAIN ctl'["server"] :
        ctl'["server"][i].kind = "ServerHello" =>
           ctl'["server"][i].body = Answer /\ phase'["server"] = "up"
  BY <1>1 DEF HelloInv, NoNewHello, Beats
<1>. QED  BY <1>1, <1>2, <1>3, <1>4 DEF HelloInv

\* The end of a keepalive task writes no hello.
LEMMA DropControlHello ==
    ASSUME NEW q \in [Sides -> Seq(Message)], NEW s \in Sides, DropControl(s, q),
           \A t \in Sides : \A i \in DOMAIN q[t] :
              \E j \in DOMAIN ctl[t] : q[t][i] = ctl[t][j]
    PROVE  NoNewHello
<1> DEFINE m == Msg("Fin", << >>)
<1>1. m \in Message /\ m.kind \in Beats
  BY MessageTypes DEF Msg, Beats
<1>2. Write(q, s, m) \in [Sides -> Seq(Message)]
  <2>1. Append(q[s], m) \in Seq(Message)
    BY <1>1
  <2>. QED  BY <2>1 DEF Write
<1>3. \A t \in Sides : ctl'[t] = Write(q, s, m)[t] \/ ctl'[t] = << >>
  BY <1>2 DEF DropControl
<1>. HIDE DEF m
<1>. QED  BY <1>1, <1>3, NoNewHelloWrite

\* What was on the control stream is on it.
LEMMA ItselfCarries ==
    \A t \in Sides : \A i \in DOMAIN ctl[t] : \E j \in DOMAIN ctl[t] : ctl[t][i] = ctl[t][j]
OBVIOUS

LEMMA QuietStepHello ==
    ASSUME ConnectionInv, NEW s \in Sides, Step(s) \/ DropConnection(s)
    PROVE  NoNewHello
<1>1. ctl \in [Sides -> Seq(Message)]
  BY DEF ConnectionInv, Control
<1> DEFINE read == [ctl EXCEPT ![Other(s)] = Tail(@)]
<1>2. ASSUME ctl[Other(s)] # << >>
      PROVE  /\ read \in [Sides -> Seq(Message)]
             /\ \A t \in Sides : \A i \in DOMAIN read[t] :
                   \E j \in DOMAIN ctl[t] : read[t][i] = ctl[t][j]
  <2>1. read \in [Sides -> Seq(Message)]
    <3>1. Tail(ctl[Other(s)]) \in Seq(Message)
      BY <1>1, <1>2, Others, ReadType
    <3>. QED  BY <1>1, <3>1
  <2>. QED  BY <1>2, <2>1, ReadCarries
<1>3. CASE ctl' = ctl
  BY <1>3, SameMessages
<1>4. CASE DropControl(s, ctl)
  BY <1>1, <1>4, ItselfCarries, DropControlHello
<1>5. CASE ctl[Other(s)] # << >> /\ DropControl(s, read)
  <2>. HIDE DEF read
  <2>. QED  BY <1>2, <1>5, DropControlHello
<1>6. CASE ctl[Other(s)] # << >> /\ ctl' = read
  BY <1>2, <1>6 DEF NoNewHello
<1>7. CASE ctl[Other(s)] # << >> /\ ctl' = Write(read, s, Msg("KeepaliveAck", << >>))
  <2>1. Msg("KeepaliveAck", << >>) \in Message /\ Msg("KeepaliveAck", << >>).kind \in Beats
    BY MessageTypes DEF Msg, Beats
  <2>2. \A t \in Sides : ctl'[t] = Write(read, s, Msg("KeepaliveAck", << >>))[t]
    BY <1>7
  <2>. HIDE DEF read
  <2>. QED  BY <1>2, <1>7, <2>1, <2>2, NoNewHelloWrite
<1>8. CASE ctl' = Write(ctl, s, Msg("Keepalive", << >>))
  <2>1. Msg("Keepalive", << >>) \in Message /\ Msg("Keepalive", << >>).kind \in Beats
    BY MessageTypes DEF Msg, Beats
  <2>2. \A t \in Sides : ctl'[t] = Write(ctl, s, Msg("Keepalive", << >>))[t]
    BY <1>8
  <2>. QED  BY <1>1, <2>1, <2>2, ItselfCarries, NoNewHelloWrite
<1>9. CASE GiveUpHandshake(s) \/ TaskFails(s) \/ IdleOut(s)
  BY <1>3, <1>9 DEF GiveUpHandshake, TaskFails, IdleOut
<1>10. CASE KeepaliveTick(s)
  BY <1>4, <1>8, <1>10 DEF KeepaliveTick, Leave
<1>11. CASE HearKeepalive(s)
  BY <1>5, <1>6, <1>7, <1>11 DEF HearKeepalive, Leave, Arrived
<1>12. CASE HearFin(s)
  BY <1>5, <1>12 DEF HearFin, Leave, Arrived
<1>13. CASE DropConnection(s)
  BY <1>3, <1>4, <1>13 DEF DropConnection
<1>. QED  BY <1>9, <1>10, <1>11, <1>12, <1>13 DEF Step

LEMMA TimeHello ==
    ASSUME ConnectionInv, TimePasses
    PROVE  NoNewHello
<1> SUFFICES ASSUME NEW s \in Sides, NEW i \in DOMAIN ctl'[s]
             PROVE  \E j \in DOMAIN ctl[s] : /\ ctl'[s][i].kind = ctl[s][j].kind
                                             /\ ctl'[s][i].body = ctl[s][j].body
  BY DEF NoNewHello
<1>1. ctl[s] \in Seq(Message)
  BY DEF ConnectionInv, Control
<1>2. i \in DOMAIN ctl[s] /\ ctl'[s][i] = Older(ctl[s][i])
  BY DEF TimePasses
<1>3. ctl[s][i] \in Message
  BY <1>1, <1>2
<1>4. Older(ctl[s][i]).kind = ctl[s][i].kind /\ Older(ctl[s][i]).body = ctl[s][i].body
  BY <1>3 DEF Older, Message
<1>. QED  BY <1>2, <1>4

LEMMA SendClientHelloHello ==
    ASSUME ConnectionInv, HelloInv, SendClientHello
    PROVE  HelloInv'
<1> DEFINE m == Msg("ClientHello", <<config.version, config.offer>>)
<1>1. "client" \in Sides /\ "server" \in Sides /\ "client" # "server"
  BY DEF Sides
<1>2. /\ config' = config /\ ctl' = Write(ctl, "client", m)
      /\ phase["server"] = "connecting"
      /\ phase'["server"] # "up" /\ phase'["client"] # "up"
  BY <1>1 DEF SendClientHello, ConnectionInv, Statuses
<1>3. m \in Message /\ m.kind = "ClientHello" /\ m.body = <<config.version, config.offer>>
  <2>1. config.version \in Nat /\ config.offer \in SUBSET Types
    BY ConnectionAssumption DEF ConnectionAssumption, ConnectionInv, Agreements
  <2>. QED  BY <2>1, MessageTypes DEF Msg
<1>. HIDE DEF m
<1>4. ctl \in [Sides -> Seq(Message)]
  BY DEF ConnectionInv, Control
<1>5. ASSUME NEW i \in DOMAIN ctl'["client"], ctl'["client"][i].kind = "ClientHello"
      PROVE  ctl'["client"][i].body = <<config.version, config.offer>>
  <2>1. \/ i \in DOMAIN ctl["client"] /\ ctl'["client"][i] = ctl["client"][i]
        \/ ctl'["client"][i] = m
    BY <1>1, <1>2, <1>3, <1>4, <1>5, WriteCarries
  <2>. QED  BY <1>3, <1>5, <2>1 DEF HelloInv
<1>6. ASSUME NEW i \in DOMAIN ctl'["server"]
      PROVE  ctl'["server"][i].kind # "ServerHello"
  <2>1. i \in DOMAIN ctl["server"] /\ ctl'["server"][i] = ctl["server"][i]
    BY <1>1, <1>2, <1>3, <1>4, <1>6, WriteCarries
  <2>. QED  BY <1>2, <2>1 DEF HelloInv
<1>7. \A s \in Sides : phase'[s] # "up"
  BY <1>2 DEF Sides
<1>. QED  BY <1>2, <1>5, <1>6, <1>7 DEF HelloInv

LEMMA AnswerHelloHello ==
    ASSUME ConnectionInv, HelloInv, AnswerHello
    PROVE  HelloInv'
<1> DEFINE h == Head(ctl["client"])
           terms == [compression |-> Choice(h.body[2]), interval |-> config.interval]
           read == [ctl EXCEPT !["client"] = Tail(@)]
           hello == Msg("ServerHello", terms)
           said == Write(read, "server", hello)
           fin == Msg("Fin", << >>)
<1>1. /\ "client" \in Sides /\ "server" \in Sides /\ "client" # "server"
      /\ Other("server") = "client"
  BY DEF Sides, Other
<1>2. /\ ctl \in [Sides -> Seq(Message)] /\ ctl["client"] # << >> /\ h.kind = "ClientHello"
      /\ phase["server"] = "connecting" /\ config' = config
  BY <1>1 DEF AnswerHello, Arrived, ConnectionInv, Control
<1>3. h.body = <<config.version, config.offer>>
  <2>1. 1 \in DOMAIN ctl["client"] /\ h = ctl["client"][1]
    BY <1>1, <1>2
  <2>. QED  BY <1>2, <2>1 DEF HelloInv
<1>4. terms = Answer /\ Answer' = Answer
  <2>1. h.body[2] = config.offer
    BY <1>3
  <2>2. config' = config
    BY <1>2
  <2>3. Answer' = Answer
    BY ONLY <2>2 DEF Answer, Choice, FirstCommon
  <2>. QED  BY <2>1, <2>3 DEF Answer
<1>5. phase["client"] # "up"
  BY <1>2 DEF HelloInv
<1>6. /\ read \in [Sides -> Seq(Message)]
      /\ \A t \in Sides : \A i \in DOMAIN read[t] :
            \E j \in DOMAIN ctl[t] : read[t][i] = ctl[t][j]
  <2>1. Tail(ctl["client"]) \in Seq(Message)
    BY <1>1, <1>2, ReadType
  <2>2. read = [ctl EXCEPT ![Other("server")] = Tail(@)]
    BY <1>1
  <2>3. \A t \in Sides : \A i \in DOMAIN read[t] : \E j \in DOMAIN ctl[t] : read[t][i] = ctl[t][j]
    <3>. HIDE DEF read
    <3>. QED  BY <1>1, <1>2, <2>2, ReadCarries
  <2>. QED  BY <1>1, <1>2, <2>1, <2>3
<1>7. CASE VersionAccepted(h.body[1])
  <2>1. config.version = 1
    BY <1>3, <1>7 DEF VersionAccepted
  <2>2. /\ phase'["server"] = "up" /\ agreed'["server"] = terms
        /\ phase'["client"] = phase["client"]
        /\ IF terms.interval = 0 THEN DropControl("server", said) ELSE ctl' = said
    BY <1>1, <1>7 DEF AnswerHello, BecomeUp, ConnectionInv, Statuses, Agreements
  <2>3. hello \in Message /\ hello.kind = "ServerHello" /\ hello.body = Answer
    <3>1. config.offer \in SUBSET Types /\ config.interval \in Nat
      BY ConnectionAssumption DEF ConnectionAssumption, ConnectionInv, Agreements
    <3>2. Answer \in Terms
      BY <3>1, ChoiceType DEF Answer, Terms
    <3>. QED  BY <1>4, <3>2, MessageTypes DEF Msg
  <2>4. fin \in Message /\ fin.kind = "Fin"
    BY MessageTypes DEF Msg
  <2>. HIDE DEF fin, hello, read, h
  <2>5. said \in [Sides -> Seq(Message)]
    <3>1. Append(read["server"], hello) \in Seq(Message)
      BY <1>1, <1>6, <2>3
    <3>. QED  BY <1>6, <3>1 DEF Write
  <2>6. ASSUME NEW t \in Sides, NEW i \in DOMAIN said[t]
        PROVE  \/ \E j \in DOMAIN ctl[t] : said[t][i] = ctl[t][j]
               \/ t = "server" /\ said[t][i] = hello
    <3>1. \/ i \in DOMAIN read[t] /\ said[t][i] = read[t][i]
          \/ t = "server" /\ said[t][i] = hello
      BY <1>1, <1>6, <2>3, WriteCarries
    <3>. QED  BY <1>6, <3>1
  <2>. HIDE DEF said
  <2>7. ASSUME NEW t \in Sides, NEW i \in DOMAIN ctl'[t]
        PROVE  \/ \E j \in DOMAIN ctl[t] : ctl'[t][i] = ctl[t][j]
               \/ t = "server" /\ ctl'[t][i] = hello
               \/ ctl'[t][i].kind = "Fin"
    <3>1. CASE DropControl("server", said)
      <4>1. ctl' = [Write(said, "server", fin) EXCEPT !["client"] = << >>]
        BY <1>1, <3>1 DEF DropControl, fin
      <4>2. Write(said, "server", fin) \in [Sides -> Seq(Message)]
        <5>1. Append(said["server"], fin) \in Seq(Message)
          BY <1>1, <2>4, <2>5
        <5>. QED  BY <2>5, <5>1 DEF Write
      <4>3. ctl'[t] = Write(said, "server", fin)[t]
        BY <2>7, <4>1, <4>2
      <4>4. i \in DOMAIN Write(said, "server", fin)[t]
        BY <4>3
      <4>5. \/ /\ i \in DOMAIN said[t]
               /\ Write(said, "server", fin)[t][i] = said[t][i]
            \/ Write(said, "server", fin)[t][i] = fin
        <5>1. "server" \in Sides
          BY DEF Sides
        <5>. QED  BY ONLY <2>4, <2>5, <2>7, <4>4, <5>1, WriteCarries
      <4>6. CASE i \in DOMAIN said[t] /\ ctl'[t][i] = said[t][i]
        BY <2>6, <4>6
      <4>7. CASE ctl'[t][i] = fin
        BY <2>4, <4>7
      <4>. QED  BY ONLY <4>3, <4>5, <4>6, <4>7
    <3>2. CASE ctl' = said
      BY <2>6, <3>2
    <3>. QED  BY <2>2, <3>1, <3>2
  <2>8. ASSUME NEW i \in DOMAIN ctl'["client"], ctl'["client"][i].kind = "ClientHello"
        PROVE  ctl'["client"][i].body = <<config.version, config.offer>>
    <3>1. PICK j \in DOMAIN ctl["client"] : ctl'["client"][i] = ctl["client"][j]
      BY <1>1, <2>7, <2>8
    <3>. QED  BY <2>8, <3>1 DEF HelloInv
  <2>9. ASSUME NEW i \in DOMAIN ctl'["server"], ctl'["server"][i].kind = "ServerHello"
        PROVE  ctl'["server"][i].body = Answer
    <3>1. \/ \E j \in DOMAIN ctl["server"] : ctl'["server"][i] = ctl["server"][j]
          \/ ctl'["server"][i] = hello
      BY <1>1, <2>7, <2>9
    <3>. QED  BY <1>2, <2>3, <2>9, <3>1 DEF HelloInv
  <2>10. \A s \in Sides : phase'[s] = "up" => agreed'[s] = Answer
    BY <1>4, <1>5, <2>2 DEF Sides
  <2>. QED  BY <1>2, <1>4, <1>5, <2>1, <2>2, <2>8, <2>9, <2>10 DEF HelloInv
<1>8. CASE ~VersionAccepted(h.body[1])
  <2>1. /\ ctl' = read /\ UNCHANGED <<config, agreed>>
        /\ Fail("server")
    BY <1>8 DEF AnswerHello
  <2>2. NoNewHello
    <3>. HIDE DEF read
    <3>. QED  BY <1>6, <2>1 DEF NoNewHello
  <2>3. \A s \in Sides : phase'[s] = "up" <=> phase[s] = "up"
    BY <1>2, <2>1 DEF Fail, ConnectionInv, Statuses
  <2>. QED  BY <2>1, <2>2, <2>3, HelloFrame
<1>. QED  BY <1>7, <1>8

LEMMA HearServerHelloHello ==
    ASSUME ConnectionInv, HelloInv, HearServerHello
    PROVE  HelloInv'
<1> DEFINE read == [ctl EXCEPT !["server"] = Tail(@)]
           terms == Head(ctl["server"]).body
<1>1. /\ "client" \in Sides /\ "server" \in Sides /\ "client" # "server"
      /\ Other("client") = "server"
  BY DEF Sides, Other
<1>2. /\ ctl \in [Sides -> Seq(Message)] /\ ctl["server"] # << >>
      /\ Head(ctl["server"]).kind = "ServerHello" /\ config' = config
  BY <1>1 DEF HearServerHello, Arrived, ConnectionInv, Control
<1>3. terms = Answer /\ phase["server"] = "up" /\ config.version = 1
  <2>1. 1 \in DOMAIN ctl["server"] /\ Head(ctl["server"]) = ctl["server"][1]
    BY <1>1, <1>2
  <2>. QED  BY <1>2, <2>1 DEF HelloInv
<1>4. Answer' = Answer
  BY <1>2 DEF Answer, Choice, FirstCommon
<1>5. /\ read \in [Sides -> Seq(Message)]
      /\ \A t \in Sides : \A i \in DOMAIN read[t] :
            \E j \in DOMAIN ctl[t] : read[t][i] = ctl[t][j]
  <2>1. Tail(ctl["server"]) \in Seq(Message)
    BY <1>1, <1>2, ReadType
  <2>. QED  BY <1>1, <1>2, <2>1, ReadCarries
<1>6. /\ phase' = [phase EXCEPT !["client"] = "up"]
      /\ agreed' = [agreed EXCEPT !["client"] = terms]
      /\ IF terms.interval = 0 THEN DropControl("client", read) ELSE ctl' = read
  BY DEF HearServerHello, BecomeUp
<1>7. NoNewHello
  <2>. HIDE DEF read, terms
  <2>1. CASE DropControl("client", read)
    BY <1>1, <1>5, <2>1, DropControlHello
  <2>2. CASE ctl' = read
    BY <1>5, <2>2 DEF NoNewHello
  <2>. QED  BY <1>6, <2>1, <2>2
<1>8. /\ phase'["server"] = "up" /\ phase'["client"] = "up"
      /\ agreed'["client"] = Answer /\ agreed'["server"] = agreed["server"]
  BY <1>1, <1>3, <1>6 DEF ConnectionInv, Statuses, Agreements
<1>9. \A s \in Sides : phase'[s] = "up" => agreed'[s] = Answer
  BY <1>1, <1>3, <1>8 DEF HelloInv, Sides
<1>10. \A i \in DOMAIN ctl'["client"] :
         ctl'["client"][i].kind = "ClientHello" =>
            ctl'["client"][i].body = <<config.version, config.offer>>
  BY <1>1, <1>7 DEF HelloInv, NoNewHello, Beats
<1>11. \A i \in DOMAIN ctl'["server"] :
         ctl'["server"][i].kind = "ServerHello" => ctl'["server"][i].body = Answer
  BY <1>1, <1>7 DEF HelloInv, NoNewHello, Beats
<1>. QED  BY <1>2, <1>3, <1>4, <1>8, <1>9, <1>10, <1>11 DEF HelloInv

\* No other step brings a side up, or changes what it works with.
LEMMA OthersStayDown ==
    ASSUME ConnectionInv, [ConnectionNext]_cvars,
           ~SendClientHello, ~AnswerHello, ~HearServerHello
    PROVE  /\ UNCHANGED <<config, agreed>>
           /\ \A s \in Sides : phase'[s] = "up" <=> phase[s] = "up"
<1>. USE DEF ConnectionInv, Statuses
<1>1. CASE UNCHANGED cvars
  BY <1>1 DEF cvars
<1>2. CASE Connect \/ Accept \/ Cut \/ TimePasses
  BY <1>2 DEF Connect, Accept, Cut, TimePasses
<1>3. ASSUME NEW s \in Sides, GiveUpHandshake(s)
      PROVE  /\ UNCHANGED <<config, agreed>>
             /\ \A t \in Sides : phase'[t] = "up" <=> phase[t] = "up"
  BY <1>3 DEF GiveUpHandshake, InHandshake, Fail
<1>4. ASSUME NEW s \in Sides,
             \/ KeepaliveTick(s) \/ HearKeepalive(s) \/ HearFin(s) \/ TaskFails(s)
             \/ IdleOut(s) \/ DropConnection(s) \/ Close(s) \/ OpenMani(s)
             \/ AcceptMani(s) \/ StopArrives(s) \/ LoseConnection(s)
      PROVE  UNCHANGED <<config, agreed, phase>>
  BY <1>4 DEF KeepaliveTick, HearKeepalive, HearFin, TaskFails, IdleOut, DropConnection,
     Close, OpenMani, AcceptMani, StopArrives, LoseConnection
<1>. QED  BY <1>1, <1>2, <1>3, <1>4 DEF ConnectionNext, Step

LEMMA HelloKept ==
    ASSUME ConnectionInv, HelloInv, [ConnectionNext]_cvars
    PROVE  HelloInv'
<1>1. CASE SendClientHello  BY <1>1, SendClientHelloHello
<1>2. CASE AnswerHello  BY <1>2, AnswerHelloHello
<1>3. CASE HearServerHello  BY <1>3, HearServerHelloHello
<1>4. CASE ~SendClientHello /\ ~AnswerHello /\ ~HearServerHello
  <2>1. NoNewHello
    <3>1. CASE UNCHANGED cvars  BY <3>1, SameMessages DEF cvars
    <3>2. CASE Connect \/ Accept
      BY <3>2, SameMessages DEF Connect, Accept
    <3>3. CASE Cut
      BY <3>3 DEF Cut, NoNewHello
    <3>4. CASE TimePasses  BY <3>4, TimeHello
    <3>5. ASSUME NEW s \in Sides, Step(s) \/ DropConnection(s) PROVE NoNewHello
      BY <3>5, QuietStepHello
    <3>6. ASSUME NEW s \in Sides,
                 Close(s) \/ OpenMani(s) \/ AcceptMani(s) \/ StopArrives(s) \/ LoseConnection(s)
          PROVE  NoNewHello
      BY <3>6, SameMessages DEF Close, OpenMani, AcceptMani, StopArrives, LoseConnection
    <3>. QED  BY <1>4, <3>1, <3>2, <3>3, <3>4, <3>5, <3>6 DEF ConnectionNext
  <2>. QED  BY <1>4, <2>1, OthersStayDown, HelloFrame
<1>. QED  BY <1>1, <1>2, <1>3, <1>4

LEMMA HelloInit == ConnectionInit => HelloInv
BY DEF ConnectionInit, HelloInv, Sides

\* Every set of numbers has a least one.
LEMMA LeastIndex ==
    ASSUME NEW T \in SUBSET Nat, T # {}
    PROVE  \E n \in T : \A m \in T : n <= m
<1>1. PICK n \in T : \A m \in T : ~(<<m, n>> \in OpToRel(<, Nat))
  BY NatLessThanWellFounded, WFMin
<1>2. \A m \in T : ~(m < n)
  BY <1>1 DEF OpToRel
<1>3. \A m \in T : m \in Nat /\ n \in Nat
  OBVIOUS
<1>. QED  BY <1>2, <1>3

\* The choice is the first type of the server's list that the offer holds, and
\* None when there is no such type.
LEMMA ChoiceIsFirst ==
    ASSUME NEW offer \in SUBSET Types
    PROVE  LET common == ToSet(Supported) \cap offer
           IN  IF common = {} THEN Choice(offer) = None
               ELSE /\ Choice(offer) \in common
                    /\ \A j \in DOMAIN Supported :
                         Supported[j] \in common =>
                            \E i \in 1 .. j : Supported[i] = Choice(offer)
<1> DEFINE common == ToSet(Supported) \cap offer
           T == {i \in DOMAIN Supported : Supported[i] \in offer}
<1>1. Supported \in Seq(Types)
  BY ConnectionAssumption DEF ConnectionAssumption
<1>2. T \in SUBSET Nat /\ DOMAIN Supported = 1 .. Len(Supported) /\ Len(Supported) \in Nat
  BY <1>1
<1>3. CASE T = {}
  <2>1. common = {}
    BY <1>3 DEF ToSet
  <2>2. ~ \E i \in DOMAIN Supported : FirstCommon(offer, i)
    BY <1>3 DEF FirstCommon
  <2>. QED  BY <2>1, <2>2 DEF Choice
<1>4. CASE T # {}
  <2>1. PICK n \in T : \A m \in T : n <= m
    <3>. HIDE DEF T
    <3>. QED  BY <1>2, <1>4, LeastIndex
  <2>2. FirstCommon(offer, n)
    <3>1. ASSUME NEW j \in 1 .. n - 1 PROVE Supported[j] \notin offer
      <4>1. n \in 1 .. Len(Supported)
        BY <1>2
      <4>2. j \in DOMAIN Supported /\ ~(n <= j)
        BY <1>2, <4>1
      <4>. QED  BY <2>1, <4>2
    <3>. QED  BY <3>1 DEF FirstCommon
  <2> DEFINE c == CHOOSE i \in DOMAIN Supported : FirstCommon(offer, i)
  <2>3. c \in DOMAIN Supported /\ FirstCommon(offer, c) /\ Choice(offer) = Supported[c]
    BY <2>2 DEF Choice
  <2>. HIDE DEF c
  <2>4. Choice(offer) \in common /\ common # {}
    BY <2>3 DEF FirstCommon, ToSet
  <2>5. ASSUME NEW j \in DOMAIN Supported, Supported[j] \in common
        PROVE  c \in 1 .. j
    <3>1. Supported[j] \in offer
      BY <2>5
    <3>2. j \notin 1 .. c - 1
      BY <2>3, <3>1 DEF FirstCommon
    <3>3. j \in 1 .. Len(Supported) /\ c \in 1 .. Len(Supported)
      BY <1>2, <2>3, <2>5
    <3>. QED  BY ONLY <1>2, <3>2, <3>3
  <2>. QED  BY <2>3, <2>4, <2>5
<1>. QED  BY <1>3, <1>4

\* A connect() that succeeds has met an accept() that did, with the same
\* interval and the first compression type of the server's list that the
\* client offered, whatever the lists are (api.rs:160-235, 240-350).
THEOREM HandshakeAgreesHolds == ConnectionSpec => []HandshakeAgrees
<1>1. ConnectionInv /\ HelloInv => HandshakeAgrees
  <2> SUFFICES ASSUME ConnectionInv, HelloInv, phase["client"] = "up"
               PROVE  HandshakeAgrees
    BY DEF HandshakeAgrees
  <2>1. "client" \in Sides /\ "server" \in Sides
    BY DEF Sides
  <2>2. /\ phase["server"] = "up" /\ config.version = 1
        /\ agreed["client"] = Answer /\ agreed["server"] = Answer
    BY <2>1 DEF HelloInv
  <2>3. config.offer \in SUBSET Types
    BY ConnectionAssumption DEF ConnectionAssumption, ConnectionInv, Agreements
  <2>4. agreed["client"].compression = Choice(config.offer)
    BY <2>2 DEF Answer
  <2>. QED  BY <2>2, <2>3, <2>4, ChoiceIsFirst DEF HandshakeAgrees
<1>2. ConnectionInv /\ HelloInv /\ [ConnectionNext]_cvars => (ConnectionInv /\ HelloInv)'
  BY NextKeeps, HelloKept
<1>3. ConnectionInit => ConnectionInv /\ HelloInv
  BY InvInit, HelloInit
<1>. QED  BY <1>1, <1>2, <1>3, PTL DEF ConnectionSpec

-----------------------------------------------------------------------------
(* Why keepalives keep a healthy connection open.                           *)

\* One interval, the lateness of its timer, and the way there and back are
\* within each side's keepalive_timeout.
BeatsFit ==
    \A c \in Configs, s \in Sides :
        c.interval > 0 => c.interval + MaxLate + 2 * MaxDelay <= KeepaliveTimeout[s]

\* The longest silence between two sides that keep each other alive.
Silence == config.interval + MaxLate + 2 * MaxDelay

\* Nothing has ended the connection from outside: not the network, not an
\* application, not a failed handshake.  Once lost, it stays lost.
Healthy ==
    /\ ~cut
    /\ \A s \in Sides : /\ phase[s] # "failed" /\ quic[s] # "closed"
                        /\ phase[s] = "up" => s \in handle

\* Before the client has said hello there is nothing.
Early ==
    phase["client"] \in {"start", "connecting"} =>
        /\ phase["server"] # "up"
        /\ \A s \in Sides : quic[s] = "none" /\ ctl[s] = << >> /\ stop[s] = "no"

\* Only a keepalive task ends a connection for its silence, and without an
\* interval there is none.
Tasked ==
    \A s \in Sides :
        /\ s \in handle => phase[s] = "up"
        /\ task[s] = "running" => agreed[s].interval > 0
        /\ quic[s] \in {"timeout", "streamEnded"} => config.interval > 0

\* The hello is under way to a server that accepts.
Asked ==
    phase["client"] = "hello" /\ phase["server"] # "up" =>
        /\ phase["server"] = "connecting"
        /\ ctl["server"] = << >> /\ Len(ctl["client"]) = 1
        /\ \A s \in Sides : stop[s] = "no"

\* The server has answered: its answer is the first thing under way, and it
\* has been waiting no longer than the answer has.
Answered ==
    (phase["client"] = "hello" /\ phase["server"] = "up"
        /\ config.interval > 0 /\ quic["client"] = "open") =>
        /\ quic["server"] = "open" /\ task["server"] = "running"
        /\ \A s \in Sides : stop[s] = "no"
        /\ ctl["client"] = << >>
        /\ ctl["server"] # << >>
        /\ \A i \in DOMAIN ctl["server"] :
              ctl["server"][i].kind = IF i = 1 THEN "ServerHello" ELSE "Keepalive"
        /\ quiet["server"] <= Head(ctl["server"]).age
        /\ idle["server"] <= quiet["server"]

\* How long s will have heard nothing when what its peer says next arrives.
Reached(s) ==
    LET o == Other(s)
    IN  IF ctl[o] # << >> THEN quiet[s] + MaxDelay - Head(ctl[o]).age
        ELSE quiet[s] + wait[o] + MaxLate + MaxDelay

\* Both sides are up: each hears of the other in time.
Beating ==
    phase["client"] = "up" /\ config.interval > 0 =>
        \A s \in Sides :
            /\ phase[s] = "up" /\ quic[s] = "open" /\ task[s] = "running" /\ stop[s] = "no"
            /\ \A i \in DOMAIN ctl[s] : ctl[s][i].kind \in {"Keepalive", "KeepaliveAck"}
            /\ idle[s] <= quiet[s]
            /\ Reached(s) <= Silence

HealthInv == Early /\ Tasked /\ (Healthy => Asked /\ Answered /\ Beating)

\* Time changes the ages on the control stream and nothing else.
LEMMA Aged ==
    ASSUME ConnectionInv, TimePasses, NEW s \in Sides
    PROVE  /\ ctl'[s] \in Seq(Message) /\ Len(ctl'[s]) = Len(ctl[s])
           /\ \A i \in 1 .. Len(ctl[s]) : ctl'[s][i] = Older(ctl[s][i])
<1> DEFINE q == ctl[s]
           r == [i \in DOMAIN q |-> Older(q[i])]
<1>1. q \in Seq(Message) /\ ctl'[s] = r
  BY DEF ConnectionInv, Control, TimePasses
<1>2. r \in Seq(Message)
  BY <1>1, OlderType
<1>3. DOMAIN r = DOMAIN q /\ DOMAIN q = 1 .. Len(q) /\ Len(q) \in Nat
      /\ \A i \in DOMAIN q : r[i] = Older(q[i])
  BY <1>1
<1>. HIDE DEF q, r
<1>4. Len(r) = Len(q)
  <2>1. DOMAIN r = 1 .. Len(r) /\ Len(r) \in Nat
    BY <1>2
  <2>. QED  BY ONLY <1>3, <2>1
<1>. QED  BY <1>1, <1>2, <1>3, <1>4 DEF q

LEMMA OldEmpty ==
    ASSUME ConnectionInv, TimePasses, NEW s \in Sides
    PROVE  ctl'[s] = << >> <=> ctl[s] = << >>
<1>1. ctl[s] \in Seq(Message)
  BY DEF ConnectionInv, Control
<1>2. ctl'[s] \in Seq(Message) /\ Len(ctl'[s]) = Len(ctl[s])
  BY Aged
<1>3. ASSUME NEW p \in Seq(Message) PROVE p = << >> <=> Len(p) = 0
  BY <1>3, EmptySeq
<1>. QED  BY <1>1, <1>2, <1>3

LEMMA HealthInit == ConnectionInit => HealthInv
<1> SUFFICES ASSUME ConnectionInit PROVE HealthInv
  OBVIOUS
<1>1. \A s \in Sides : /\ phase[s] = "start" /\ quic[s] = "none" /\ ctl[s] = << >>
                       /\ stop[s] = "no" /\ s \notin handle /\ task[s] = "none"
  BY DEF ConnectionInit
<1>2. "client" \in Sides /\ "server" \in Sides
  BY DEF Sides
<1>. QED  BY <1>1, <1>2 DEF HealthInv, Early, Tasked, Asked, Answered, Beating

\* Before the hello, no side has a connection to do anything with.
LEMMA EarlyKept ==
    ASSUME ConnectionInv, HealthInv, [ConnectionNext]_cvars
    PROVE  Early'
<1> SUFFICES ASSUME phase'["client"] \in {"start", "connecting"}
             PROVE  /\ phase'["server"] # "up"
                    /\ \A s \in Sides : quic'[s] = "none" /\ ctl'[s] = << >> /\ stop'[s] = "no"
  BY DEF Early
<1>. USE DEF ConnectionInv, Statuses
<1>1. "client" \in Sides /\ "server" \in Sides /\ "client" # "server"
  BY DEF Sides
<1>2. phase["client"] \in {"start", "connecting"} /\ ~SendClientHello
  <2>1. CASE Connect \/ Accept \/ Cut \/ TimePasses \/ UNCHANGED cvars
    BY <1>1, <2>1 DEF Connect, Accept, Cut, TimePasses, cvars, SendClientHello
  <2>2. CASE SendClientHello
    BY <1>1, <2>2 DEF SendClientHello
  <2>3. CASE AnswerHello
    <3>1. phase'["client"] = phase["client"] /\ phase["server"] = "connecting"
          /\ phase'["server"] # "connecting"
      BY <1>1, <2>3 DEF AnswerHello, BecomeUp, Fail
    <3>. QED  BY <1>1, <3>1 DEF SendClientHello
  <2>4. CASE HearServerHello
    BY <1>1, <2>4 DEF HearServerHello, BecomeUp
  <2>5. ASSUME NEW s \in Sides, GiveUpHandshake(s)
        PROVE  phase["client"] \in {"start", "connecting"} /\ ~SendClientHello
    <3>1. phase' = [phase EXCEPT ![s] = "failed"]
      BY <2>5 DEF GiveUpHandshake, Fail
    <3>2. phase["client"] = phase'["client"]
      BY <1>1, <3>1
    <3>. QED  BY <1>1, <3>1, <3>2 DEF SendClientHello
  <2>6. ASSUME NEW s \in Sides,
               \/ KeepaliveTick(s) \/ HearKeepalive(s) \/ HearFin(s) \/ TaskFails(s)
               \/ IdleOut(s) \/ DropConnection(s) \/ Close(s) \/ OpenMani(s)
               \/ AcceptMani(s) \/ StopArrives(s) \/ LoseConnection(s)
        PROVE  phase["client"] \in {"start", "connecting"} /\ ~SendClientHello
    <3>1. phase' = phase
      BY <2>6 DEF KeepaliveTick, HearKeepalive, HearFin, TaskFails, IdleOut, DropConnection,
         Close, OpenMani, AcceptMani, StopArrives, LoseConnection
    <3>. QED  BY <1>1, <3>1 DEF SendClientHello
  <2>. QED  BY <2>1, <2>2, <2>3, <2>4, <2>5, <2>6 DEF ConnectionNext, Step
<1>3. /\ phase["server"] # "up"
      /\ \A s \in Sides : /\ quic[s] = "none" /\ ctl[s] = << >> /\ stop[s] = "no"
                          /\ task[s] # "running" /\ s \notin handle
  <2>1. /\ phase["server"] # "up"
        /\ \A s \in Sides : quic[s] = "none" /\ ctl[s] = << >> /\ stop[s] = "no"
    BY <1>2 DEF HealthInv, Early
  <2>2. \A s \in Sides : phase[s] # "up"
    BY <1>2, <2>1 DEF Sides
  <2>. QED  BY <2>1, <2>2 DEF Paced, HealthInv, Tasked
<1>4. CASE Connect \/ Accept \/ UNCHANGED cvars
  BY <1>1, <1>3, <1>4 DEF Connect, Accept, cvars
<1>5. CASE Cut
  BY <1>1, <1>3, <1>5 DEF Cut
<1>6. CASE TimePasses
  <2>1. /\ phase'["server"] # "up"
        /\ \A s \in Sides : quic'[s] = "none" /\ stop'[s] = "no"
    BY <1>1, <1>3, <1>6 DEF TimePasses
  <2>2. ASSUME NEW s \in Sides PROVE ctl'[s] = << >>
    BY <1>3, <1>6, OldEmpty DEF TimePasses
  <2>. QED  BY <2>1, <2>2
<1>7. ASSUME NEW s \in Sides, GiveUpHandshake(s)
      PROVE  /\ phase'["server"] # "up"
             /\ \A t \in Sides : quic'[t] = "none" /\ ctl'[t] = << >> /\ stop'[t] = "no"
  BY <1>1, <1>3, <1>7 DEF GiveUpHandshake, Fail
<1>8. ~AnswerHello /\ ~HearServerHello
  BY <1>1, <1>3 DEF AnswerHello, HearServerHello, Arrived
<1>9. \A s \in Sides :
         /\ ~KeepaliveTick(s) /\ ~HearKeepalive(s) /\ ~HearFin(s) /\ ~TaskFails(s)
         /\ ~IdleOut(s) /\ ~DropConnection(s) /\ ~Close(s) /\ ~OpenMani(s)
         /\ ~AcceptMani(s) /\ ~StopArrives(s) /\ ~LoseConnection(s)
  BY <1>3 DEF KeepaliveTick, Working, HearKeepalive, HearFin, TaskFails, IdleOut,
     DropConnection, Close, OpenMani, AcceptMani, StopArrives, LoseConnection, Arrived, Ended
<1>. QED
  BY <1>2, <1>4, <1>5, <1>6, <1>7, <1>8, <1>9 DEF ConnectionNext, Step

\* The steps outside the handshake.
Elsewhere(s) ==
    \/ KeepaliveTick(s) \/ HearKeepalive(s) \/ HearFin(s) \/ TaskFails(s)
    \/ IdleOut(s) \/ DropConnection(s) \/ Close(s) \/ OpenMani(s)
    \/ AcceptMani(s) \/ StopArrives(s) \/ LoseConnection(s)

\* They bring no side up, open no connection and start no task.
LEMMA ElsewhereFrame ==
    ASSUME ConnectionInv, NEW s \in Sides, Elsewhere(s)
    PROVE  /\ UNCHANGED <<config, phase, agreed, cut>>
           /\ handle' \subseteq handle
           /\ \A t \in Sides : /\ task'[t] = "running" => task[t] = "running"
                               /\ quic'[t] = "open" => quic[t] = "open"
                               /\ quic[t] \in Ended => quic'[t] = quic[t]
                               /\ quic'[t] \in {"timeout", "streamEnded"} =>
                                     quic[t] = quic'[t] \/ task[t] = "running"
<1>. USE DEF ConnectionInv, Statuses
<1>1. CASE KeepaliveTick(s) \/ HearKeepalive(s) \/ HearFin(s)
  BY <1>1 DEF KeepaliveTick, HearKeepalive, HearFin, Working, Leave, Arrived, Ended
<1>2. CASE TaskFails(s) \/ IdleOut(s) \/ DropConnection(s) \/ Close(s)
  BY <1>2 DEF TaskFails, IdleOut, DropConnection, Close, Ended
<1>3. CASE OpenMani(s) \/ AcceptMani(s) \/ StopArrives(s) \/ LoseConnection(s)
  BY <1>3 DEF OpenMani, AcceptMani, StopArrives, LoseConnection, Ended
<1>. QED  BY <1>1, <1>2, <1>3 DEF Elsewhere

\* The steps by where they belong.
LEMMA Places ==
    ASSUME [ConnectionNext]_cvars
    PROVE  \/ Connect \/ Accept \/ SendClientHello \/ AnswerHello \/ HearServerHello
           \/ Cut \/ TimePasses \/ UNCHANGED cvars
           \/ \E s \in Sides : GiveUpHandshake(s)
           \/ \E s \in Sides : Elsewhere(s)
BY DEF ConnectionNext, Step, Elsewhere

LEMMA TaskedKept ==
    ASSUME ConnectionInv, HelloInv, HealthInv, [ConnectionNext]_cvars
    PROVE  Tasked'
<1>. USE DEF ConnectionInv, Statuses
<1>0. Tasked
  BY DEF HealthInv
<1>1. CASE Connect \/ Accept \/ Cut \/ TimePasses \/ UNCHANGED cvars
  <2>1. /\ UNCHANGED <<config, agreed, quic, handle, task>>
        /\ \A s \in Sides : phase[s] = "up" => phase'[s] = "up"
    BY <1>1 DEF Connect, Accept, Cut, TimePasses, cvars
  <2>. QED  BY <1>0, <2>1 DEF Tasked
<1>2. CASE SendClientHello
  BY <1>0, <1>2 DEF SendClientHello, Tasked
<1>3. ASSUME NEW s \in Sides, NEW terms \in Terms, NEW said, BecomeUp(s, terms, said),
             UNCHANGED <<config, quic>>
      PROVE  Tasked'
  <2>1. terms.interval \in Nat
    BY DEF Terms
  <2>2. handle' = handle \cup {s} /\ phase' = [phase EXCEPT ![s] = "up"]
        /\ agreed' = [agreed EXCEPT ![s] = terms]
        /\ task' = [task EXCEPT ![s] = IF terms.interval = 0 THEN "over" ELSE "running"]
    BY <1>3 DEF BecomeUp
  <2>3. ASSUME NEW t \in Sides PROVE /\ t \in handle' => phase'[t] = "up"
                                     /\ task'[t] = "running" => agreed'[t].interval > 0
    BY <1>0, <2>1, <2>2 DEF Tasked, Agreements
  <2>. QED  BY <1>0, <1>3, <2>3 DEF Tasked
<1>4. ASSUME NEW s \in Sides, Fail(s), phase[s] # "up", UNCHANGED <<config, agreed, handle, task>>
      PROVE  Tasked'
  BY <1>0, <1>4 DEF Tasked, Fail
<1>5. CASE AnswerHello
  <2> DEFINE terms == [compression |-> Choice(Head(ctl["client"]).body[2]),
                       interval |-> config.interval]
  <2>1. "server" \in Sides /\ "client" \in Sides /\ Other("server") = "client"
    BY DEF Sides, Other
  <2>2. /\ phase["server"] = "connecting" /\ ctl["client"] # << >>
        /\ ctl["client"] \in Seq(Message) /\ Head(ctl["client"]).kind = "ClientHello"
    BY <1>5, <2>1 DEF AnswerHello, Arrived, Control
  <2>3. Head(ctl["client"]).body[2] \in SUBSET Types
    BY <2>2, ReadType DEF Message
  <2>4. terms \in Terms
    BY <2>3, ChoiceType, ConnectionAssumption DEF ConnectionAssumption, Agreements, Terms
  <2>. HIDE DEF terms
  <2>5. \/ \E said : BecomeUp("server", terms, said) /\ UNCHANGED <<config, quic>>
        \/ Fail("server") /\ UNCHANGED <<config, agreed, handle, task>>
    BY <1>5 DEF AnswerHello, terms
  <2>. QED  BY <1>3, <1>4, <2>1, <2>2, <2>4, <2>5
<1>6. CASE HearServerHello
  <2>1. "server" \in Sides /\ "client" \in Sides /\ Other("client") = "server"
    BY DEF Sides, Other
  <2>2. ctl["server"] # << >> /\ ctl["server"] \in Seq(Message)
        /\ Head(ctl["server"]).kind = "ServerHello"
    BY <1>6, <2>1 DEF HearServerHello, Arrived, Control
  <2>3. Head(ctl["server"]).body \in Terms
    BY <2>2, ReadType DEF Message
  <2>4. \E said : BecomeUp("client", Head(ctl["server"]).body, said)
                  /\ UNCHANGED <<config, quic>>
    BY <1>6 DEF HearServerHello
  <2>. QED  BY <1>3, <2>1, <2>3, <2>4
<1>7. ASSUME NEW s \in Sides, GiveUpHandshake(s) PROVE Tasked'
  BY <1>4, <1>7 DEF GiveUpHandshake, InHandshake
<1>8. ASSUME NEW s \in Sides, Elsewhere(s) PROVE Tasked'
  <2>1. /\ UNCHANGED <<config, phase, agreed, cut>>
        /\ handle' \subseteq handle
        /\ \A t \in Sides : /\ task'[t] = "running" => task[t] = "running"
                            /\ quic'[t] \in {"timeout", "streamEnded"} =>
                                  quic[t] = quic'[t] \/ task[t] = "running"
    BY <1>8, ElsewhereFrame
  <2>2. \A t \in Sides : task[t] = "running" => config.interval > 0
    BY <1>0 DEF Tasked, Paced, HelloInv, Answer
  <2>. QED  BY <1>0, <2>1, <2>2 DEF Tasked
<1>. QED  BY <1>1, <1>2, <1>5, <1>6, <1>7, <1>8, Places

\* What has ended a connection from outside is not undone.
LEMMA HealthyBefore ==
    ASSUME ConnectionInv, HealthInv, [ConnectionNext]_cvars, Healthy'
    PROVE  /\ Healthy /\ ~Cut
           /\ \A s \in Sides : ~GiveUpHandshake(s) /\ ~DropConnection(s) /\ ~Close(s)
           /\ AnswerHello => VersionAccepted(Head(ctl["client"]).body[1])
<1>. USE DEF ConnectionInv, Statuses
<1>1. ~cut' /\ \A s \in Sides : /\ phase'[s] # "failed" /\ quic'[s] # "closed"
                                /\ phase'[s] = "up" => s \in handle'
  BY DEF Healthy
<1>2. ~Cut
  BY <1>1 DEF Cut
<1>3. ASSUME NEW s \in Sides PROVE ~GiveUpHandshake(s) /\ ~DropConnection(s) /\ ~Close(s)
  <2>1. ~GiveUpHandshake(s)
    BY <1>1 DEF GiveUpHandshake, Fail
  <2>2. ~Close(s)
    BY <1>1 DEF Close
  <2>3. ~DropConnection(s)
    <3> SUFFICES ASSUME DropConnection(s) PROVE FALSE
      OBVIOUS
    <3>1. s \in handle /\ s \notin handle' /\ phase' = phase
      BY DEF DropConnection
    <3>. QED  BY <1>1, <3>1 DEF HealthInv, Tasked
  <2>. QED  BY <2>1, <2>2, <2>3
<1>4. AnswerHello => VersionAccepted(Head(ctl["client"]).body[1])
  <2> SUFFICES ASSUME AnswerHello, ~VersionAccepted(Head(ctl["client"]).body[1]) PROVE FALSE
    OBVIOUS
  <2>1. Fail("server") /\ "server" \in Sides
    BY DEF AnswerHello, Sides
  <2>. QED  BY <1>1, <2>1 DEF Fail
<1>5. Healthy
  <2>1. CASE Connect \/ Accept \/ TimePasses \/ UNCHANGED cvars
    <3>1. UNCHANGED <<quic, handle, cut>>
          /\ \A s \in Sides : (phase[s] \in {"up", "failed"}) => phase'[s] = phase[s]
      BY <2>1 DEF Connect, Accept, TimePasses, cvars
    <3>. QED  BY <1>1, <3>1 DEF Healthy
  <2>2. CASE SendClientHello
    <3>1. UNCHANGED <<handle, cut>> /\ \A s \in Sides : phase[s] = "connecting"
      BY <2>2 DEF SendClientHello
    <3>2. \A s \in Sides : quic[s] = "none"
      BY <3>1 DEF HealthInv, Early, Sides
    <3>. QED  BY <1>1, <3>1, <3>2 DEF Healthy
  <2>3. ASSUME NEW s \in Sides, NEW terms, NEW said, BecomeUp(s, terms, said),
               phase[s] # "up", phase[s] # "failed", UNCHANGED <<quic, cut>>
        PROVE  Healthy
    <3>1. handle' = handle \cup {s} /\ phase' = [phase EXCEPT ![s] = "up"]
      BY <2>3 DEF BecomeUp
    <3>. QED  BY <1>1, <2>3, <3>1 DEF Healthy
  <2>4. CASE AnswerHello
    <3>1. /\ \E terms, said : BecomeUp("server", terms, said)
          /\ "server" \in Sides /\ phase["server"] = "connecting" /\ UNCHANGED <<quic, cut>>
      BY <1>4, <2>4 DEF AnswerHello, Sides
    <3>. QED  BY <2>3, <3>1
  <2>5. CASE HearServerHello
    <3>1. /\ \E terms, said : BecomeUp("client", terms, said)
          /\ "client" \in Sides /\ phase["client"] = "hello" /\ UNCHANGED <<quic, cut>>
      BY <2>5 DEF HearServerHello, Sides
    <3>. QED  BY <2>3, <3>1
  <2>6. ASSUME NEW s \in Sides, Elsewhere(s) PROVE Healthy
    <3>1. /\ UNCHANGED <<phase, cut>> /\ handle' \subseteq handle
          /\ \A t \in Sides : quic[t] \in Ended => quic'[t] = quic[t]
      BY <2>6, ElsewhereFrame
    <3>. QED  BY <1>1, <3>1 DEF Healthy, Ended
  <2>. QED  BY <1>2, <1>3, <2>1, <2>2, <2>4, <2>5, <2>6, Places
<1>. QED  BY <1>2, <1>3, <1>4, <1>5

\* The silence that keepalives leave is shorter than either side waits, and
\* than QUIC does.
LEMMA Margins ==
    ASSUME ConnectionInv, BeatsFit, config.interval > 0
    PROVE  /\ Silence \in Nat /\ MaxDelay \in Nat /\ MaxLate \in Nat /\ QuicIdle \in Nat
           /\ config.interval \in Nat
           /\ Silence = config.interval + MaxLate + MaxDelay + MaxDelay
           /\ Silence < QuicIdle
           /\ \A s \in Sides : Patience(s) \in Nat /\ Silence <= Patience(s)
<1>1. /\ config \in Configs /\ config.interval \in Nat /\ MaxDelay \in Nat /\ MaxLate \in Nat
      /\ agreed \in [Sides -> Terms]
  BY ConnectionAssumption DEF ConnectionInv, Agreements, ConnectionAssumption
<1>2. Silence \in Nat /\ Silence > 0 /\ Silence = config.interval + MaxLate + MaxDelay + MaxDelay
  BY <1>1 DEF Silence
<1>3. \A s \in Sides : KeepaliveTimeout[s] \in Nat /\ Silence <= KeepaliveTimeout[s]
  BY <1>1, ConnectionAssumption DEF ConnectionAssumption, BeatsFit, Silence
<1>4. ASSUME NEW s \in Sides PROVE Patience(s) \in Nat /\ Silence <= Patience(s)
  <2>1. agreed[s].interval \in Nat
    BY <1>1 DEF Terms
  <2>2. Patience(s) \in Nat /\ Patience(s) >= KeepaliveTimeout[s]
    BY <1>3, <2>1, MaxOfTwo DEF Patience
  <2>. QED  BY <1>2, <1>3, <2>2
<1>5. QuicIdle \in Nat /\ Silence < QuicIdle
  <2> DEFINE a == IdleTimeoutOf("client")
             b == IdleTimeoutOf("server")
  <2>1. a \in Nat /\ b \in Nat /\ Silence < a /\ Silence < b
    BY <1>2, <1>3 DEF IdleTimeoutOf, Sides
  <2>2. QuicIdle = Min({a, b})
    BY DEF QuicIdle
  <2>. HIDE DEF a, b
  <2>. QED  BY <1>2, <2>1, <2>2, MinOfTwo
<1>. QED  BY <1>1, <1>2, <1>4, <1>5

\* What a side finds when it reads or writes at the control stream.
LEMMA WriteHead ==
    ASSUME NEW q \in Seq(Message), NEW m \in Message
    PROVE  /\ Append(q, m) \in Seq(Message) /\ Append(q, m) # << >>
           /\ Len(Append(q, m)) = Len(q) + 1
           /\ Append(q, m)[Len(q) + 1] = m
           /\ \A i \in 1 .. Len(q) : Append(q, m)[i] = q[i]
           /\ Head(Append(q, m)) = IF q = << >> THEN m ELSE Head(q)
OBVIOUS

LEMMA HeadAge ==
    ASSUME ConnectionInv, NEW s \in Sides, ctl[s] # << >>
    PROVE  /\ Head(ctl[s]) \in Message
           /\ Head(ctl[s]).age \in Nat /\ Head(ctl[s]).age <= MaxDelay
<1>1. MaxDelay \in Nat /\ Head(ctl[s]) \in Message
  BY ReadType, ConnectionAssumption DEF ConnectionInv, Control, ConnectionAssumption
<1>2. Head(ctl[s]).age \in 0 .. MaxDelay
  BY <1>1 DEF Message
<1>. QED  BY <1>1, <1>2

\* A healthy connection that is up gives neither a keepalive task nor QUIC a
\* reason to end it.
LEMMA BeatingCalm ==
    ASSUME ConnectionInv, HelloInv, BeatsFit, Beating,
           phase["client"] = "up", config.interval > 0, NEW s \in Sides
    PROVE  /\ phase[s] = "up" /\ quic[s] = "open" /\ task[s] = "running" /\ stop[s] = "no"
           /\ agreed[s].interval = config.interval
           /\ quiet[s] \in Nat /\ idle[s] \in Nat /\ idle[s] <= quiet[s]
           /\ quiet[s] <= Silence
           /\ wait[s] \in Int /\ -MaxLate <= wait[s] /\ wait[s] <= config.interval
           /\ ~TooQuiet(s) /\ ~(idle[s] >= QuicIdle)
<1> DEFINE o == Other(s)
<1>1. o \in Sides
  BY Others
<1>2. \A t \in Sides : /\ phase[t] = "up" /\ quic[t] = "open" /\ task[t] = "running"
                       /\ stop[t] = "no" /\ idle[t] <= quiet[t] /\ Working(t)
                       /\ Reached(t) <= Silence
  BY DEF Beating, Working
<1>3. \A t \in Sides : /\ quiet[t] \in Nat /\ idle[t] \in Nat /\ wait[t] \in Int
                       /\ agreed[t].interval = config.interval
  BY <1>2 DEF ConnectionInv, Clocks, HelloInv, Answer
<1>4. \A t \in Sides : -MaxLate <= wait[t] /\ wait[t] <= config.interval
  BY <1>2, <1>3 DEF ConnectionInv, Paced
<1>5. quiet[s] <= Silence
  <2>1. CASE ctl[o] # << >>
    <3>1. Head(ctl[o]).age \in Nat /\ Head(ctl[o]).age <= MaxDelay
      BY <1>1, <2>1, HeadAge
    <3>2. quiet[s] + MaxDelay - Head(ctl[o]).age <= Silence
      BY <1>2, <2>1 DEF Reached
    <3>. QED  BY <1>3, <3>1, <3>2, Margins
  <2>2. CASE ctl[o] = << >>
    <3>1. quiet[s] + wait[o] + MaxLate + MaxDelay <= Silence
      BY <1>2, <2>2 DEF Reached
    <3>2. wait[o] \in Int /\ -MaxLate <= wait[o]
      BY <1>1, <1>3, <1>4
    <3>. QED  BY <1>3, <3>1, <3>2, Margins
  <2>. QED  BY <2>1, <2>2
<1>6. ~TooQuiet(s) /\ ~(idle[s] >= QuicIdle)
  <2>1. quiet[s] \in Nat /\ idle[s] \in Nat /\ idle[s] <= quiet[s]
    BY <1>2, <1>3
  <2>2. Silence \in Nat /\ QuicIdle \in Nat /\ Silence < QuicIdle
        /\ Patience(s) \in Nat /\ Silence <= Patience(s)
    BY Margins
  <2>. QED  BY ONLY <1>5, <2>1, <2>2 DEF TooQuiet
<1>. QED  BY <1>2, <1>3, <1>4, <1>5, <1>6

\* The server is as calm while its answer is under way.
LEMMA AnsweredCalm ==
    ASSUME ConnectionInv, HelloInv, BeatsFit, Answered, phase["client"] = "hello",
           phase["server"] = "up", config.interval > 0, quic["client"] = "open"
    PROVE  /\ quiet["server"] \in Nat /\ quiet["server"] <= MaxDelay
           /\ ~TooQuiet("server") /\ ~(idle["server"] >= QuicIdle)
<1>1. "server" \in Sides
  BY DEF Sides
<1>2. /\ ctl["server"] # << >> /\ quiet["server"] <= Head(ctl["server"]).age
      /\ idle["server"] <= quiet["server"]
  BY DEF Answered
<1>3. Head(ctl["server"]).age \in Nat /\ Head(ctl["server"]).age <= MaxDelay
  BY <1>1, <1>2, HeadAge
<1>4. quiet["server"] \in Nat /\ idle["server"] \in Nat
  BY <1>1 DEF ConnectionInv, Clocks
<1>5. /\ Silence \in Nat /\ QuicIdle \in Nat /\ Silence < QuicIdle
      /\ Patience("server") \in Nat /\ Silence <= Patience("server")
      /\ MaxDelay \in Nat /\ MaxDelay <= Silence
  BY <1>1, Margins
<1>. QED  BY ONLY <1>2, <1>3, <1>4, <1>5 DEF TooQuiet

-----------------------------------------------------------------------------
(* How a healthy handshake goes.                                            *)

LEMMA LastRead ==
    ASSUME NEW q \in Seq(Message), Len(q) = 1
    PROVE  Tail(q) = << >>
<1>1. q # << >>
  OBVIOUS
<1>2. Tail(q) \in Seq(Message) /\ Len(Tail(q)) = 0
  BY <1>1
<1>. QED  BY <1>2, EmptySeq

LEMMA SendClientHelloHealth ==
    ASSUME ConnectionInv, HealthInv, Healthy, SendClientHello
    PROVE  Asked' /\ Answered' /\ Beating'
<1> DEFINE m == Msg("ClientHello", <<config.version, config.offer>>)
<1>1. "client" \in Sides /\ "server" \in Sides /\ "client" # "server"
  BY DEF Sides
<1>2. /\ \A s \in Sides : ctl[s] = << >> /\ stop[s] = "no" /\ ~cut
      /\ phase["server"] = "connecting"
  BY <1>1 DEF SendClientHello, HealthInv, Early, Healthy
<1>3. phase'["server"] = "connecting" /\ phase'["client"] = "hello" /\ stop' = stop
  BY <1>1, <1>2 DEF SendClientHello, ConnectionInv, Statuses
<1>4. m \in Message
  <2>1. config.version \in Nat /\ config.offer \in SUBSET Types
    BY ConnectionAssumption DEF ConnectionAssumption, ConnectionInv, Agreements
  <2>. QED  BY <2>1, MessageTypes
<1>. HIDE DEF m
<1>5. ctl' = [ctl EXCEPT !["client"] = Append(@, m)]
  BY <1>1, <1>2 DEF SendClientHello, Write, Heard, m
<1>6. ctl'["client"] = Append(<< >>, m) /\ ctl'["server"] = << >>
  BY <1>1, <1>2, <1>5 DEF ConnectionInv, Control
<1>7. Len(ctl'["client"]) = 1
  <2>1. << >> \in Seq(Message) /\ Len(<< >>) = 0
    OBVIOUS
  <2>. QED  BY <1>4, <1>6, <2>1, WriteHead
<1>. QED  BY <1>2, <1>3, <1>6, <1>7 DEF Asked, Answered, Beating

LEMMA AnswerHelloHealth ==
    ASSUME ConnectionInv, HelloInv, HealthInv, Healthy, AnswerHello,
           VersionAccepted(Head(ctl["client"]).body[1])
    PROVE  Asked' /\ Answered' /\ Beating'
<1> DEFINE terms == [compression |-> Choice(Head(ctl["client"]).body[2]),
                     interval |-> config.interval]
           hello == Msg("ServerHello", terms)
           read == [ctl EXCEPT !["client"] = Tail(@)]
<1>1. /\ "client" \in Sides /\ "server" \in Sides /\ "client" # "server"
      /\ Other("server") = "client"
  BY DEF Sides, Other
<1>2. /\ phase["server"] = "connecting" /\ ctl["client"] # << >> /\ quic["server"] = "open"
      /\ Head(ctl["client"]).kind = "ClientHello" /\ ~cut
      /\ ctl \in [Sides -> Seq(Message)]
  BY <1>1 DEF AnswerHello, Arrived, ConnectionInv, Control
<1>3. phase["client"] = "hello"
  BY <1>1, <1>2 DEF HealthInv, Early, Healthy, HelloInv, ConnectionInv, Statuses
<1>4. ctl["server"] = << >> /\ Len(ctl["client"]) = 1 /\ \A s \in Sides : stop[s] = "no"
  BY <1>2, <1>3 DEF HealthInv, Asked
<1>5. Tail(ctl["client"]) = << >>
  BY <1>1, <1>2, <1>4, LastRead
<1>6. BecomeUp("server", terms, Write(read, "server", hello)) /\ UNCHANGED <<config, quic>>
  BY DEF AnswerHello
<1>7. phase'["server"] = "up" /\ phase'["client"] = "hello"
  BY <1>1, <1>3, <1>6 DEF BecomeUp, ConnectionInv, Statuses
<1>8. Asked' /\ Beating'
  BY <1>7 DEF Asked, Beating
<1>9. ASSUME config'.interval > 0 PROVE Answered'
  <2>1. config.interval \in Nat /\ config.interval # 0 /\ terms.interval = config.interval
    BY <1>6, <1>9, ConnectionAssumption DEF ConnectionAssumption, ConnectionInv, Agreements
  <2>2. hello \in Message /\ hello.kind = "ServerHello" /\ hello.age = 0
    <3>1. Head(ctl["client"]).body[2] \in SUBSET Types
      BY <1>1, <1>2, ReadType DEF Message
    <3>2. terms \in Terms
      BY <2>1, <3>1, ChoiceType DEF Terms
    <3>. QED  BY <3>2, MessageTypes DEF Msg
  <2>. HIDE DEF hello, terms
  <2>3. /\ task' = [task EXCEPT !["server"] = "running"] /\ UNCHANGED stop
        /\ ctl' = Write(read, "server", hello)
        /\ quiet' = [quiet EXCEPT !["server"] = 0] /\ idle' = [idle EXCEPT !["server"] = 0]
    BY <1>6, <2>1 DEF BecomeUp
  <2>4. ctl' = [read EXCEPT !["server"] = Append(@, hello)]
    BY <1>1, <1>2, <1>4, <2>3 DEF Write, Heard
  <2>5. ctl'["client"] = << >> /\ ctl'["server"] = Append(<< >>, hello)
    BY <1>1, <1>2, <1>4, <1>5, <2>4
  <2>6. << >> \in Seq(Message) /\ Len(<< >>) = 0
    OBVIOUS
  <2>7. /\ ctl'["server"] # << >> /\ Head(ctl'["server"]) = hello
        /\ DOMAIN ctl'["server"] = {1} /\ ctl'["server"][1] = hello
    <3>1. /\ Append(<< >>, hello) \in Seq(Message) /\ Len(Append(<< >>, hello)) = 1
          /\ Append(<< >>, hello)[1] = hello /\ Head(Append(<< >>, hello)) = hello
          /\ Append(<< >>, hello) # << >>
      BY <2>2, <2>6, WriteHead
    <3>. QED  BY <2>5, <3>1
  <2>8. /\ quic'["server"] = "open" /\ task'["server"] = "running"
        /\ quiet'["server"] = 0 /\ idle'["server"] = 0
        /\ \A s \in Sides : stop'[s] = "no"
    BY <1>1, <1>2, <1>4, <1>6, <2>3 DEF ConnectionInv, Statuses, Clocks
  <2>. QED  BY <2>2, <2>5, <2>7, <2>8 DEF Answered
<1>. QED  BY <1>8, <1>9 DEF Answered

LEMMA HearServerHelloHealth ==
    ASSUME ConnectionInv, HelloInv, HealthInv, BeatsFit, Healthy, HearServerHello
    PROVE  Asked' /\ Answered' /\ Beating'
<1>1. /\ "client" \in Sides /\ "server" \in Sides /\ "client" # "server"
      /\ Other("client") = "server" /\ Other("server") = "client"
  BY DEF Sides, Other
<1>2. /\ phase["client"] = "hello" /\ quic["client"] = "open" /\ ctl["server"] # << >>
      /\ Head(ctl["server"]).kind = "ServerHello" /\ config' = config
      /\ ctl \in [Sides -> Seq(Message)]
  BY <1>1 DEF HearServerHello, Arrived, ConnectionInv, Control
<1>3. phase["server"] = "up" /\ Head(ctl["server"]).body = Answer
  <2>1. 1 \in DOMAIN ctl["server"] /\ Head(ctl["server"]) = ctl["server"][1]
    BY <1>1, <1>2
  <2>. QED  BY <1>2, <2>1 DEF HelloInv
<1>4. BecomeUp("client", Answer, [ctl EXCEPT !["server"] = Tail(@)]) /\ UNCHANGED quic
  BY <1>3 DEF HearServerHello
<1>5. phase'["client"] = "up" /\ phase'["server"] = "up"
  BY <1>1, <1>3, <1>4 DEF BecomeUp, ConnectionInv, Statuses
<1>6. Asked' /\ Answered'
  BY <1>5 DEF Asked, Answered
<1>7. ASSUME config'.interval > 0 PROVE Beating'
  <2>1. /\ config.interval > 0 /\ config.interval \in Nat /\ config.interval # 0
        /\ Answer.interval = config.interval
    BY <1>2, <1>7, ConnectionAssumption
       DEF ConnectionAssumption, ConnectionInv, Agreements, Answer
  <2>2. /\ quic["server"] = "open" /\ task["server"] = "running"
        /\ \A s \in Sides : stop[s] = "no"
        /\ ctl["client"] = << >>
        /\ \A i \in DOMAIN ctl["server"] :
              ctl["server"][i].kind = IF i = 1 THEN "ServerHello" ELSE "Keepalive"
        /\ quiet["server"] <= Head(ctl["server"]).age
        /\ idle["server"] <= quiet["server"]
    BY <1>2, <1>3, <2>1 DEF HealthInv, Answered
  <2>3. /\ task' = [task EXCEPT !["client"] = "running"] /\ UNCHANGED <<stop, quic>>
        /\ ctl' = [ctl EXCEPT !["server"] = Tail(@)]
        /\ quiet' = [quiet EXCEPT !["client"] = 0] /\ idle' = [idle EXCEPT !["client"] = 0]
        /\ wait' = [wait EXCEPT !["client"] = config.interval]
    BY <1>4, <2>1 DEF BecomeUp
  <2>4. /\ task'["client"] = "running" /\ task'["server"] = "running"
        /\ quiet'["client"] = 0 /\ idle'["client"] = 0
        /\ quiet'["server"] = quiet["server"] /\ idle'["server"] = idle["server"]
        /\ wait'["client"] = config.interval /\ wait'["server"] = wait["server"]
        /\ ctl'["client"] = << >> /\ ctl'["server"] = Tail(ctl["server"])
    BY <1>1, <1>2, <2>2, <2>3 DEF ConnectionInv, Statuses, Clocks
  <2>5. Tail(ctl["server"]) \in Seq(Message)
        /\ \A i \in DOMAIN ctl'["server"] : ctl'["server"][i].kind = "Keepalive"
    <3>1. ctl["server"] \in Seq(Message)
      BY <1>1, <1>2
    <3>2. ASSUME NEW i \in DOMAIN Tail(ctl["server"])
          PROVE  Tail(ctl["server"])[i].kind = "Keepalive"
      <4>1. i + 1 \in DOMAIN ctl["server"] /\ Tail(ctl["server"])[i] = ctl["server"][i + 1]
        BY <1>2, <3>1, TailCarries
      <4>2. i + 1 # 1
        BY <1>2, <3>1
      <4>. QED  BY <2>2, <4>1, <4>2
    <3>. QED  BY <1>2, <2>4, <3>1, <3>2, ReadType
  <2>6. /\ Silence \in Nat /\ MaxDelay \in Nat /\ MaxLate \in Nat
        /\ Silence = config.interval + MaxLate + MaxDelay + MaxDelay
    BY <2>1, Margins
  <2>7. Silence' = Silence
    BY <1>2 DEF Silence
  <2>8. /\ quiet["server"] \in Nat /\ quiet["server"] <= MaxDelay
        /\ idle["server"] \in Nat /\ wait["server"] \in Int
        /\ wait["server"] <= config.interval
    <3>1. quiet["server"] \in Nat /\ quiet["server"] <= MaxDelay
      BY <1>2, <1>3, <2>1, AnsweredCalm DEF HealthInv
    <3>2. Working("server") /\ agreed["server"].interval = config.interval
      BY <1>1, <1>3, <2>1, <2>2 DEF Working, HelloInv
    <3>. QED  BY <1>1, <3>1, <3>2 DEF ConnectionInv, Clocks, Paced
  <2>9. idle'["server"] <= quiet'["server"]
    BY <2>2, <2>4
  <2>10. Reached("client")' <= Silence
    <3>1. CASE ctl'["server"] # << >>
      <4>1. Head(ctl'["server"]) \in Message
        BY <2>4, <2>5, <3>1, ReadType
      <4>2. Head(ctl'["server"]).age \in 0 .. MaxDelay
        BY <4>1 DEF Message
      <4>3. Reached("client")' = 0 + MaxDelay - Head(ctl'["server"]).age
        BY <1>1, <2>4, <3>1 DEF Reached
      <4>. QED  BY <2>1, <2>6, <4>2, <4>3
    <3>2. CASE ctl'["server"] = << >>
      <4>1. Reached("client")' = 0 + wait["server"] + MaxLate + MaxDelay
        BY <1>1, <2>4, <3>2 DEF Reached
      <4>. QED  BY <2>1, <2>6, <2>8, <4>1
    <3>. QED  BY <3>1, <3>2
  <2>11. Reached("server")' <= Silence
    <3>1. Reached("server")' = quiet["server"] + config.interval + MaxLate + MaxDelay
      BY <1>1, <2>4 DEF Reached
    <3>. QED  BY <2>1, <2>6, <2>8, <3>1
  <2>12. \A s \in Sides : stop'[s] = "no" /\ quic'[s] = "open"
    BY <1>1, <1>2, <2>2, <2>3 DEF Sides
  <2>13. \A i \in DOMAIN ctl'["client"] : FALSE
    BY <2>4
  <2>14. ASSUME NEW s \in Sides
         PROVE  /\ phase'[s] = "up" /\ task'[s] = "running"
                /\ \A i \in DOMAIN ctl'[s] : ctl'[s][i].kind \in {"Keepalive", "KeepaliveAck"}
                /\ idle'[s] <= quiet'[s]
                /\ Reached(s)' <= Silence'
    <3>1. CASE s = "client"
      BY <1>5, <2>4, <2>7, <2>10, <2>13, <3>1
    <3>2. CASE s = "server"
      BY <1>5, <2>4, <2>5, <2>7, <2>9, <2>11, <3>2
    <3>. QED  BY <3>1, <3>2 DEF Sides
  <2>. QED  BY <2>12, <2>14 DEF Beating
<1>. QED  BY <1>6, <1>7 DEF Beating

-----------------------------------------------------------------------------
(* How a healthy connection goes on.                                        *)

\* A step that touches nothing of it.
LEMMA HealthFrame ==
    ASSUME Asked, Answered, Beating,
           UNCHANGED <<config, phase, quic, task, ctl, stop, wait, quiet, idle>>
    PROVE  Asked' /\ Answered' /\ Beating'
<1>1. Asked' /\ Answered'
  BY DEF Asked, Answered
<1>2. \A s \in Sides : Reached(s)' = Reached(s) /\ Silence' = Silence
  BY DEF Reached, Silence
<1>3. Beating'
  BY <1>2 DEF Beating
<1>. QED  BY <1>1, <1>3

\* Who has a task or a handle is up.
LEMMA OnlyUp ==
    ASSUME ConnectionInv, HealthInv, NEW s \in Sides, phase[s] # "up"
    PROVE  task[s] # "running" /\ s \notin handle
BY DEF ConnectionInv, Paced, HealthInv, Tasked

LEMMA AskedKept ==
    ASSUME ConnectionInv, HealthInv, Asked, NEW s \in Sides, Elsewhere(s)
    PROVE  Asked'
<1>1. phase' = phase
  BY ElsewhereFrame
<1> SUFFICES ASSUME phase["client"] = "hello", phase["server"] # "up"
             PROVE  UNCHANGED <<ctl, stop>>
  BY <1>1 DEF Asked
<1>2. \A t \in Sides : task[t] # "running" /\ t \notin handle /\ stop[t] = "no"
  BY OnlyUp DEF Sides, Asked
<1>3. /\ ~KeepaliveTick(s) /\ ~HearKeepalive(s) /\ ~HearFin(s) /\ ~DropConnection(s)
      /\ ~StopArrives(s)
  BY <1>2 DEF KeepaliveTick, HearKeepalive, HearFin, DropConnection, StopArrives, Working
<1>. QED
  BY <1>3 DEF Elsewhere, TaskFails, IdleOut, Close, OpenMani, AcceptMani, LoseConnection

LEMMA AnsweredKept ==
    ASSUME ConnectionInv, HelloInv, HealthInv, BeatsFit, Healthy, Asked, Answered, Beating,
           NEW s \in Sides, Elsewhere(s), ~DropConnection(s), ~Close(s)
    PROVE  Answered'
<1>1. /\ UNCHANGED <<config, phase>> /\ \A t \in Sides : quic'[t] = "open" => quic[t] = "open"
  BY ElsewhereFrame
<1>2. "client" \in Sides /\ "server" \in Sides /\ "client" # "server" /\ Other("server") = "client"
      /\ Other("client") = "server"
  BY DEF Sides, Other
<1> SUFFICES ASSUME phase["client"] = "hello", phase["server"] = "up",
                    config.interval > 0, quic["client"] = "open", quic'["client"] = "open"
             PROVE  Answered'
  BY <1>1, <1>2 DEF Answered
<1>3. /\ quic["server"] = "open" /\ task["server"] = "running"
      /\ \A t \in Sides : stop[t] = "no" /\ ~cut
      /\ ctl["client"] = << >>
      /\ ctl["server"] # << >>
  BY DEF Answered, Healthy
<1>4. task["client"] # "running"
  BY <1>2, OnlyUp
<1>5. ~TooQuiet("server") /\ ~(idle["server"] >= QuicIdle)
  BY AnsweredCalm
<1>6. ~HearKeepalive(s) /\ ~HearFin(s)
  <2>1. CASE s = "client"
    BY <1>4, <2>1 DEF HearKeepalive, HearFin
  <2>2. CASE s = "server"
    BY <1>2, <1>3, <2>2 DEF HearKeepalive, HearFin, Arrived
  <2>. QED  BY <2>1, <2>2 DEF Sides
<1>7. ~TaskFails(s) /\ ~StopArrives(s)
  <2>1. quic[s] = "open" /\ stop[s] = "no"
    BY <1>3 DEF Sides
  <2>. QED  BY <2>1 DEF TaskFails, StopArrives, Ended
<1>8. ~IdleOut(s) /\ ~LoseConnection(s)
  <2>1. CASE s = "client"
    <3>1. quic'[s] = "open" /\ quic \in [Sides -> Ended \cup {"none", "open"}]
      BY <2>1 DEF ConnectionInv, Statuses
    <3>. QED  BY <3>1 DEF IdleOut, LoseConnection
  <2>2. CASE s = "server"
    BY <1>2, <1>3, <1>5, <2>2 DEF IdleOut, LoseConnection, Ended
  <2>. QED  BY <2>1, <2>2 DEF Sides
<1>9. CASE OpenMani(s) \/ AcceptMani(s)
  <2>1. UNCHANGED <<config, phase, quic, task, ctl, stop, wait, quiet, idle>>
    BY <1>9 DEF OpenMani, AcceptMani, clocks
  <2>. QED  BY <2>1, HealthFrame
<1>10. CASE KeepaliveTick(s)
  <2> DEFINE beat == Msg("Keepalive", << >>)
             q == ctl["server"]
  <2>1. s = "server"
    BY <1>4, <1>10 DEF KeepaliveTick, Working, Sides
  <2>2. /\ ctl' = Write(ctl, "server", beat) /\ UNCHANGED <<task, quic, stop, quiet, idle>>
    BY <1>2, <1>3, <1>5, <1>10, <2>1 DEF KeepaliveTick
  <2>3. beat \in Message /\ beat.kind = "Keepalive" /\ q \in Seq(Message)
    BY <1>2, MessageTypes DEF Msg, ConnectionInv, Control
  <2>. HIDE DEF beat
  <2>4. ctl'["server"] = Append(q, beat) /\ ctl'["client"] = << >>
    <3>1. ctl' = [ctl EXCEPT !["server"] = Append(@, beat)]
      BY <1>2, <1>3, <2>2 DEF Write, Heard
    <3>. QED  BY <1>2, <1>3, <3>1 DEF ConnectionInv, Control
  <2>5. /\ Append(q, beat) \in Seq(Message) /\ Append(q, beat) # << >>
        /\ Len(Append(q, beat)) = Len(q) + 1
        /\ Append(q, beat)[Len(q) + 1] = beat
        /\ \A i \in 1 .. Len(q) : Append(q, beat)[i] = q[i]
        /\ Head(Append(q, beat)) = Head(q)
    BY <1>3, <2>3, WriteHead
  <2>6. DOMAIN q = 1 .. Len(q) /\ Len(q) \in Nat /\ Len(q) # 0
    BY <1>3, <2>3
  <2>7. \A i \in DOMAIN q : q[i].kind = IF i = 1 THEN "ServerHello" ELSE "Keepalive"
    BY DEF Answered
  <2>8. ASSUME NEW i \in DOMAIN Append(q, beat)
        PROVE  Append(q, beat)[i].kind = IF i = 1 THEN "ServerHello" ELSE "Keepalive"
    <3>1. i \in 1 .. Len(q) + 1
      BY <2>5, <2>6, <2>8
    <3>2. CASE i = Len(q) + 1
      BY <2>3, <2>5, <2>6, <3>2
    <3>3. CASE i # Len(q) + 1
      <4>1. i \in 1 .. Len(q)
        BY <2>6, <3>1, <3>3
      <4>. QED  BY <2>5, <2>6, <2>7, <4>1
    <3>. QED  BY <3>2, <3>3
  <2>9. quiet["server"] <= Head(q).age /\ idle["server"] <= quiet["server"]
    BY DEF Answered
  <2>. HIDE DEF q
  <2>10. /\ quic'["server"] = "open" /\ task'["server"] = "running"
         /\ \A t \in Sides : stop'[t] = "no"
         /\ quiet'["server"] <= Head(q).age /\ idle'["server"] <= quiet'["server"]
    BY <1>3, <2>2, <2>9
  <2> DEFINE r == ctl'["server"]
  <2>11. /\ r # << >> /\ Head(r) = Head(q)
         /\ \A i \in DOMAIN r : r[i].kind = IF i = 1 THEN "ServerHello" ELSE "Keepalive"
    BY <2>4, <2>5, <2>8
  <2>. QED  BY <2>4, <2>10, <2>11 DEF Answered
<1>. QED  BY <1>6, <1>7, <1>8, <1>9, <1>10 DEF Elsewhere

\* What is written in time reaches the other side in time.
LEMMA SaidInTime ==
    ASSUME ConnectionInv, HelloInv, BeatsFit, Beating,
           phase["client"] = "up", config.interval > 0, NEW s \in Sides,
           NEW m \in Message, m.age = 0,
           ctl'[Other(s)] = Append(ctl[Other(s)], m), quiet'[s] = quiet[s]
    PROVE  Reached(s)' <= Silence
<1> DEFINE o == Other(s)
           q == ctl[o]
<1>1. o \in Sides /\ q \in Seq(Message)
  BY Others DEF ConnectionInv, Control
<1>2. Append(q, m) # << >> /\ Head(Append(q, m)) = IF q = << >> THEN m ELSE Head(q)
  BY <1>1, WriteHead
<1>3. Reached(s)' = quiet[s] + MaxDelay - Head(Append(q, m)).age
  BY <1>2 DEF Reached
<1>4. Reached(s) <= Silence
  BY DEF Beating
<1>5. CASE q # << >>
  BY <1>2, <1>3, <1>4, <1>5 DEF Reached
<1>6. CASE q = << >>
  <2>1. quiet[s] + wait[o] + MaxLate + MaxDelay <= Silence
    BY <1>4, <1>6 DEF Reached
  <2>2. Reached(s)' = quiet[s] + MaxDelay - 0
    BY <1>2, <1>3, <1>6
  <2>3. quiet[s] \in Nat /\ wait[o] \in Int /\ -MaxLate <= wait[o]
    BY <1>1, BeatingCalm
  <2>4. Silence \in Nat /\ MaxDelay \in Nat /\ MaxLate \in Nat
    BY Margins
  <2>. HIDE DEF o
  <2>. QED  BY ONLY <2>1, <2>2, <2>3, <2>4
<1>. QED  BY <1>5, <1>6

LEMMA TickKept ==
    ASSUME ConnectionInv, HelloInv, BeatsFit, Healthy, Beating,
           phase["client"] = "up", config.interval > 0,
           NEW s \in Sides, KeepaliveTick(s)
    PROVE  Beating'
<1> DEFINE beat == Msg("Keepalive", << >>)
           o == Other(s)
<1>1. /\ o \in Sides /\ o # s /\ Other(o) = s /\ \A t \in Sides : t = s \/ t = o
  BY Others DEF Other, Sides
<1>2. /\ \A t \in Sides : /\ phase[t] = "up" /\ quic[t] = "open" /\ task[t] = "running"
                          /\ stop[t] = "no" /\ idle[t] <= quiet[t]
                          /\ \A i \in DOMAIN ctl[t] : ctl[t][i].kind \in {"Keepalive", "KeepaliveAck"}
                          /\ Reached(t) <= Silence
      /\ ~cut
  BY DEF Beating, Healthy
<1>3. ~TooQuiet(s)
  BY BeatingCalm
<1>4. /\ ctl' = Write(ctl, s, beat)
      /\ UNCHANGED <<config, phase, task, quic, stop, quiet, idle>>
      /\ wait' = [wait EXCEPT ![s] = @ + agreed[s].interval]
  BY <1>2, <1>3 DEF KeepaliveTick
<1>5. beat \in Message /\ beat.kind = "Keepalive" /\ beat.age = 0
  BY MessageTypes DEF Msg
<1>. HIDE DEF beat
<1>6. /\ ctl' = [ctl EXCEPT ![s] = Append(@, beat)] /\ ctl \in [Sides -> Seq(Message)]
  BY <1>2, <1>4 DEF Write, Heard, ConnectionInv, Control
<1>7. ctl'[s] = Append(ctl[s], beat) /\ ctl'[o] = ctl[o] /\ wait'[o] = wait[o]
  BY <1>1, <1>4, <1>6 DEF ConnectionInv, Clocks
<1>8. Silence' = Silence
  BY <1>4 DEF Silence
<1>9. Reached(s)' <= Silence
  <2>1. Reached(s)' = Reached(s)
    BY <1>4, <1>7 DEF Reached
  <2>. QED  BY <1>2, <2>1
<1>10. Reached(o)' <= Silence
  <2>1. ctl'[Other(o)] = Append(ctl[Other(o)], beat) /\ quiet'[o] = quiet[o]
    BY <1>1, <1>4, <1>7
  <2>. QED  BY <1>1, <1>5, <2>1, SaidInTime
<1>11. ASSUME NEW i \in DOMAIN ctl'[s] PROVE ctl'[s][i].kind \in {"Keepalive", "KeepaliveAck"}
  <2>1. i \in DOMAIN Append(ctl[s], beat) /\ ctl[s] \in Seq(Message)
    BY <1>6, <1>7
  <2>2. \/ i \in DOMAIN ctl[s] /\ ctl'[s][i] = ctl[s][i]
        \/ ctl'[s][i] = beat
    BY <1>5, <1>7, <2>1
  <2>. QED  BY <1>2, <1>5, <2>2
<1>12. ASSUME NEW i \in DOMAIN ctl'[o] PROVE ctl'[o][i].kind \in {"Keepalive", "KeepaliveAck"}
  BY <1>1, <1>2, <1>7
<1>13. ASSUME NEW t \in Sides
       PROVE  /\ phase'[t] = "up" /\ quic'[t] = "open" /\ task'[t] = "running" /\ stop'[t] = "no"
              /\ idle'[t] <= quiet'[t]
  BY <1>2, <1>4
<1>14. ASSUME NEW t \in Sides
       PROVE  /\ \A i \in DOMAIN ctl'[t] : ctl'[t][i].kind \in {"Keepalive", "KeepaliveAck"}
              /\ Reached(t)' <= Silence'
  <2>1. t = s \/ t = o
    BY <1>1
  <2>. HIDE DEF o
  <2>. QED  BY <1>8, <1>9, <1>10, <1>11, <1>12, <2>1
<1>. QED  BY <1>13, <1>14 DEF Beating

LEMMA HearKept ==
    ASSUME ConnectionInv, HelloInv, BeatsFit, Healthy, Beating,
           phase["client"] = "up", config.interval > 0,
           NEW s \in Sides, HearKeepalive(s)
    PROVE  Beating'
<1> DEFINE ack == Msg("KeepaliveAck", << >>)
           o == Other(s)
           read == [ctl EXCEPT ![o] = Tail(@)]
<1>1. /\ o \in Sides /\ o # s /\ Other(o) = s /\ \A t \in Sides : t = s \/ t = o
  BY Others DEF Other, Sides
<1>2. /\ \A t \in Sides : /\ phase[t] = "up" /\ quic[t] = "open" /\ task[t] = "running"
                          /\ stop[t] = "no" /\ idle[t] <= quiet[t]
                          /\ \A i \in DOMAIN ctl[t] : ctl[t][i].kind \in {"Keepalive", "KeepaliveAck"}
                          /\ Reached(t) <= Silence
      /\ ~cut
  BY DEF Beating, Healthy
<1>3. /\ ctl[o] # << >>
      /\ ctl' = Write(read, s, ack) \/ ctl' = read
      /\ UNCHANGED <<config, phase, task, quic, stop, wait>>
      /\ quiet' = [quiet EXCEPT ![s] = 0] /\ idle' = [idle EXCEPT ![s] = 0]
  BY <1>2 DEF HearKeepalive, Arrived
<1>4. ack \in Message /\ ack.kind = "KeepaliveAck" /\ ack.age = 0
  BY MessageTypes DEF Msg
<1>5. ctl \in [Sides -> Seq(Message)] /\ ctl[o] \in Seq(Message)
  BY <1>1 DEF ConnectionInv, Control
<1>. HIDE DEF ack
<1>6. ctl'[s] = ctl[s] \/ ctl'[s] = Append(ctl[s], ack)
  BY <1>1, <1>2, <1>3, <1>5 DEF Write, Heard
<1>7. ctl'[o] = Tail(ctl[o])
  BY <1>1, <1>2, <1>3, <1>5 DEF Write, Heard
<1>8. /\ quiet'[s] = 0 /\ idle'[s] = 0 /\ quiet'[o] = quiet[o] /\ idle'[o] = idle[o]
      /\ Silence' = Silence
  BY <1>1, <1>3 DEF ConnectionInv, Clocks, Silence
<1>. HIDE DEF read
<1>9. Reached(s)' <= Silence
  <2>0. /\ Silence \in Nat /\ MaxDelay \in Nat /\ MaxLate \in Nat /\ config.interval \in Nat
        /\ Silence = config.interval + MaxLate + MaxDelay + MaxDelay
    BY Margins
  <2>1. CASE ctl'[o] # << >>
    <3>1. Head(ctl'[o]) \in Message
      BY <1>3, <1>5, <1>7, <2>1, ReadType
    <3>2. Head(ctl'[o]).age \in 0 .. MaxDelay
      BY <3>1 DEF Message
    <3>3. Reached(s)' = 0 + MaxDelay - Head(ctl'[o]).age
      BY <1>8, <2>1 DEF Reached
    <3>. HIDE DEF o
    <3>. QED  BY ONLY <2>0, <3>2, <3>3
  <2>2. CASE ctl'[o] = << >>
    <3>1. Reached(s)' = 0 + wait[o] + MaxLate + MaxDelay
      BY <1>3, <1>8, <2>2 DEF Reached
    <3>2. wait[o] \in Int /\ wait[o] <= config.interval
      BY <1>1, BeatingCalm
    <3>. HIDE DEF o
    <3>. QED  BY ONLY <2>0, <3>1, <3>2
  <2>. QED  BY <2>1, <2>2
<1>10. Reached(o)' <= Silence
  <2>1. CASE ctl'[s] = ctl[s]
    <3>1. Reached(o)' = Reached(o)
      BY <1>1, <1>3, <1>8, <2>1 DEF Reached
    <3>. QED  BY <1>1, <1>2, <3>1
  <2>2. CASE ctl'[s] = Append(ctl[s], ack)
    <3>1. ctl'[Other(o)] = Append(ctl[Other(o)], ack) /\ quiet'[o] = quiet[o]
      BY <1>1, <1>8, <2>2
    <3>. QED  BY <1>1, <1>4, <3>1, SaidInTime
  <2>. QED  BY <1>6, <2>1, <2>2
<1>11. ASSUME NEW i \in DOMAIN ctl'[s] PROVE ctl'[s][i].kind \in {"Keepalive", "KeepaliveAck"}
  <2>1. CASE ctl'[s] = ctl[s]
    BY <1>2, <1>11, <2>1
  <2>2. CASE ctl'[s] = Append(ctl[s], ack)
    <3>1. i \in DOMAIN Append(ctl[s], ack) /\ ctl[s] \in Seq(Message)
      BY <1>5, <1>11, <2>2
    <3>2. \/ i \in DOMAIN ctl[s] /\ ctl'[s][i] = ctl[s][i]
          \/ ctl'[s][i] = ack
      BY <1>4, <2>2, <3>1
    <3>. QED  BY <1>2, <1>4, <3>2
  <2>. QED  BY <1>6, <2>1, <2>2
<1>12. ASSUME NEW i \in DOMAIN ctl'[o] PROVE ctl'[o][i].kind \in {"Keepalive", "KeepaliveAck"}
  <2>1. i + 1 \in DOMAIN ctl[o] /\ ctl'[o][i] = ctl[o][i + 1]
    BY <1>3, <1>5, <1>7, <1>12, TailCarries
  <2>. QED  BY <1>1, <1>2, <2>1
<1>13. ASSUME NEW t \in Sides
       PROVE  /\ phase'[t] = "up" /\ quic'[t] = "open" /\ task'[t] = "running" /\ stop'[t] = "no"
  BY <1>2, <1>3
<1>14. ASSUME NEW t \in Sides
       PROVE  /\ \A i \in DOMAIN ctl'[t] : ctl'[t][i].kind \in {"Keepalive", "KeepaliveAck"}
              /\ Reached(t)' <= Silence' /\ idle'[t] <= quiet'[t]
  <2>1. t = s \/ t = o
    BY <1>1
  <2>2. idle'[s] <= quiet'[s] /\ idle'[o] <= quiet'[o]
    BY <1>1, <1>2, <1>8
  <2>. HIDE DEF o
  <2>. QED  BY <1>8, <1>9, <1>10, <1>11, <1>12, <2>1, <2>2
<1>. QED  BY <1>13, <1>14 DEF Beating

LEMMA BeatingKept ==
    ASSUME ConnectionInv, HelloInv, HealthInv, BeatsFit, Healthy, Asked, Answered, Beating,
           NEW s \in Sides, Elsewhere(s), ~DropConnection(s), ~Close(s)
    PROVE  Beating'
<1>1. UNCHANGED <<config, phase>>
  BY ElsewhereFrame
<1> SUFFICES ASSUME phase["client"] = "up", config.interval > 0
             PROVE  Beating'
  BY <1>1 DEF Beating
<1>2. \A t \in Sides : /\ quic[t] = "open" /\ stop[t] = "no" /\ ~(idle[t] >= QuicIdle)
  BY BeatingCalm
<1>3. ~TaskFails(s) /\ ~IdleOut(s) /\ ~StopArrives(s) /\ ~LoseConnection(s)
  BY <1>2, Others DEF TaskFails, IdleOut, StopArrives, LoseConnection, Ended
<1>4. ~HearFin(s)
  <2> SUFFICES ASSUME HearFin(s) PROVE FALSE
    OBVIOUS
  <2>1. /\ Other(s) \in Sides /\ ctl[Other(s)] # << >> /\ Head(ctl[Other(s)]).kind = "Fin"
        /\ ctl[Other(s)] \in Seq(Message)
    BY Others DEF HearFin, Arrived, ConnectionInv, Control
  <2>2. 1 \in DOMAIN ctl[Other(s)] /\ Head(ctl[Other(s)]) = ctl[Other(s)][1]
    BY <2>1
  <2>3. ctl[Other(s)][1].kind \in {"Keepalive", "KeepaliveAck"}
    BY <2>1, <2>2 DEF Beating
  <2>. QED  BY <2>1, <2>2, <2>3
<1>5. CASE OpenMani(s) \/ AcceptMani(s)
  <2>1. UNCHANGED <<config, phase, quic, task, ctl, stop, wait, quiet, idle>>
    BY <1>5 DEF OpenMani, AcceptMani, clocks
  <2>. QED  BY <2>1, HealthFrame
<1>6. CASE KeepaliveTick(s)
  BY <1>6, TickKept
<1>7. CASE HearKeepalive(s)
  BY <1>7, HearKept
<1>. QED  BY <1>3, <1>4, <1>5, <1>6, <1>7 DEF Elsewhere

\* What passing time does to the clocks of a side that is up and open.
LEMMA ClocksRun ==
    ASSUME ConnectionInv, TimePasses, NEW s \in Sides, phase[s] = "up", quic[s] = "open",
           task[s] = "running", quiet[s] <= Patience(s)
    PROVE  /\ quiet'[s] = quiet[s] + 1 /\ idle'[s] = idle[s] + 1
           /\ wait'[s] = wait[s] - 1 /\ ~(wait[s] <= -MaxLate)
<1>1. /\ quiet'[s] = Min({quiet[s] + 1, QuietCap(s)}) /\ idle'[s] = idle[s] + 1
      /\ wait'[s] = wait[s] - 1
  BY DEF TimePasses, Working
<1>2. /\ quiet[s] \in Nat /\ Patience(s) \in Nat /\ agreed[s].interval \in Nat
      /\ QuietCap(s) \in Nat /\ MaxLate \in Nat
  BY PatienceType, ConnectionAssumption
     DEF ConnectionInv, Clocks, Agreements, ConnectionAssumption
<1>3. quiet[s] + 1 <= QuietCap(s)
  BY <1>2 DEF QuietCap, QuietBound
<1>4. Min({quiet[s] + 1, QuietCap(s)}) = quiet[s] + 1
  <2> DEFINE a == quiet[s] + 1
             b == QuietCap(s)
             m == Min({a, b})
  <2>1. a \in Nat /\ b \in Nat /\ a <= b
    BY <1>2, <1>3
  <2>. HIDE DEF a, b
  <2>2. m \in Nat /\ m \in {a, b} /\ m <= a /\ m <= b
    BY <2>1, MinOfTwo
  <2>. HIDE DEF m
  <2>3. m = a
    BY <2>1, <2>2
  <2>. QED  BY <2>3 DEF m, a, b
<1>5. ~(wait[s] <= -MaxLate)
  BY DEF TimePasses, Due, Working
<1>. QED  BY <1>1, <1>4, <1>5

\* The message that arrives next has not been under way for MaxDelay when time
\* passes, and then has for one unit more.
LEMMA HeadRuns ==
    ASSUME ConnectionInv, TimePasses, ~cut, NEW s \in Sides, Reads(s),
           \A t \in Sides : quic[t] = "open", ctl[Other(s)] # << >>
    PROVE  Head(ctl'[Other(s)]).age = Head(ctl[Other(s)]).age + 1
<1> DEFINE o == Other(s)
           h == Head(ctl[o])
<1>1. o \in Sides /\ ctl[o] \in Seq(Message) /\ ctl'[o] \in Seq(Message)
  BY Others, Aged DEF ConnectionInv, Control
<1>2. ~(h.age >= MaxDelay)
  BY DEF TimePasses, Due
<1>3. h \in Message /\ h.age \in Nat /\ MaxDelay \in Nat
  BY <1>1, HeadAge, ConnectionAssumption DEF ConnectionAssumption
<1>4. Head(ctl'[o]) = Older(h)
  <2>1. 1 \in 1 .. Len(ctl[o]) /\ h = ctl[o][1]
    BY <1>1
  <2>2. ctl'[o] # << >>
    BY <1>1, OldEmpty
  <2>3. Head(ctl'[o]) = ctl'[o][1]
    BY <1>1, <2>2
  <2>4. ctl'[o][1] = Older(ctl[o][1])
    BY <1>1, <2>1, Aged
  <2>. QED  BY <2>1, <2>3, <2>4
<1>5. Older(h).age = Min({h.age + 1, MaxDelay})
  BY <1>3 DEF Older, Message
<1>6. Min({h.age + 1, MaxDelay}) = h.age + 1
  <2> DEFINE a == h.age + 1
             m == Min({a, MaxDelay})
  <2>1. a \in Nat /\ a <= MaxDelay
    BY <1>2, <1>3
  <2>. HIDE DEF a
  <2>2. m \in Nat /\ m \in {a, MaxDelay} /\ m <= a /\ m <= MaxDelay
    BY <1>3, <2>1, MinOfTwo
  <2>. HIDE DEF m
  <2>3. m = a
    BY <1>3, <2>1, <2>2
  <2>. QED  BY <2>3 DEF m, a
<1>. QED  BY <1>4, <1>5, <1>6

\* Kinds do not change with time.
LEMMA KindsStay ==
    ASSUME ConnectionInv, TimePasses, NEW s \in Sides, NEW i \in DOMAIN ctl'[s]
    PROVE  i \in DOMAIN ctl[s] /\ ctl'[s][i].kind = ctl[s][i].kind
<1>1. /\ ctl[s] \in Seq(Message) /\ ctl'[s] \in Seq(Message) /\ Len(ctl'[s]) = Len(ctl[s])
  BY Aged DEF ConnectionInv, Control
<1>2. i \in 1 .. Len(ctl[s]) /\ i \in DOMAIN ctl[s]
  BY <1>1
<1>3. ctl'[s][i] = Older(ctl[s][i]) /\ ctl[s][i] \in Message
  BY <1>1, <1>2, Aged
<1>4. Older(ctl[s][i]).kind = ctl[s][i].kind
  BY <1>3 DEF Older, Message
<1>. QED  BY <1>2, <1>3, <1>4

LEMMA TimeHealth ==
    ASSUME ConnectionInv, HelloInv, HealthInv, BeatsFit, Healthy, Asked, Answered, Beating,
           TimePasses
    PROVE  Asked' /\ Answered' /\ Beating'
<1>1. UNCHANGED <<config, phase, quic, task, stop>> /\ ~cut
  BY DEF TimePasses, Healthy
<1>2. /\ "client" \in Sides /\ "server" \in Sides
      /\ Other("client") = "server" /\ Other("server") = "client"
  BY DEF Sides, Other
<1>3. Asked'
  <2> SUFFICES ASSUME phase["client"] = "hello", phase["server"] # "up"
               PROVE  /\ phase'["server"] = "connecting"
                      /\ ctl'["server"] = << >> /\ Len(ctl'["client"]) = 1
                      /\ \A s \in Sides : stop'[s] = "no"
    BY <1>1 DEF Asked
  <2>1. ctl["server"] = << >> /\ Len(ctl["client"]) = 1 /\ phase["server"] = "connecting"
        /\ \A s \in Sides : stop[s] = "no"
    BY DEF Asked
  <2>2. ctl'["server"] = << >>
    BY <1>2, <2>1, OldEmpty
  <2>3. Len(ctl'["client"]) = 1
    BY <1>2, <2>1, Aged
  <2>. QED  BY <1>1, <2>1, <2>2, <2>3
<1>4. ASSUME phase["client"] = "hello", phase["server"] = "up", config.interval > 0,
             quic["client"] = "open"
      PROVE  Answered'
  <2>1. /\ quic["server"] = "open" /\ task["server"] = "running"
        /\ \A s \in Sides : stop[s] = "no"
        /\ ctl["client"] = << >> /\ ctl["server"] # << >>
        /\ \A i \in DOMAIN ctl["server"] :
              ctl["server"][i].kind = IF i = 1 THEN "ServerHello" ELSE "Keepalive"
        /\ quiet["server"] <= Head(ctl["server"]).age
        /\ idle["server"] <= quiet["server"]
    BY <1>4 DEF Answered
  <2>2. ctl'["client"] = << >> /\ ctl'["server"] # << >>
    BY <1>2, <2>1, OldEmpty
  <2>3. \A i \in DOMAIN ctl'["server"] :
           ctl'["server"][i].kind = IF i = 1 THEN "ServerHello" ELSE "Keepalive"
    BY <1>2, <2>1, KindsStay
  <2>4. Head(ctl'["server"]).age = Head(ctl["server"]).age + 1
    <3>1. Reads("client") /\ \A t \in Sides : quic[t] = "open"
      BY <1>4, <2>1 DEF Reads, InHandshake, Sides
    <3>. QED  BY <1>1, <1>2, <2>1, <3>1, HeadRuns
  <2>5. quiet["server"] \in Nat /\ quiet["server"] <= Patience("server")
    <3>1. quiet["server"] \in Nat /\ quiet["server"] <= MaxDelay
      BY <1>4, AnsweredCalm
    <3>2. MaxDelay \in Nat /\ Silence \in Nat /\ MaxDelay <= Silence
          /\ Patience("server") \in Nat /\ Silence <= Patience("server")
      BY <1>2, <1>4, Margins
    <3>. QED  BY ONLY <3>1, <3>2
  <2>6. quiet'["server"] = quiet["server"] + 1 /\ idle'["server"] = idle["server"] + 1
    BY <1>2, <1>4, <2>1, <2>5, ClocksRun
  <2>7. idle["server"] \in Nat /\ Head(ctl["server"]).age \in Nat
    BY <1>2, <2>1, HeadAge DEF ConnectionInv, Clocks
  <2>8. quiet'["server"] <= Head(ctl'["server"]).age /\ idle'["server"] <= quiet'["server"]
    BY <2>1, <2>4, <2>5, <2>6, <2>7
  <2>. QED  BY <1>1, <2>1, <2>2, <2>3, <2>8 DEF Answered
<1>5. ASSUME phase["client"] = "up", config.interval > 0
      PROVE  Beating'
  <2>1. Silence' = Silence
    BY <1>1 DEF Silence
  <2>2. \A s \in Sides : /\ phase[s] = "up" /\ quic[s] = "open" /\ task[s] = "running"
                         /\ stop[s] = "no" /\ idle[s] <= quiet[s]
                         /\ idle[s] \in Nat /\ quiet[s] \in Nat /\ wait[s] \in Int
                         /\ quiet[s] <= Silence
    BY <1>5, BeatingCalm
  <2>3. ASSUME NEW s \in Sides
        PROVE  quiet'[s] = quiet[s] + 1 /\ idle'[s] = idle[s] + 1 /\ wait'[s] = wait[s] - 1
    <3>1. quiet[s] <= Patience(s)
      <4>1. Silence \in Nat /\ Patience(s) \in Nat /\ Silence <= Patience(s)
        BY <1>5, Margins
      <4>2. quiet[s] \in Nat /\ quiet[s] <= Silence
        BY <2>2
      <4>. QED  BY ONLY <4>1, <4>2
    <3>. QED  BY <2>2, <3>1, ClocksRun
  <2>4. ASSUME NEW s \in Sides
        PROVE  Reached(s)' <= Silence
    <3> DEFINE o == Other(s)
    <3>1. o \in Sides
      BY Others
    <3>2. Reached(s) <= Silence
      BY <1>5 DEF Beating
    <3>3. CASE ctl[o] # << >>
      <4>1. ctl'[o] # << >>
        BY <3>1, <3>3, OldEmpty
      <4>2. Head(ctl'[o]).age = Head(ctl[o]).age + 1
        BY <1>1, <2>2, <3>3, HeadRuns DEF Reads
      <4>3. Head(ctl[o]).age \in Nat /\ quiet[s] \in Nat /\ MaxDelay \in Nat
        BY <1>5, <2>2, <3>1, <3>3, HeadAge, Margins
      <4>4. Reached(s)' = quiet'[s] + MaxDelay - Head(ctl'[o]).age
        BY <4>1 DEF Reached
      <4>5. Reached(s) = quiet[s] + MaxDelay - Head(ctl[o]).age
        BY <3>3 DEF Reached
      <4>6. Reached(s)' = Reached(s)
        BY <2>3, <4>2, <4>3, <4>4, <4>5
      <4>. QED  BY <3>2, <4>6
    <3>4. CASE ctl[o] = << >>
      <4>1. ctl'[o] = << >>
        BY <3>1, <3>4, OldEmpty
      <4>2. Reached(s)' = quiet'[s] + wait'[o] + MaxLate + MaxDelay
        BY <4>1 DEF Reached
      <4>3. Reached(s) = quiet[s] + wait[o] + MaxLate + MaxDelay
        BY <3>4 DEF Reached
      <4>4. /\ quiet'[s] = quiet[s] + 1 /\ wait'[o] = wait[o] - 1
            /\ quiet[s] \in Nat /\ wait[o] \in Int /\ MaxLate \in Nat /\ MaxDelay \in Nat
        BY <1>5, <2>2, <2>3, <3>1, Margins
      <4>5. Reached(s)' = Reached(s)
        BY <4>2, <4>3, <4>4
      <4>. QED  BY <3>2, <4>5
    <3>. QED  BY <3>3, <3>4
  <2>5. ASSUME NEW s \in Sides, NEW i \in DOMAIN ctl'[s]
        PROVE  ctl'[s][i].kind \in {"Keepalive", "KeepaliveAck"}
    BY <1>5, KindsStay DEF Beating
  <2>6. \A s \in Sides : idle'[s] <= quiet'[s]
    BY <2>2, <2>3
  <2>. QED  BY <1>1, <2>1, <2>2, <2>4, <2>5, <2>6 DEF Beating
<1>. QED
  BY <1>1, <1>3, <1>4, <1>5 DEF Answered, Beating

LEMMA HealthKept ==
    ASSUME ConnectionInv, HelloInv, HealthInv, BeatsFit, [ConnectionNext]_cvars
    PROVE  HealthInv'
<1>1. Early' /\ Tasked'
  BY EarlyKept, TaskedKept
<1>2. ASSUME Healthy' PROVE Asked' /\ Answered' /\ Beating'
  <2>1. /\ Healthy /\ ~Cut
        /\ \A s \in Sides : ~GiveUpHandshake(s) /\ ~DropConnection(s) /\ ~Close(s)
        /\ AnswerHello => VersionAccepted(Head(ctl["client"]).body[1])
    BY <1>2, HealthyBefore
  <2>2. Asked /\ Answered /\ Beating
    BY <2>1 DEF HealthInv
  <2>3. CASE Connect
    <3>1. phase'["client"] = "connecting"
      BY <2>3 DEF Connect, ConnectionInv, Statuses, Sides
    <3>. QED  BY <3>1 DEF Asked, Answered, Beating
  <2>4. CASE Accept
    <3>1. /\ phase["server"] = "start" /\ phase'["client"] = phase["client"]
      BY <2>4 DEF Accept, ConnectionInv, Statuses, Sides
    <3>2. phase["client"] # "hello" /\ phase["client"] # "up"
      BY <2>2, <3>1 DEF Asked, HelloInv
    <3>. QED  BY <3>1, <3>2 DEF Asked, Answered, Beating
  <2>5. CASE SendClientHello  BY <2>1, <2>5, SendClientHelloHealth
  <2>6. CASE AnswerHello  BY <2>1, <2>6, AnswerHelloHealth
  <2>7. CASE HearServerHello  BY <2>1, <2>7, HearServerHelloHealth
  <2>8. CASE TimePasses  BY <2>1, <2>2, <2>8, TimeHealth
  <2>9. CASE UNCHANGED cvars
    <3>1. UNCHANGED <<config, phase, quic, task, ctl, stop, wait, quiet, idle>>
      BY <2>9 DEF cvars
    <3>. QED  BY <2>2, <3>1, HealthFrame
  <2>10. ASSUME NEW s \in Sides, Elsewhere(s) PROVE Asked' /\ Answered' /\ Beating'
    BY <2>1, <2>2, <2>10, AskedKept, AnsweredKept, BeatingKept
  <2>. QED  BY <2>1, <2>3, <2>4, <2>5, <2>6, <2>7, <2>8, <2>9, <2>10, Places
<1>. QED  BY <1>1, <1>2 DEF HealthInv

\* Keepalives keep a healthy connection open for every interval, timeout and
\* delay, if one interval, the lateness of its timer and the way there and
\* back fit in keepalive_timeout: no side then times the other out, sees the
\* control stream end or lets QUIC idle out (api.rs:785-840).
THEOREM HealthyStaysOpenHolds ==
    ASSUME BeatsFit
    PROVE  ConnectionSpec => []HealthyStaysOpen
<1>1. ConnectionInv /\ HelloInv /\ HealthInv => HealthyStaysOpen
  <2> SUFFICES ASSUME ConnectionInv, HelloInv, HealthInv, ~cut, handle = Sides,
                      \A s \in Sides : quic[s] # "closed", NEW s \in Sides
               PROVE  /\ quic[s] \notin {"timeout", "streamEnded"}
                      /\ quic[s] = "idle" => agreed[s].interval = 0
    BY DEF HealthyStaysOpen
  <2>1. \A t \in Sides : phase[t] = "up"
    BY DEF HealthInv, Tasked
  <2>2. Beating /\ phase["client"] = "up" /\ agreed[s].interval = config.interval
        /\ config.interval \in Nat
    BY <2>1, ConnectionAssumption
       DEF HealthInv, Healthy, Sides, HelloInv, Answer, ConnectionAssumption, ConnectionInv,
           Agreements
  <2>3. CASE config.interval > 0
    BY <2>2, <2>3 DEF Beating
  <2>4. CASE ~(config.interval > 0)
    BY <2>2, <2>4 DEF HealthInv, Tasked
  <2>. QED  BY <2>3, <2>4
<1>2. ConnectionInv /\ HelloInv /\ HealthInv /\ [ConnectionNext]_cvars
        => (ConnectionInv /\ HelloInv /\ HealthInv)'
  BY BeatsFit, NextKeeps, HelloKept, HealthKept
<1>3. ConnectionInit => ConnectionInv /\ HelloInv /\ HealthInv
  BY InvInit, HelloInit, HealthInit
<1>. QED  BY <1>1, <1>2, <1>3, PTL DEF ConnectionSpec
=============================================================================
