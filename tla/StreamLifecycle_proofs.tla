----------------------- MODULE StreamLifecycle_proofs -----------------------
(****************************************************************************)
(* Proofs about StreamLifecycle: its types, and that a task whose handle is *)
(* gone never closes the stream while an answer is still on its way, in     *)
(* whatever order applications and tasks act and however many transfers     *)
(* there are.                                                               *)
(****************************************************************************)
EXTENDS StreamLifecycle, SequenceTheorems, FiniteSetTheorems, TLAPS

\* The answers s owes: to a TransferEnd in the pipeline channel of a reliable
\* sink, to the one the sink has taken, and by an ack about to be written.
Owed(s) ==
    {t \in {"ask", "final", "ack"} \X Nat :
        \/ /\ t[1] = "ask"
           /\ t[2] \in DOMAIN sinks[s]
           /\ sinks[s][t[2]].ask # 0
        \/ /\ t[1] = "final"
           /\ t[2] \in DOMAIN sinks[s]
           /\ sinks[s][t[2]].final # 0
        \/ /\ t[1] = "ack"
           /\ Msg("Ack", t[2]) \in sends[s]}

\* pending_ack_count counts every answer that is owed; it may count more,
\* since a dropped sink answers nothing and is not counted down.
Covered ==
    \A s \in Sides : /\ IsFiniteSet(Owed(s))
                     /\ Cardinality(Owed(s)) <= pending[s]

LifecycleInv == LifecycleTypeOK /\ Covered

-----------------------------------------------------------------------------
(* What the steps share.                                                    *)

LEMMA Others ==
    ASSUME NEW s \in Sides
    PROVE  Other(s) \in Sides /\ Other(s) # s
BY DEF Sides, Other

LEMMA MsgType ==
    ASSUME NEW n \in Nat, NEW k \in {"Start", "Payload", "End", "Ack", "Fin"}
    PROVE  Msg(k, n) \in Messages
BY DEF Msg, Messages

\* A sequence stays one when an element is replaced, wherever that is.
LEMMA Replaced ==
    ASSUME NEW S, NEW q \in Seq(S), NEW n, NEW e, n \in DOMAIN q => e \in S
    PROVE  /\ [q EXCEPT ![n] = e] \in Seq(S)
           /\ DOMAIN [q EXCEPT ![n] = e] = DOMAIN q
<1>1. CASE n \in DOMAIN q
  BY <1>1, ExceptSeq
<1>2. CASE n \notin DOMAIN q
  <2>1. [q EXCEPT ![n] = e] = q
    BY <1>2, q = [i \in 1..Len(q) |-> q[i]]
  <2>. QED  BY <2>1
<1>. QED  BY <1>1, <1>2

\* What is written to the stream is typed.
LEMMA PutType ==
    ASSUME NEW q \in [Sides -> Seq(Messages)], NEW s \in Sides, NEW m \in Messages
    PROVE  Put(q, s, m) \in [Sides -> Seq(Messages)]
<1>1. Append(q[s], m) \in Seq(Messages)
  BY AppendProperties
<1>2. [q EXCEPT ![s] = Append(@, m)] \in [Sides -> Seq(Messages)]
  BY <1>1
<1>. QED  BY <1>2 DEF Put

\* What is left of it once a message is read is, too.
LEMMA RestType ==
    ASSUME LifecycleTypeOK, NEW s \in Sides, wire[Other(s)] # << >>
    PROVE  /\ Rest(s) \in [Sides -> Seq(Messages)]
           /\ First(s) \in Messages
<1>1. Other(s) \in Sides
  BY Others
<1>2. wire[Other(s)] \in Seq(Messages)
  BY <1>1 DEF LifecycleTypeOK
<1>3. Tail(wire[Other(s)]) \in Seq(Messages) /\ Head(wire[Other(s)]) \in Messages
  BY <1>2, HeadTailProperties
<1>. QED  BY <1>1, <1>3 DEF Rest, First, LifecycleTypeOK

\* Calls that fail stay calls.
LEMMA FailedType ==
    ASSUME LifecycleTypeOK, NEW s \in Sides, NEW calls
    PROVE  /\ Failed(s, calls) \in Seq(Transfers)
           /\ DOMAIN Failed(s, calls) = DOMAIN out[s]
<1>1. out[s] \in Seq(Transfers)
  BY DEF LifecycleTypeOK
<1>2. \A n \in 1..Len(out[s]) : out[s][n] \in Transfers
  BY <1>1
<1>3. \A c \in Transfers : [c EXCEPT !.call = "error"] \in Transfers
  BY DEF Transfers
<1>4. Failed(s, calls) \in [1..Len(out[s]) -> Transfers]
  BY <1>1, <1>2, <1>3 DEF Failed
<1>5. Len(out[s]) \in Nat /\ DOMAIN out[s] = 1..Len(out[s])
  BY <1>1, LenProperties
<1>6. Failed(s, calls) \in Seq(Transfers)
  BY <1>4, <1>5, SeqDef
<1>7. DOMAIN Failed(s, calls) = DOMAIN out[s]
  BY DEF Failed
<1>. QED  BY <1>6, <1>7

\* What is left of the state when a task leaves run().
LEMMA LeaveType ==
    ASSUME LifecycleTypeOK, NEW s \in Sides, Leave(s)
    PROVE  /\ over' \in SUBSET Sides
           /\ blocked' \subseteq Sides \ over'
           /\ wire' \in [Sides -> Seq(Messages)]
           /\ role' \in [Sides -> Roles]
           /\ sends' \in [Sides -> SUBSET Messages]
           /\ cmd' \in [Sides -> {"none", "start", "payload"}]
           /\ out' \in [Sides -> Seq(Transfers)]
<1>1. Put(wire, s, Msg("Fin", 0)) \in [Sides -> Seq(Messages)]
  BY PutType, MsgType DEF LifecycleTypeOK
<1>2. << >> \in Seq(Messages)
  OBVIOUS
<1>3. Failed(s, InCall) \in Seq(Transfers)
  BY FailedType
<1>4. Unknown \in Roles
  BY DEF Unknown, Roles
<1>. QED  BY <1>1, <1>2, <1>3, <1>4 DEF LifecycleTypeOK, Leave

\* Waking the sinks keeps them, and what they owe.
LEMMA WokenType ==
    ASSUME NEW sink \in SinkPairs
    PROVE  /\ Woken(sink) \in SinkPairs
           /\ Woken(sink).ask = sink.ask
           /\ Woken(sink).final = sink.final
BY DEF Woken, SinkPairs, SinkStates

LEMMA EndType ==
    ASSUME LifecycleTypeOK, NEW s \in Sides, End(s)
    PROVE  /\ ended' \in SUBSET Sides
           /\ sinks' \in [Sides -> Seq(SinkPairs)]
           /\ \A t \in Sides \ {s} : sinks'[t] = sinks[t]
           /\ DOMAIN sinks'[s] = DOMAIN sinks[s]
           /\ \A n \in DOMAIN sinks[s] : /\ sinks'[s][n].ask = sinks[s][n].ask
                                         /\ sinks'[s][n].final = sinks[s][n].final
<1>1. sinks[s] \in Seq(SinkPairs)
  BY DEF LifecycleTypeOK
<1>2. \A n \in 1..Len(sinks[s]) : sinks[s][n] \in SinkPairs
  BY <1>1
<1>. DEFINE woken == [n \in DOMAIN sinks[s] |-> Woken(sinks[s][n])]
<1>3. woken \in [1..Len(sinks[s]) -> SinkPairs]
  BY <1>1, <1>2, WokenType
<1>4. woken \in Seq(SinkPairs) /\ DOMAIN woken = DOMAIN sinks[s]
  BY <1>1, <1>3, SeqDef
<1>5. sinks' = [sinks EXCEPT ![s] = woken]
  BY DEF End
<1>6. \A n \in DOMAIN sinks[s] : woken[n].ask = sinks[s][n].ask
                                 /\ woken[n].final = sinks[s][n].final
  BY <1>1, <1>2, WokenType
<1>. HIDE DEF woken
<1>7. s \in DOMAIN sinks /\ sinks'[s] = woken
  BY <1>5 DEF LifecycleTypeOK
<1>8. sinks' \in [Sides -> Seq(SinkPairs)]
  BY <1>4, <1>5 DEF LifecycleTypeOK
<1>9. \A t \in Sides \ {s} : sinks'[t] = sinks[t]
  BY <1>5 DEF LifecycleTypeOK
<1>10. ended' \in SUBSET Sides
  BY DEF LifecycleTypeOK, End
<1>. QED  BY <1>4, <1>6, <1>7, <1>8, <1>9, <1>10

\* A role with another waiter is one.
LEMMA WaiterType ==
    ASSUME LifecycleTypeOK, NEW s \in Sides, NEW w \in Nat
    PROVE  [role EXCEPT ![s].waiter = w] \in [Sides -> Roles]
<1>1. role[s] \in Roles
  BY DEF LifecycleTypeOK
<1>2. [role[s] EXCEPT !.waiter = w] \in Roles
  BY <1>1 DEF Roles
<1>. QED  BY <1>2 DEF LifecycleTypeOK

\* Replacing the call of a transfer, or the sinks of one, keeps the types.
LEMMA CallType ==
    ASSUME LifecycleTypeOK, NEW s \in Sides, NEW n, NEW q \in Seq(Transfers),
           NEW c \in InCall \cup {"held", "gone", "ok", "error"}
    PROVE  [out EXCEPT ![s] = [q EXCEPT ![n].call = c]]
                \in [Sides -> Seq(Transfers)]
<1>1. n \in DOMAIN q => [q[n] EXCEPT !.call = c] \in Transfers
  <2>. SUFFICES ASSUME n \in DOMAIN q PROVE [q[n] EXCEPT !.call = c] \in Transfers
    OBVIOUS
  <2>1. q[n] \in Transfers
    BY ElementOfSeq, LenProperties
  <2>. QED  BY <2>1 DEF Transfers
<1>2. [q EXCEPT ![n].call = c] \in Seq(Transfers)
  BY <1>1, Replaced
<1>. QED  BY <1>2 DEF LifecycleTypeOK

LEMMA SinkType ==
    ASSUME LifecycleTypeOK, NEW s \in Sides, NEW n, NEW e,
           n \in DOMAIN sinks[s] => e \in SinkPairs
    PROVE  /\ [sinks EXCEPT ![s][n] = e] \in [Sides -> Seq(SinkPairs)]
           /\ [sinks EXCEPT ![s][n] = e][s] = [sinks[s] EXCEPT ![n] = e]
           /\ \A t \in Sides \ {s} : [sinks EXCEPT ![s][n] = e][t] = sinks[t]
<1>1. sinks[s] \in Seq(SinkPairs)
  BY DEF LifecycleTypeOK
<1>2. [sinks[s] EXCEPT ![n] = e] \in Seq(SinkPairs)
  BY <1>1, Replaced
<1>. QED  BY <1>2 DEF LifecycleTypeOK

-----------------------------------------------------------------------------
(* Every step keeps the types.                                              *)

\* The commands the task obeys.
LEMMA CommandsKeepTypes ==
    ASSUME LifecycleTypeOK, NEW s \in Sides, NEW n,
           StartTransfer(s) \/ SendPayload(s) \/ EndTransfer(s, n)
    PROVE  LifecycleTypeOK'
<1>1. CASE StartTransfer(s)
  <2>. DEFINE new == Len(out[s])
  <2>1. new \in Nat /\ Msg("Start", new) \in Messages
    BY MsgType DEF LifecycleTypeOK
  <2>2. Put(wire, s, Msg("Start", new)) \in [Sides -> Seq(Messages)]
    BY <2>1, PutType DEF LifecycleTypeOK
  <2>3. Sender(new, 0) \in Roles
    BY <2>1 DEF Sender, Roles
  <2>4. Failed(s, {"awaiting"}) \in Seq(Transfers) /\ out[s] \in Seq(Transfers)
    BY FailedType DEF LifecycleTypeOK
  <2>5. /\ [out EXCEPT ![s] = [Failed(s, {"awaiting"}) EXCEPT ![new].call = "held"]]
                \in [Sides -> Seq(Transfers)]
        /\ [out EXCEPT ![s] = [out[s] EXCEPT ![new].call = "error"]]
                \in [Sides -> Seq(Transfers)]
    BY <2>4, CallType
  <2>. DEFINE held == [out EXCEPT ![s] =
                          [Failed(s, {"awaiting"}) EXCEPT ![new].call = "held"]]
              failed == [out EXCEPT ![s][new].call = "error"]
  <2>6. \/ /\ wire' = Put(wire, s, Msg("Start", new))
           /\ role' = [role EXCEPT ![s] = Sender(new, 0)]
           /\ out' = held
        \/ out' = failed /\ wire' = wire /\ role' = role
    BY <1>1, Zenon DEF StartTransfer
  <2>7. held \in [Sides -> Seq(Transfers)] /\ failed \in [Sides -> Seq(Transfers)]
    BY <2>5
  <2>8. /\ cmd' = [cmd EXCEPT ![s] = "none"]
        /\ UNCHANGED <<handle, payloads, sends, pending, ended, closing, blocked,
                       over, lost, messages, sinks, acked>>
    BY <1>1 DEF StartTransfer
  <2>. HIDE DEF held, failed
  <2>. QED  BY <2>2, <2>3, <2>6, <2>7, <2>8 DEF LifecycleTypeOK
<1>2. CASE SendPayload(s)
  <2>1. Put(wire, s, Msg("Payload", 0)) \in [Sides -> Seq(Messages)]
    BY PutType, MsgType DEF LifecycleTypeOK
  <2>2. wire' \in [Sides -> Seq(Messages)]
    BY <1>2, <2>1 DEF SendPayload, LifecycleTypeOK
  <2>. QED  BY <1>2, <2>2 DEF SendPayload, LifecycleTypeOK
<1>3. CASE EndTransfer(s, n)
  <2>. DEFINE F == Failed(s, {"awaiting"})
              e(c) == [m \in DOMAIN out[s] |->
                            IF m = n /\ F[m].call = "ending"
                            THEN [F[m] EXCEPT !.call = c] ELSE F[m]]
  <2>1. F \in Seq(Transfers) /\ DOMAIN F = DOMAIN out[s]
    BY FailedType
  <2>2. ASSUME NEW c \in {"awaiting", "error"}
        PROVE  e(c) \in Seq(Transfers)
    <3>1. \A m \in DOMAIN F : F[m] \in Transfers /\ [F[m] EXCEPT !.call = c] \in Transfers
      <4>1. \A m \in DOMAIN F : F[m] \in Transfers
        BY <2>1, LenProperties, ElementOfSeq
      <4>. QED  BY <4>1 DEF Transfers, InCall
    <3>2. e(c) \in [1..Len(F) -> Transfers]
      BY <2>1, <3>1, LenProperties
    <3>3. Len(F) \in Nat
      BY <2>1, LenProperties
    <3>. HIDE DEF e, F
    <3>. QED  BY <3>2, <3>3, SeqDef
  <2>3. Msg("End", n) \in Messages
    BY <1>3 DEF EndTransfer, LifecycleTypeOK
  <2>4. Put(wire, s, Msg("End", n)) \in [Sides -> Seq(Messages)]
    BY <2>3, PutType DEF LifecycleTypeOK
  <2>5. n \in Nat
    BY <2>3 DEF Msg, Messages
  <2>6. sends' \in [Sides -> SUBSET Messages]
    BY <1>3 DEF EndTransfer, LifecycleTypeOK
  <2>7. CASE role[s].is = "sender"
    <3>1. PICK ok \in BOOLEAN :
              /\ wire' = IF ok THEN Put(wire, s, Msg("End", n)) ELSE wire
              /\ out' = [out EXCEPT ![s] =
                            e(IF ok THEN "awaiting" ELSE "error")]
      BY <1>3, <2>7, Zenon DEF EndTransfer, Written
    <3>2. PICK c \in {"awaiting", "error"} : out' = [out EXCEPT ![s] = e(c)]
      <4>1. CASE ok
        BY <3>1, <4>1, Zenon
      <4>2. CASE ~ok
        BY <3>1, <4>2, Zenon
      <4>. QED  BY <4>1, <4>2
    <3>3. out' \in [Sides -> Seq(Transfers)]
      <4>. HIDE DEF e
      <4>. QED  BY <2>2, <3>2 DEF LifecycleTypeOK
    <3>4. wire' \in [Sides -> Seq(Messages)]
      BY <2>4, <3>1 DEF LifecycleTypeOK
    <3>5. role' \in [Sides -> Roles]
      <4>1. role' = [role EXCEPT ![s].waiter = n]
        BY <1>3, <2>7, Zenon DEF EndTransfer
      <4>. QED  BY <2>5, <4>1, WaiterType
    <3>6. UNCHANGED <<handle, cmd, payloads, pending, ended, closing, blocked,
                      over, lost, messages, sinks, acked>>
      BY <1>3, Zenon DEF EndTransfer
    <3>. HIDE DEF e, F
    <3>. QED  BY <2>6, <3>3, <3>4, <3>5, <3>6 DEF LifecycleTypeOK
  <2>8. CASE role[s].is # "sender"
    <3>1. [out EXCEPT ![s] = [out[s] EXCEPT ![n].call = "error"]]
                \in [Sides -> Seq(Transfers)]
      BY CallType DEF LifecycleTypeOK
    <3>2. out' \in [Sides -> Seq(Transfers)]
      BY <1>3, <2>8, <3>1 DEF EndTransfer, LifecycleTypeOK
    <3>. QED  BY <1>3, <2>6, <2>8, <3>2 DEF EndTransfer, LifecycleTypeOK
  <2>. QED  BY <2>7, <2>8
<1>. QED  BY <1>1, <1>2, <1>3

\* The acknowledgement, whether it can be written or not.
LEMMA AcknowledgeType ==
    ASSUME LifecycleTypeOK, NEW s \in Sides, NEW n \in Nat,
           NEW unread \in [Sides -> Seq(Messages)],
           NEW queue \in [Sides -> SUBSET Messages],
           Acknowledge(s, n, unread, queue)
    PROVE  /\ over' \in SUBSET Sides
           /\ blocked' \subseteq Sides \ over'
           /\ wire' \in [Sides -> Seq(Messages)]
           /\ role' \in [Sides -> Roles]
           /\ sends' \in [Sides -> SUBSET Messages]
           /\ cmd' \in [Sides -> {"none", "start", "payload"}]
           /\ out' \in [Sides -> Seq(Transfers)]
           /\ ended' \in SUBSET Sides
           /\ sinks' \in [Sides -> Seq(SinkPairs)]
           /\ acked' \in [Sides -> SUBSET Nat]
<1>1. ended' \in SUBSET Sides /\ sinks' \in [Sides -> Seq(SinkPairs)]
  BY EndType DEF Acknowledge
<1>2. Put(unread, s, Msg("Ack", n)) \in [Sides -> Seq(Messages)]
  BY PutType, MsgType
<1>3. CASE Leave(s) /\ UNCHANGED acked
  BY <1>1, <1>3, LeaveType DEF LifecycleTypeOK
<1>4. CASE /\ wire' = Put(unread, s, Msg("Ack", n))
           /\ sends' = queue
           /\ acked' = [acked EXCEPT ![s] = @ \cup {n}]
           /\ UNCHANGED <<over, blocked, role, cmd, out>>
  BY <1>1, <1>2, <1>4 DEF LifecycleTypeOK
<1>. QED  BY <1>3, <1>4 DEF Acknowledge

\* The acks the task writes, and the end of its handle.
LEMMA ClosingKeepsTypes ==
    ASSUME LifecycleTypeOK, NEW s \in Sides, NEW n,
           SendAck(s, n) \/ SeeDropped(s) \/ Close(s) \/ Block(s) \/ HandleEof(s)
    PROVE  LifecycleTypeOK'
<1>1. CASE SendAck(s, n)
  <2>1. Msg("Ack", n) \in Messages
    BY <1>1 DEF SendAck, LifecycleTypeOK
  <2>2. n \in Nat
    BY <2>1 DEF Msg, Messages
  <2>3. [sends EXCEPT ![s] = @ \ {Msg("Ack", n)}] \in [Sides -> SUBSET Messages]
    BY DEF LifecycleTypeOK
  <2>4. wire \in [Sides -> Seq(Messages)]
    BY DEF LifecycleTypeOK
  <2>5. pending' \in [Sides -> Nat]
    BY <1>1 DEF SendAck, LifecycleTypeOK
  <2>6. Acknowledge(s, n, wire, [sends EXCEPT ![s] = @ \ {Msg("Ack", n)}])
        /\ UNCHANGED <<handle, payloads, closing, lost, messages>>
    BY <1>1 DEF SendAck
  <2>. QED  BY <2>2, <2>3, <2>4, <2>5, <2>6, AcknowledgeType DEF LifecycleTypeOK
<1>2. CASE SeeDropped(s)
  BY <1>2 DEF SeeDropped, LifecycleTypeOK
<1>3. CASE Close(s) \/ HandleEof(s)
  <2>1. /\ Leave(s)
        /\ UNCHANGED <<handle, payloads, pending, ended, closing, lost, messages,
                       sinks, acked>>
    BY <1>3 DEF Close, HandleEof
  <2>. QED  BY <2>1, LeaveType DEF LifecycleTypeOK
<1>4. CASE Block(s)
  BY <1>4 DEF Block, Running, LifecycleTypeOK
<1>. QED  BY <1>1, <1>2, <1>3, <1>4

\* Passing a message on to the application.
LEMMA PassOnType ==
    ASSUME LifecycleTypeOK, NEW s \in Sides, NEW m \in Nat,
           wire[Other(s)] # << >>, PassOn(s, m),
           s \in handle => /\ role' \in [Sides -> Roles]
                           /\ out' \in [Sides -> Seq(Transfers)]
    PROVE  /\ over' \in SUBSET Sides
           /\ blocked' \subseteq Sides \ over'
           /\ wire' \in [Sides -> Seq(Messages)]
           /\ role' \in [Sides -> Roles]
           /\ sends' \in [Sides -> SUBSET Messages]
           /\ cmd' \in [Sides -> {"none", "start", "payload"}]
           /\ out' \in [Sides -> Seq(Transfers)]
           /\ messages' \in [Sides -> Seq(Nat)]
<1>1. CASE s \in handle
  <2>1. Append(messages[s], m) \in Seq(Nat)
    BY AppendProperties DEF LifecycleTypeOK
  <2>2. messages' \in [Sides -> Seq(Nat)]
    BY <1>1, <2>1 DEF PassOn, LifecycleTypeOK
  <2>3. wire' \in [Sides -> Seq(Messages)]
    BY <1>1, RestType DEF PassOn
  <2>4. blocked' = blocked \ {s} /\ UNCHANGED <<over, sends, cmd>>
    BY <1>1 DEF PassOn
  <2>. QED  BY <1>1, <2>2, <2>3, <2>4 DEF LifecycleTypeOK
<1>2. CASE s \notin handle
  BY <1>2, LeaveType DEF PassOn, LifecycleTypeOK
<1>. QED  BY <1>1, <1>2

\* The messages it reads.
LEMMA MessagesKeepTypes ==
    ASSUME LifecycleTypeOK, NEW s \in Sides,
           \/ HandleStart(s) \/ HandlePayload(s) \/ HandleEnd(s) \/ HandleAck(s)
    PROVE  LifecycleTypeOK'
<1>0. wire[Other(s)] # << >>
  BY DEF HandleStart, HandlePayload, HandleEnd, HandleAck, Reads
<1>1. /\ Rest(s) \in [Sides -> Seq(Messages)]
      /\ First(s).n \in Nat
  BY <1>0, RestType DEF Messages
<1>2. CASE HandleStart(s)
  <2>. DEFINE n == First(s).n
              new == NewSink(s, out[Other(s)][n])
  <2>1. new \in SinkPairs
    BY DEF NewSink, SinkState, SinkPairs, SinkStates
  <2>2. sinks' = [sinks EXCEPT ![s] = Append(@, new)]
    BY <1>2 DEF HandleStart
  <2>3. sinks' \in [Sides -> Seq(SinkPairs)]
    <3>1. Append(sinks[s], new) \in Seq(SinkPairs)
      BY <2>1, AppendProperties DEF LifecycleTypeOK
    <3>. HIDE DEF new
    <3>. QED  BY <2>2, <3>1 DEF LifecycleTypeOK
  <2>4. PassOn(s, n)
    BY <1>2 DEF HandleStart
  <2>5. s \in handle => /\ role' \in [Sides -> Roles]
                        /\ out' \in [Sides -> Seq(Transfers)]
    <3>1. Receiver(n) \in Roles
      BY <1>1 DEF Receiver, Roles
    <3>2. Failed(s, {"awaiting"}) \in Seq(Transfers)
      BY FailedType
    <3>3. s \in handle => /\ role' = [role EXCEPT ![s] = Receiver(n)]
                          /\ out' = [out EXCEPT ![s] = Failed(s, {"awaiting"})]
      BY <1>2 DEF HandleStart
    <3>4. role \in [Sides -> Roles] /\ out \in [Sides -> Seq(Transfers)]
      BY DEF LifecycleTypeOK
    <3>. HIDE DEF n
    <3>5. s \in handle => role' \in [Sides -> Roles]
      BY <3>1, <3>3, <3>4
    <3>6. s \in handle => out' \in [Sides -> Seq(Transfers)]
      BY <3>2, <3>3, <3>4
    <3>. QED  BY <3>5, <3>6
  <2>6. UNCHANGED <<handle, payloads, pending, ended, closing, lost, acked>>
    BY <1>2 DEF HandleStart
  <2>. HIDE DEF new
  <2>. QED  BY <1>0, <1>1, <2>3, <2>4, <2>5, <2>6, PassOnType DEF LifecycleTypeOK
<1>3. CASE HandlePayload(s)
  <2>1. PassOn(s, 0)
    BY <1>3 DEF HandlePayload
  <2>2. s \in handle => UNCHANGED <<role, out>>
    BY <1>3 DEF HandlePayload
  <2>3. UNCHANGED <<handle, payloads, pending, ended, closing, lost, sinks, acked>>
    BY <1>3 DEF HandlePayload
  <2>4. s \in handle => /\ role' \in [Sides -> Roles]
                        /\ out' \in [Sides -> Seq(Transfers)]
    BY <2>2 DEF LifecycleTypeOK
  <2>. QED  BY <1>0, <2>1, <2>3, <2>4, PassOnType DEF LifecycleTypeOK
<1>4. CASE HandleEnd(s)
  <2>. DEFINE n == First(s).n
              r == role[s].n
  <2>0. UNCHANGED <<handle, payloads, closing, lost, messages>>
    BY <1>4 DEF HandleEnd
  <2>1. CASE /\ wire' = Rest(s)
             /\ UNCHANGED <<out, sends, role, pending, ended, over, blocked, cmd,
                            sinks, acked>>
    BY <1>1, <2>0, <2>1 DEF LifecycleTypeOK
  <2>2. CASE Leave(s) /\ UNCHANGED <<pending, ended, sinks, acked>>
    BY <2>0, <2>2, LeaveType DEF LifecycleTypeOK
  <2>3. CASE /\ sinks' = Ask(s, r, n)
             /\ pending' = [pending EXCEPT ![s] = @ + 1]
             /\ wire' = Rest(s)
             /\ blocked' = blocked \ {s}
             /\ UNCHANGED <<out, sends, role, ended, over, cmd, acked>>
    <3>1. r \in DOMAIN sinks[s] => [sinks[s][r] EXCEPT !.ask = n] \in SinkPairs
      <4>. SUFFICES ASSUME r \in DOMAIN sinks[s]
                    PROVE  [sinks[s][r] EXCEPT !.ask = n] \in SinkPairs
        OBVIOUS
      <4>1. sinks[s][r] \in SinkPairs
        BY LenProperties, ElementOfSeq DEF LifecycleTypeOK
      <4>. QED  BY <1>1, <4>1 DEF SinkPairs
    <3>. DEFINE e == [sinks[s][r] EXCEPT !.ask = n]
    <3>2. sinks' = [sinks EXCEPT ![s][r] = e]
      BY <2>3 DEF Ask
    <3>3. sinks' \in [Sides -> Seq(SinkPairs)]
      <4>1. r \in DOMAIN sinks[s] => e \in SinkPairs
        BY <3>1
      <4>. HIDE DEF e
      <4>. QED  BY <3>2, <4>1, SinkType
    <3>4. pending' \in [Sides -> Nat]
      BY <2>3 DEF LifecycleTypeOK
    <3>. QED  BY <1>1, <2>0, <2>3, <3>3, <3>4 DEF LifecycleTypeOK
  <2>4. CASE Acknowledge(s, n, Rest(s), sends) /\ UNCHANGED pending
    <3>1. sends \in [Sides -> SUBSET Messages]
      BY DEF LifecycleTypeOK
    <3>. QED  BY <1>1, <2>0, <2>4, <3>1, AcknowledgeType DEF LifecycleTypeOK
  <2>. QED  BY <1>4, <2>1, <2>2, <2>3, <2>4 DEF HandleEnd
<1>5. CASE HandleAck(s)
  <2>. DEFINE w == role[s].waiter
  <2>1. /\ wire' = Rest(s)
        /\ role' = [role EXCEPT ![s].waiter = 0]
        /\ \/ out' = [out EXCEPT ![s] = [out[s] EXCEPT ![w].call = "ok"]]
           \/ out' = out
        /\ UNCHANGED <<handle, cmd, payloads, sends, pending, ended, closing,
                       blocked, over, lost, messages, sinks, acked>>
    <3>1. [out EXCEPT ![s] = [out[s] EXCEPT ![w].call = "ok"]]
            = [out EXCEPT ![s][w].call = "ok"]
      BY DEF LifecycleTypeOK
    <3>. QED  BY <1>5, <3>1 DEF HandleAck
  <2>2. [out EXCEPT ![s] = [out[s] EXCEPT ![w].call = "ok"]]
            \in [Sides -> Seq(Transfers)]
    BY CallType DEF LifecycleTypeOK
  <2>3. role' \in [Sides -> Roles] /\ out' \in [Sides -> Seq(Transfers)]
    BY <2>1, <2>2, WaiterType DEF LifecycleTypeOK
  <2>. QED  BY <1>1, <2>1, <2>3 DEF LifecycleTypeOK
<1>. QED  BY <1>2, <1>3, <1>4, <1>5

\* What the application does with the handle and the streams it sends through.
LEMMA CallsKeepTypes ==
    ASSUME LifecycleTypeOK, NEW s \in Sides, NEW n,
           \/ CallStart(s) \/ CallPayload(s) \/ CallEnd(s, n) \/ DropStream(s, n)
           \/ Expire(s, n) \/ DropHandle(s) \/ Accept(s)
    PROVE  LifecycleTypeOK'
<1>1. CASE CallStart(s)
  <2>1. PICK k \in Kinds :
            out' = [out EXCEPT ![s] = Append(@, [dual |-> k.dual,
                                                 empty |-> k.empty,
                                                 call |-> "starting"])]
    BY <1>1 DEF CallStart
  <2>. DEFINE new == [dual |-> k.dual, empty |-> k.empty, call |-> "starting"]
  <2>2. new \in Transfers
    BY LifecycleAssumption DEF LifecycleAssumption, Transfers, InCall
  <2>3. Append(out[s], new) \in Seq(Transfers)
    BY <2>2, AppendProperties DEF LifecycleTypeOK
  <2>4. out' \in [Sides -> Seq(Transfers)]
    <3>1. out' = [out EXCEPT ![s] = Append(out[s], new)]
      BY <2>1
    <3>. HIDE DEF new
    <3>. QED  BY <2>3, <3>1 DEF LifecycleTypeOK
  <2>. QED  BY <1>1, <2>4 DEF CallStart, LifecycleTypeOK
<1>2. CASE CallPayload(s)
  <2>1. /\ cmd' \in [Sides -> {"none", "start", "payload"}]
        /\ payloads' \in [Sides -> Nat]
    BY <1>2 DEF CallPayload, LifecycleTypeOK
  <2>2. UNCHANGED <<handle, out, sends, role, pending, ended, closing, blocked,
                    over, lost, wire, messages, sinks, acked>>
    BY <1>2 DEF CallPayload
  <2>. QED  BY <2>1, <2>2 DEF LifecycleTypeOK
<1>3. ASSUME NEW call \in {"ending", "gone"}, GiveUpStream(s, n, call)
      PROVE  LifecycleTypeOK'
  <2>1. n \in Nat /\ Msg("End", n) \in Messages
    BY <1>3, LenProperties, MsgType DEF GiveUpStream, LifecycleTypeOK
  <2>2. sends' \in [Sides -> SUBSET Messages]
    BY <1>3, <2>1 DEF GiveUpStream, LifecycleTypeOK
  <2>3. PICK c \in {"ending", "gone", "error"} : out' = [out EXCEPT ![s][n].call = c]
    BY <1>3, Zenon DEF GiveUpStream
  <2>4. out' \in [Sides -> Seq(Transfers)]
    <3>1. [out EXCEPT ![s] = [out[s] EXCEPT ![n].call = c]]
            \in [Sides -> Seq(Transfers)]
      BY CallType DEF LifecycleTypeOK, InCall
    <3>. QED  BY <2>3, <3>1
  <2>. QED  BY <1>3, <2>2, <2>4 DEF GiveUpStream, LifecycleTypeOK
<1>4. CASE Expire(s, n)
  <2>1. [out EXCEPT ![s] = [out[s] EXCEPT ![n].call = "error"]]
            \in [Sides -> Seq(Transfers)]
    BY CallType DEF LifecycleTypeOK
  <2>2. out' \in [Sides -> Seq(Transfers)]
    BY <1>4, <2>1 DEF Expire
  <2>. QED  BY <1>4, <2>2 DEF Expire, LifecycleTypeOK
<1>5. CASE DropHandle(s)
  <2>. DEFINE gone(x) == [x EXCEPT !.rel = "dropped", !.unrel = "dropped", !.ask = 0]
              left == [m \in DOMAIN sinks[s] |->
                          IF sinks[s][m].unrel = "queued" THEN gone(sinks[s][m])
                          ELSE sinks[s][m]]
  <2>1. \A x \in SinkPairs : gone(x) \in SinkPairs
    BY DEF SinkPairs, SinkStates
  <2>2. \A m \in DOMAIN sinks[s] : sinks[s][m] \in SinkPairs
    BY LenProperties, ElementOfSeq DEF LifecycleTypeOK
  <2>3. Len(sinks[s]) \in Nat /\ DOMAIN sinks[s] = 1..Len(sinks[s])
    BY LenProperties DEF LifecycleTypeOK
  <2>4. left \in Seq(SinkPairs)
    <3>1. left \in [1..Len(sinks[s]) -> SinkPairs]
      <4>. HIDE DEF gone
      <4>. QED  BY <2>1, <2>2, <2>3
    <3>. HIDE DEF left
    <3>. QED  BY <2>3, <3>1, SeqDef
  <2>5. sinks' = [sinks EXCEPT ![s] = left]
    BY <1>5 DEF DropHandle
  <2>6. sinks' \in [Sides -> Seq(SinkPairs)]
    <3>. HIDE DEF left
    <3>. QED  BY <2>4, <2>5 DEF LifecycleTypeOK
  <2>7. messages' \in [Sides -> Seq(Nat)]
    BY <1>5, EmptySeq DEF DropHandle, LifecycleTypeOK
  <2>. QED  BY <1>5, <2>6, <2>7 DEF DropHandle, LifecycleTypeOK
<1>6. CASE Accept(s)
  <2>. DEFINE m == Head(messages[s])
  <2>1. m \in Nat /\ Tail(messages[s]) \in Seq(Nat)
    BY <1>6, HeadTailProperties DEF Accept, LifecycleTypeOK
  <2>2. m \in DOMAIN sinks[s] => Taken(sinks[s][m]) \in SinkPairs
    <3>1. m \in DOMAIN sinks[s] => sinks[s][m] \in SinkPairs
      BY LenProperties, ElementOfSeq DEF LifecycleTypeOK
    <3>2. \A x \in SinkPairs : Taken(x) \in SinkPairs
      BY DEF Taken, SinkPairs, SinkStates
    <3>. QED  BY <3>1, <3>2
  <2>3. sinks' = sinks \/ sinks' = [sinks EXCEPT ![s][m] = Taken(sinks[s][m])]
    BY <1>6, Zenon DEF Accept
  <2>4. sinks' \in [Sides -> Seq(SinkPairs)]
    <3>. DEFINE e == Taken(sinks[s][m])
    <3>1. sinks' = sinks \/ sinks' = [sinks EXCEPT ![s][m] = e]
      BY <2>3
    <3>2. m \in DOMAIN sinks[s] => e \in SinkPairs
      BY <2>2
    <3>3. [sinks EXCEPT ![s][m] = e] \in [Sides -> Seq(SinkPairs)]
      <4>. HIDE DEF e, m
      <4>. QED  BY <3>2, SinkType
    <3>4. sinks \in [Sides -> Seq(SinkPairs)]
      BY DEF LifecycleTypeOK
    <3>. HIDE DEF e
    <3>. QED  BY <3>1, <3>3, <3>4
  <2>5. messages' \in [Sides -> Seq(Nat)]
    BY <1>6, <2>1 DEF Accept, LifecycleTypeOK
  <2>. QED  BY <1>6, <2>4, <2>5 DEF Accept, LifecycleTypeOK
<1>. QED  BY <1>1, <1>2, <1>3, <1>4, <1>5, <1>6 DEF CallEnd, DropStream

\* A pair of sinks found in the state, with fields of its own.
LEMMA SinkOf ==
    ASSUME LifecycleTypeOK, NEW s \in Sides, NEW n \in DOMAIN sinks[s]
    PROVE  n \in Nat /\ sinks[s][n] \in SinkPairs
BY LenProperties, ElementOfSeq DEF LifecycleTypeOK

\* recv() of a reliable sink once pending_end is known.
LEMMA RelGoesOnType ==
    ASSUME LifecycleTypeOK, NEW s \in Sides, NEW n, NEW sink \in SinkPairs,
           NEW passed, RelGoesOn(s, n, sink, passed)
    PROVE  /\ sinks' \in [Sides -> Seq(SinkPairs)]
           /\ sends' \in [Sides -> SUBSET Messages]
<1>1. CASE passed
  <2>. DEFINE e == [sink EXCEPT !.rel = "ended", !.final = 0]
  <2>1. e \in SinkPairs
    BY DEF SinkPairs, SinkStates
  <2>2. sinks' = [sinks EXCEPT ![s][n] = e]
    BY <1>1 DEF RelGoesOn
  <2>3. sinks' \in [Sides -> Seq(SinkPairs)]
    <3>. HIDE DEF e
    <3>. QED  BY <2>1, <2>2, SinkType
  <2>4. Msg("Ack", sink.final) \in Messages
    BY MsgType DEF SinkPairs
  <2>5. sends' = IF s \in over THEN sends
                 ELSE [sends EXCEPT ![s] = @ \cup {Msg("Ack", sink.final)}]
    BY <1>1 DEF RelGoesOn
  <2>. QED  BY <2>3, <2>4, <2>5 DEF LifecycleTypeOK
<1>2. CASE ~passed
  <2>. DEFINE e == [sink EXCEPT !.rel = "waiting"]
  <2>1. e \in SinkPairs
    BY DEF SinkPairs, SinkStates
  <2>2. sinks' = [sinks EXCEPT ![s][n] = e] /\ sends' = sends
    BY <1>2 DEF RelGoesOn
  <2>3. sinks' \in [Sides -> Seq(SinkPairs)]
    <3>. HIDE DEF e
    <3>. QED  BY <2>1, <2>2, SinkType
  <2>. QED  BY <2>2, <2>3 DEF LifecycleTypeOK
<1>. QED  BY <1>1, <1>2

\* What the application does with the sinks.
LEMMA SinksKeepTypes ==
    ASSUME LifecycleTypeOK, NEW s \in Sides, NEW n,
           \/ Rel(s, n) \/ Unrel(s, n) \/ DropRel(s, n) \/ DropUnrel(s, n)
    PROVE  LifecycleTypeOK'
<1>0. n \in DOMAIN sinks[s] /\ sinks[s][n] \in SinkPairs
  <2>1. n \in DOMAIN sinks[s]
    BY DEF Rel, Unrel, RelCall, RelTake, RelRead, UnrelCheck, UnrelWait,
           DropRel, DropUnrel
  <2>. QED  BY <2>1, SinkOf
<1>1. CASE RelCall(s, n)
  <2>1. \E passed : RelGoesOn(s, n, sinks[s][n], passed)
    BY <1>1 DEF RelCall
  <2>2. /\ sinks' \in [Sides -> Seq(SinkPairs)]
        /\ sends' \in [Sides -> SUBSET Messages]
    BY <1>0, <2>1, RelGoesOnType
  <2>. QED  BY <1>1, <2>2 DEF RelCall, LifecycleTypeOK
<1>2. CASE RelTake(s, n)
  <2>. DEFINE sink == [sinks[s][n] EXCEPT !.final = sinks[s][n].ask, !.ask = 0]
  <2>1. \E passed : RelGoesOn(s, n, sink, passed)
    BY <1>2 DEF RelTake
  <2>2. sink \in SinkPairs
    BY <1>0 DEF SinkPairs
  <2>3. /\ sinks' \in [Sides -> Seq(SinkPairs)]
        /\ sends' \in [Sides -> SUBSET Messages]
    <3>. HIDE DEF sink
    <3>. QED  BY <2>1, <2>2, RelGoesOnType
  <2>. QED  BY <1>2, <2>3 DEF RelTake, LifecycleTypeOK
<1>3. ASSUME NEW e \in SinkPairs, sinks' = [sinks EXCEPT ![s][n] = e],
             UNCHANGED <<handle, cmd, payloads, out, sends, role, pending, ended,
                         closing, blocked, over, lost, wire, messages, acked>>
      PROVE  LifecycleTypeOK'
  <2>1. sinks' \in [Sides -> Seq(SinkPairs)]
    BY <1>3, SinkType
  <2>. QED  BY <1>3, <2>1 DEF LifecycleTypeOK
<1>4. /\ \A u \in SinkStates : [sinks[s][n] EXCEPT !.unrel = u] \in SinkPairs
      /\ [sinks[s][n] EXCEPT !.full = TRUE, !.rel = "idle"] \in SinkPairs
      /\ [sinks[s][n] EXCEPT !.rel = "dropped", !.ask = 0, !.final = 0] \in SinkPairs
  BY <1>0 DEF SinkPairs, SinkStates
<1>5. CASE RelRead(s, n)
  BY <1>3, <1>4, <1>5 DEF RelRead
<1>6. CASE UnrelCheck(s, n)
  <2>1. PICK u \in {"ended", "checked"} :
            sinks' = [sinks EXCEPT ![s][n] = [sinks[s][n] EXCEPT !.unrel = u]]
    BY <1>6 DEF UnrelCheck
  <2>2. u \in SinkStates
    BY DEF SinkStates
  <2>. QED  BY <1>3, <1>4, <1>6, <2>1, <2>2 DEF UnrelCheck
<1>7. CASE UnrelWait(s, n) \/ DropUnrel(s, n)
  BY <1>3, <1>4, <1>7 DEF UnrelWait, DropUnrel, SinkStates
<1>8. CASE DropRel(s, n)
  BY <1>3, <1>4, <1>8 DEF DropRel
<1>. QED  BY <1>1, <1>2, <1>5, <1>6, <1>7, <1>8 DEF Rel, Unrel

\* The loss of the connection.
LEMMA LoseKeepsTypes ==
    ASSUME LifecycleTypeOK, NEW s \in Sides, Lose(s)
    PROVE  LifecycleTypeOK'
<1>1. ASSUME NEW o \in Sides
      PROVE  IF Other(o) \in blocked /\ wire[o] # << >>
             THEN <<Head(wire[o])>> \in Seq(Messages)
             ELSE << >> \in Seq(Messages)
  <2>1. wire[o] # << >> => Head(wire[o]) \in Messages
    BY HeadTailProperties DEF LifecycleTypeOK
  <2>. QED  BY <2>1
<1>2. wire' \in [Sides -> Seq(Messages)]
  BY <1>1 DEF Lose
<1>. QED  BY <1>2 DEF Lose, LifecycleTypeOK

LEMMA InitTyped == LifecycleInit => LifecycleTypeOK
BY DEF LifecycleInit, LifecycleTypeOK, Unknown, Roles, Sides

LEMMA StepsKeepTypes == LifecycleTypeOK /\ [LifecycleNext]_svars => LifecycleTypeOK'
<1>. SUFFICES ASSUME LifecycleTypeOK, [LifecycleNext]_svars
              PROVE  LifecycleTypeOK'
  OBVIOUS
<1>1. ASSUME NEW s \in Sides, Task(s)
      PROVE  LifecycleTypeOK'
  BY <1>1, CommandsKeepTypes, ClosingKeepsTypes, MessagesKeepTypes DEF Task
<1>2. ASSUME NEW s \in Sides, App(s)
      PROVE  LifecycleTypeOK'
  BY <1>2, CallsKeepTypes, SinksKeepTypes DEF App
<1>3. CASE UNCHANGED svars
  BY <1>3 DEF svars, LifecycleTypeOK
<1>. QED  BY <1>1, <1>2, <1>3, LoseKeepsTypes DEF LifecycleNext

-----------------------------------------------------------------------------
(* Every step counts the answers that are owed.                             *)

\* t owes nothing after the step that it did not owe before it.
OwesLess(t) ==
    /\ \A n \in DOMAIN sinks'[t] :
        /\ sinks'[t][n].ask # 0 => n \in DOMAIN sinks[t] /\ sinks[t][n].ask # 0
        /\ sinks'[t][n].final # 0 => n \in DOMAIN sinks[t] /\ sinks[t][n].final # 0
    /\ \A n \in Nat : Msg("Ack", n) \in sends'[t] => Msg("Ack", n) \in sends[t]

LEMMA LessOwed ==
    ASSUME NEW t \in Sides, OwesLess(t)
    PROVE  Owed(t)' \subseteq Owed(t)
<1>. SUFFICES ASSUME NEW x \in Owed(t)' PROVE x \in Owed(t)
  OBVIOUS
<1>1. x \in {"ask", "final", "ack"} \X Nat /\ x[2] \in Nat
  BY DEF Owed
<1>. QED  BY <1>1 DEF Owed, OwesLess

\* Enough to look at the side that acts.
LEMMA CoveredBy ==
    ASSUME Covered, NEW s \in Sides,
           \A t \in Sides \ {s} : OwesLess(t) /\ pending'[t] = pending[t],
           IsFiniteSet(Owed(s)'), Cardinality(Owed(s)') <= pending'[s],
           LifecycleTypeOK
    PROVE  Covered'
<1>1. ASSUME NEW t \in Sides \ {s}
      PROVE  IsFiniteSet(Owed(t)') /\ Cardinality(Owed(t)') <= pending'[t]
  <2>1. Owed(t)' \subseteq Owed(t)
    BY LessOwed
  <2>2. IsFiniteSet(Owed(t)) /\ Cardinality(Owed(t)) <= pending[t]
    BY DEF Covered
  <2>3. IsFiniteSet(Owed(t)') /\ Cardinality(Owed(t)') <= Cardinality(Owed(t))
    BY <2>1, <2>2, FS_Subset
  <2>4. Cardinality(Owed(t)') \in Nat /\ Cardinality(Owed(t)) \in Nat
        /\ pending[t] \in Nat
    BY <2>2, <2>3, FS_CardinalityType DEF LifecycleTypeOK
  <2>. QED  BY <2>2, <2>3, <2>4
<1>. QED  BY <1>1 DEF Covered

\* Nothing new is owed.
LEMMA CoveredStill ==
    ASSUME LifecycleInv, NEW s \in Sides, \A t \in Sides : OwesLess(t),
           pending' = pending
    PROVE  Covered'
<1>1. Owed(s)' \subseteq Owed(s)
  BY LessOwed
<1>2. IsFiniteSet(Owed(s)) /\ Cardinality(Owed(s)) <= pending[s]
  BY DEF LifecycleInv, Covered
<1>3. IsFiniteSet(Owed(s)') /\ Cardinality(Owed(s)') <= Cardinality(Owed(s))
  BY <1>1, <1>2, FS_Subset
<1>4. Cardinality(Owed(s)') \in Nat /\ Cardinality(Owed(s)) \in Nat
      /\ pending[s] \in Nat
  BY <1>2, <1>3, FS_CardinalityType DEF LifecycleInv, LifecycleTypeOK
<1>5. Cardinality(Owed(s)') <= pending'[s]
  BY <1>2, <1>3, <1>4
<1>. QED  BY <1>3, <1>5, CoveredBy DEF LifecycleInv

\* One answer takes the place of another.
LEMMA CoveredInstead ==
    ASSUME LifecycleInv, NEW s \in Sides, \A t \in Sides \ {s} : OwesLess(t),
           pending' = pending, NEW x \in Owed(s), NEW y,
           Owed(s)' \subseteq (Owed(s) \ {x}) \cup {y}
    PROVE  Covered'
<1>. DEFINE rest == Owed(s) \ {x}
            most == rest \cup {y}
<1>1. IsFiniteSet(Owed(s)) /\ Cardinality(Owed(s)) <= pending[s]
  BY DEF LifecycleInv, Covered
<1>2. IsFiniteSet(rest) /\ Cardinality(rest) = Cardinality(Owed(s)) - 1
  BY <1>1, FS_RemoveElement
<1>3. /\ IsFiniteSet(most)
      /\ Cardinality(most) = IF y \in rest THEN Cardinality(rest)
                             ELSE Cardinality(rest) + 1
  BY <1>2, FS_AddElement
<1>4. IsFiniteSet(Owed(s)') /\ Cardinality(Owed(s)') <= Cardinality(most)
  BY <1>3, FS_Subset
<1>5. /\ Cardinality(Owed(s)) \in Nat /\ Cardinality(rest) \in Nat
      /\ Cardinality(most) \in Nat /\ Cardinality(Owed(s)') \in Nat
      /\ pending[s] \in Nat
  BY <1>1, <1>2, <1>3, <1>4, FS_CardinalityType DEF LifecycleInv, LifecycleTypeOK
<1>. HIDE DEF rest, most
<1>6. Cardinality(Owed(s)') <= pending'[s]
  BY <1>1, <1>2, <1>3, <1>4, <1>5
<1>. QED  BY <1>4, <1>6, CoveredBy DEF LifecycleInv

\* One more is owed, and counted.
LEMMA CoveredMore ==
    ASSUME LifecycleInv, NEW s \in Sides, \A t \in Sides \ {s} : OwesLess(t),
           pending' = [pending EXCEPT ![s] = @ + 1], NEW y,
           Owed(s)' \subseteq Owed(s) \cup {y}
    PROVE  Covered'
<1>. DEFINE most == Owed(s) \cup {y}
<1>1. IsFiniteSet(Owed(s)) /\ Cardinality(Owed(s)) <= pending[s]
  BY DEF LifecycleInv, Covered
<1>2. /\ IsFiniteSet(most)
      /\ Cardinality(most) = IF y \in Owed(s) THEN Cardinality(Owed(s))
                             ELSE Cardinality(Owed(s)) + 1
  BY <1>1, FS_AddElement
<1>3. IsFiniteSet(Owed(s)') /\ Cardinality(Owed(s)') <= Cardinality(most)
  BY <1>2, FS_Subset
<1>4. /\ Cardinality(Owed(s)) \in Nat /\ Cardinality(most) \in Nat
      /\ Cardinality(Owed(s)') \in Nat /\ pending[s] \in Nat
  BY <1>1, <1>2, <1>3, FS_CardinalityType DEF LifecycleInv, LifecycleTypeOK
<1>5. pending'[s] = pending[s] + 1 /\ \A t \in Sides \ {s} : pending'[t] = pending[t]
  BY DEF LifecycleInv, LifecycleTypeOK
<1>. HIDE DEF most
<1>6. Cardinality(Owed(s)') <= pending'[s]
  BY <1>1, <1>2, <1>3, <1>4, <1>5
<1>. QED  BY <1>3, <1>5, <1>6, CoveredBy DEF LifecycleInv

\* One that was owed is given, and no longer counted.
LEMMA CoveredLess ==
    ASSUME LifecycleInv, NEW s \in Sides, \A t \in Sides \ {s} : OwesLess(t),
           pending' = [pending EXCEPT ![s] = IF @ > 0 THEN @ - 1 ELSE 0],
           NEW x \in Owed(s), Owed(s)' \subseteq Owed(s) \ {x}
    PROVE  Covered'
<1>. DEFINE rest == Owed(s) \ {x}
<1>1. IsFiniteSet(Owed(s)) /\ Cardinality(Owed(s)) <= pending[s]
  BY DEF LifecycleInv, Covered
<1>2. IsFiniteSet(rest) /\ Cardinality(rest) = Cardinality(Owed(s)) - 1
  BY <1>1, FS_RemoveElement
<1>3. IsFiniteSet(Owed(s)') /\ Cardinality(Owed(s)') <= Cardinality(rest)
  BY <1>2, FS_Subset
<1>4. /\ Cardinality(Owed(s)) \in Nat /\ Cardinality(rest) \in Nat
      /\ Cardinality(Owed(s)') \in Nat /\ pending[s] \in Nat
  BY <1>1, <1>2, <1>3, FS_CardinalityType DEF LifecycleInv, LifecycleTypeOK
<1>5. /\ pending'[s] = IF pending[s] > 0 THEN pending[s] - 1 ELSE 0
      /\ \A t \in Sides \ {s} : pending'[t] = pending[t]
  BY DEF LifecycleInv, LifecycleTypeOK
<1>. HIDE DEF rest
<1>6. Cardinality(Owed(s)') <= pending'[s]
  BY <1>1, <1>2, <1>3, <1>4, <1>5
<1>. QED  BY <1>3, <1>5, <1>6, CoveredBy DEF LifecycleInv

\* Sides whose sinks and commands are left alone, and tasks that leave.
LEMMA SameOwed ==
    ASSUME NEW t \in Sides, sinks'[t] = sinks[t],
           \A n \in Nat : Msg("Ack", n) \in sends'[t] => Msg("Ack", n) \in sends[t]
    PROVE  OwesLess(t)
BY DEF OwesLess

LEMMA LeaveSends ==
    ASSUME LifecycleTypeOK, NEW s \in Sides, Leave(s)
    PROVE  /\ sends'[s] = {}
           /\ \A t \in Sides \ {s} : sends'[t] = sends[t]
BY DEF Leave, LifecycleTypeOK

\* After an answer is given, whether it could be written or not.
LEMMA AcknowledgeOwed ==
    ASSUME LifecycleTypeOK, NEW s \in Sides, NEW n, NEW unread, NEW queue,
           Acknowledge(s, n, unread, queue)
    PROVE  /\ \A t \in Sides \ {s} : sinks'[t] = sinks[t]
           /\ DOMAIN sinks'[s] = DOMAIN sinks[s]
           /\ \A m \in DOMAIN sinks[s] : /\ sinks'[s][m].ask = sinks[s][m].ask
                                         /\ sinks'[s][m].final = sinks[s][m].final
           /\ \/ sends' = queue
              \/ /\ sends'[s] = {}
                 /\ \A t \in Sides \ {s} : sends'[t] = sends[t]
<1>1. End(s)
  BY DEF Acknowledge
<1>2. sends' = queue \/ Leave(s)
  BY DEF Acknowledge
<1>. QED  BY <1>1, <1>2, EndType, LeaveSends

\* Replacing one pair of sinks.
LEMMA SinkAfter ==
    ASSUME LifecycleTypeOK, NEW s \in Sides, NEW n \in DOMAIN sinks[s], NEW e
    PROVE  LET q == [sinks EXCEPT ![s][n] = e] IN
           /\ DOMAIN q[s] = DOMAIN sinks[s]
           /\ q[s][n] = e
           /\ \A m \in DOMAIN sinks[s] \ {n} : q[s][m] = sinks[s][m]
           /\ \A t \in Sides \ {s} : q[t] = sinks[t]
<1>. DEFINE q == [sinks EXCEPT ![s][n] = e]
<1>1. q[s] = [sinks[s] EXCEPT ![n] = e]
  BY DEF LifecycleTypeOK
<1>2. sinks[s] = [i \in 1..Len(sinks[s]) |-> sinks[s][i]]
  BY DEF LifecycleTypeOK
<1>3. \A t \in Sides \ {s} : q[t] = sinks[t]
  BY DEF LifecycleTypeOK
<1>. QED  BY <1>1, <1>2, <1>3

\* The task.
LEMMA TaskKeepsCovered ==
    ASSUME LifecycleInv, NEW s \in Sides, Task(s)
    PROVE  Covered'
<1>. USE DEF LifecycleInv
<1>0. ASSUME sinks' = sinks, pending' = pending,
             \A t \in Sides : \A n \in Nat :
                Msg("Ack", n) \in sends'[t] => Msg("Ack", n) \in sends[t]
      PROVE  Covered'
  BY <1>0, SameOwed, CoveredStill
<1>1. ASSUME Leave(s), sinks' = sinks, pending' = pending
      PROVE  Covered'
  BY <1>0, <1>1, LeaveSends
<1>2. CASE StartTransfer(s) \/ SendPayload(s) \/ SeeDropped(s) \/ Block(s) \/ HandleAck(s)
  BY <1>0, <1>2 DEF StartTransfer, SendPayload, SeeDropped, Block, HandleAck
<1>3. CASE Close(s) \/ HandleEof(s)
  BY <1>1, <1>3 DEF Close, HandleEof
<1>4. ASSUME NEW n \in DOMAIN out[s], EndTransfer(s, n)
      PROVE  Covered'
  <2>1. /\ sends' = [sends EXCEPT ![s] = @ \ {Msg("End", n)}]
        /\ sinks' = sinks
        /\ pending' = pending
    BY <1>4 DEF EndTransfer
  <2>2. \A t \in Sides : sends'[t] \subseteq sends[t]
    BY <2>1 DEF LifecycleTypeOK
  <2>. QED  BY <1>0, <2>1, <2>2
<1>5. ASSUME NEW n \in DOMAIN sinks[s], SendAck(s, n)
      PROVE  Covered'
  <2>. DEFINE x == <<"ack", n>>
              queue == [sends EXCEPT ![s] = @ \ {Msg("Ack", n)}]
  <2>1. Acknowledge(s, n, wire, queue)
    BY <1>5 DEF SendAck
  <2>2. Msg("Ack", n) \in sends[s] /\ n \in Nat
    BY <1>5, SinkOf DEF SendAck
  <2>3. x \in Owed(s)
    BY <2>2 DEF Owed
  <2>4. /\ \A t \in Sides \ {s} : sends'[t] = sends[t]
        /\ sends'[s] \subseteq sends[s]
        /\ Msg("Ack", n) \notin sends'[s]
    <3>1. /\ \A t \in Sides \ {s} : queue[t] = sends[t]
          /\ queue[s] = sends[s] \ {Msg("Ack", n)}
      BY DEF LifecycleTypeOK
    <3>2. \/ sends' = queue
          \/ /\ sends'[s] = {}
             /\ \A t \in Sides \ {s} : sends'[t] = sends[t]
      <4>. HIDE DEF queue
      <4>. QED  BY <2>1, AcknowledgeOwed
    <3>. HIDE DEF queue
    <3>. QED  BY <3>1, <3>2
  <2>5. Owed(s)' \subseteq Owed(s) \ {x}
    <3>1. DOMAIN sinks'[s] = DOMAIN sinks[s]
          /\ \A m \in DOMAIN sinks[s] : /\ sinks'[s][m].ask = sinks[s][m].ask
                                        /\ sinks'[s][m].final = sinks[s][m].final
      BY <2>1, AcknowledgeOwed
    <3>. QED  BY <2>4, <3>1 DEF Owed
  <2>6. \A t \in Sides \ {s} : OwesLess(t)
    BY <2>1, <2>4, AcknowledgeOwed, SameOwed
  <2>7. pending' = [pending EXCEPT ![s] = IF @ > 0 THEN @ - 1 ELSE 0]
    BY <1>5 DEF SendAck
  <2>. QED  BY <2>3, <2>5, <2>6, <2>7, CoveredLess
<1>6. CASE HandleStart(s)
  <2>1. PassOn(s, First(s).n) /\ pending' = pending
        /\ sinks' = [sinks EXCEPT ![s] = Append(@, NewSink(s, out[Other(s)][First(s).n]))]
    BY <1>6 DEF HandleStart
  <2>2. \A t \in Sides : sends'[t] \subseteq sends[t]
    BY <2>1, LeaveSends DEF PassOn
  <2>3. \A t \in Sides \ {s} : OwesLess(t)
    BY <2>1, <2>2, SameOwed DEF LifecycleTypeOK
  <2>4. OwesLess(s)
    <3>. DEFINE new == NewSink(s, out[Other(s)][First(s).n])
    <3>1. new.ask = 0 /\ new.final = 0
      BY DEF NewSink
    <3>2. sinks'[s] = Append(sinks[s], new) /\ sinks[s] \in Seq(SinkPairs)
      BY <2>1 DEF LifecycleTypeOK
    <3>. HIDE DEF new
    <3>3. \A n \in DOMAIN sinks'[s] :
              \/ n \in DOMAIN sinks[s] /\ sinks'[s][n] = sinks[s][n]
              \/ sinks'[s][n] = new
      BY <3>2
    <3>. QED  BY <2>2, <3>1, <3>3 DEF OwesLess
  <2>. QED  BY <2>1, <2>3, <2>4, CoveredStill
<1>7. CASE HandlePayload(s)
  <2>1. PassOn(s, 0) /\ pending' = pending /\ sinks' = sinks
    BY <1>7 DEF HandlePayload
  <2>2. \A t \in Sides : sends'[t] \subseteq sends[t]
    BY <2>1, LeaveSends DEF PassOn
  <2>. QED  BY <1>0, <2>1, <2>2
<1>8. CASE HandleEnd(s)
  <2>. DEFINE n == First(s).n
              r == role[s].n
  <2>1. CASE UNCHANGED <<sends, pending, sinks>>
    BY <1>0, <2>1
  <2>2. CASE Leave(s) /\ UNCHANGED <<pending, sinks>>
    BY <1>1, <2>2
  <2>3. CASE /\ sinks' = Ask(s, r, n)
             /\ pending' = [pending EXCEPT ![s] = @ + 1]
             /\ sends' = sends
    <3>. DEFINE y == <<"ask", r>>
                e == [sinks[s][r] EXCEPT !.ask = n]
    <3>1. sinks' = [sinks EXCEPT ![s][r] = e]
      BY <2>3 DEF Ask
    <3>2. \A t \in Sides \ {s} : sinks'[t] = sinks[t]
      BY <3>1, SinkType, SinkOf, SinkAfter DEF LifecycleTypeOK
    <3>3. Owed(s)' \subseteq Owed(s) \cup {y}
      <4>1. CASE r \in DOMAIN sinks[s]
        <5>1. sinks[s][r] \in SinkPairs
          BY <4>1, SinkOf
        <5>2. e.final = sinks[s][r].final
          BY <5>1 DEF SinkPairs
        <5>. HIDE DEF e
        <5>3. /\ DOMAIN sinks'[s] = DOMAIN sinks[s]
              /\ sinks'[s][r] = e
              /\ \A m \in DOMAIN sinks[s] \ {r} : sinks'[s][m] = sinks[s][m]
          <6>. HIDE DEF r
          <6>1. /\ LifecycleTypeOK /\ s \in Sides /\ r \in DOMAIN sinks[s]
                /\ sinks' = [sinks EXCEPT ![s][r] = e]
            BY <3>1, <4>1
          <6>2. DOMAIN sinks'[s] = DOMAIN sinks[s]
            BY ONLY <6>1, SinkAfter
          <6>3. sinks'[s][r] = e
            BY ONLY <6>1, SinkAfter
          <6>4. \A m \in DOMAIN sinks[s] \ {r} : sinks'[s][m] = sinks[s][m]
            BY ONLY <6>1, SinkAfter
          <6>. QED  BY <6>2, <6>3, <6>4
        <5>4. \A m \in DOMAIN sinks'[s] :
                 /\ m \in DOMAIN sinks[s]
                 /\ sinks'[s][m].ask # 0 => sinks[s][m].ask # 0 \/ m = r
                 /\ sinks'[s][m].final = sinks[s][m].final
          BY <5>2, <5>3
        <5>5. ASSUME NEW t \in Owed(s)', t # y
              PROVE  t \in Owed(s)
          <6>1. t \in {"ask", "final", "ack"} \X Nat
            BY DEF Owed
          <6>2. t = <<t[1], t[2]>>
            BY <6>1
          <6>3. ~(t[1] = "ask" /\ t[2] = r)
            BY <5>5, <6>2
          <6>4. CASE t[1] = "ask"
            BY <5>4, <6>1, <6>3, <6>4 DEF Owed
          <6>5. CASE t[1] = "final"
            BY <5>4, <6>1, <6>5 DEF Owed
          <6>6. CASE t[1] = "ack"
            BY <2>3, <6>1, <6>6 DEF Owed
          <6>. QED  BY <6>1, <6>4, <6>5, <6>6
        <5>. QED  BY <5>5
      <4>2. CASE r \notin DOMAIN sinks[s]
        <5>1. sinks' = sinks
          BY <3>1, <4>2 DEF LifecycleTypeOK
        <5>. QED  BY <2>3, <5>1 DEF Owed
      <4>. QED  BY <4>1, <4>2
    <3>4. \A t \in Sides \ {s} : OwesLess(t)
      BY <2>3, <3>2, SameOwed
    <3>. QED  BY <2>3, <3>3, <3>4, CoveredMore
  <2>4. CASE Acknowledge(s, n, Rest(s), sends) /\ UNCHANGED pending
    <3>1. \A t \in Sides : sends'[t] \subseteq sends[t]
      BY <2>4, AcknowledgeOwed
    <3>2. \A t \in Sides \ {s} : OwesLess(t)
      BY <2>4, <3>1, AcknowledgeOwed, SameOwed
    <3>3. OwesLess(s)
      BY <2>4, <3>1, AcknowledgeOwed DEF OwesLess
    <3>. QED  BY <2>4, <3>2, <3>3, CoveredStill
  <2>. QED  BY <1>8, <2>1, <2>2, <2>3, <2>4 DEF HandleEnd
<1>. QED  BY <1>2, <1>3, <1>4, <1>5, <1>6, <1>7, <1>8 DEF Task

\* A sink that goes on, having owed x rather than what it holds now.
LEMMA GoesOnCovered ==
    ASSUME LifecycleInv, NEW s \in Sides, NEW n \in DOMAIN sinks[s],
           NEW sink \in SinkPairs, NEW passed \in BOOLEAN,
           RelGoesOn(s, n, sink, passed), pending' = pending,
           NEW x \in Owed(s), x \in {<<"ask", n>>, <<"final", n>>},
           sink.ask # 0 => x # <<"ask", n>> /\ sinks[s][n].ask # 0,
           passed \/ x # <<"final", n>>
    PROVE  Covered'
<1>. USE DEF LifecycleInv
<1>1. CASE passed
  <2>. DEFINE y == <<"ack", sink.final>>
              e == [sink EXCEPT !.rel = "ended", !.final = 0]
  <2>1. sinks' = [sinks EXCEPT ![s][n] = e]
    BY <1>1 DEF RelGoesOn
  <2>2. e.final = 0 /\ e.ask = sink.ask
    BY DEF SinkPairs
  <2>3. sends' = IF s \in over THEN sends
                 ELSE [sends EXCEPT ![s] = @ \cup {Msg("Ack", sink.final)}]
    BY <1>1 DEF RelGoesOn
  <2>4. /\ \A t \in Sides \ {s} : sends'[t] = sends[t]
        /\ sends'[s] \subseteq sends[s] \cup {Msg("Ack", sink.final)}
    BY <2>3 DEF LifecycleTypeOK
  <2>. HIDE DEF e
  <2>5. /\ DOMAIN sinks'[s] = DOMAIN sinks[s]
        /\ sinks'[s][n] = e
        /\ \A m \in DOMAIN sinks[s] \ {n} : sinks'[s][m] = sinks[s][m]
        /\ \A t \in Sides \ {s} : sinks'[t] = sinks[t]
    BY <2>1, SinkAfter
  <2>6. \A m \in Nat : Msg("Ack", m) = Msg("Ack", sink.final) => m = sink.final
    BY DEF Msg
  <2>7. Owed(s)' \subseteq (Owed(s) \ {x}) \cup {y}
    BY <2>2, <2>4, <2>5, <2>6 DEF Owed
  <2>8. \A t \in Sides \ {s} : OwesLess(t)
    BY <2>4, <2>5, SameOwed
  <2>. QED  BY <2>7, <2>8, CoveredInstead
<1>2. CASE ~passed
  <2>. DEFINE y == <<"final", n>>
              e == [sink EXCEPT !.rel = "waiting"]
  <2>1. sinks' = [sinks EXCEPT ![s][n] = e] /\ sends' = sends
    BY <1>2 DEF RelGoesOn
  <2>2. e.final = sink.final /\ e.ask = sink.ask
    BY DEF SinkPairs
  <2>. HIDE DEF e
  <2>3. /\ DOMAIN sinks'[s] = DOMAIN sinks[s]
        /\ sinks'[s][n] = e
        /\ \A m \in DOMAIN sinks[s] \ {n} : sinks'[s][m] = sinks[s][m]
        /\ \A t \in Sides \ {s} : sinks'[t] = sinks[t]
    BY <2>1, SinkAfter
  <2>4. Owed(s)' \subseteq (Owed(s) \ {x}) \cup {y}
    BY <1>2, <2>1, <2>2, <2>3 DEF Owed
  <2>5. \A t \in Sides \ {s} : OwesLess(t)
    BY <2>1, <2>3, SameOwed
  <2>. QED  BY <2>4, <2>5, CoveredInstead
<1>. QED  BY <1>1, <1>2

\* The application.
LEMMA AppKeepsCovered ==
    ASSUME LifecycleInv, NEW s \in Sides, App(s)
    PROVE  Covered'
<1>. USE DEF LifecycleInv
<1>0. ASSUME sinks' = sinks, pending' = pending,
             \A t \in Sides : \A n \in Nat :
                Msg("Ack", n) \in sends'[t] => Msg("Ack", n) \in sends[t]
      PROVE  Covered'
  BY <1>0, SameOwed, CoveredStill
<1>1. CASE CallStart(s) \/ CallPayload(s)
  BY <1>0, <1>1 DEF CallStart, CallPayload
<1>2. ASSUME NEW n \in DOMAIN out[s], CallEnd(s, n) \/ DropStream(s, n) \/ Expire(s, n)
      PROVE  Covered'
  <2>1. CASE Expire(s, n)
    BY <1>0, <2>1 DEF Expire
  <2>2. CASE CallEnd(s, n) \/ DropStream(s, n)
    <3>1. /\ sends' = IF s \in over THEN sends
                      ELSE [sends EXCEPT ![s] = @ \cup {Msg("End", n)}]
          /\ sinks' = sinks /\ pending' = pending
      BY <2>2 DEF CallEnd, DropStream, GiveUpStream
    <3>2. \A m : Msg("Ack", m) # Msg("End", n)
      BY DEF Msg
    <3>3. \A t \in Sides : sends'[t] \subseteq sends[t] \cup {Msg("End", n)}
      BY <3>1 DEF LifecycleTypeOK
    <3>. QED  BY <1>0, <3>1, <3>2, <3>3
  <2>. QED  BY <1>2, <2>1, <2>2
\* From here on, a sink is replaced by one that owes no more.
<1>3. ASSUME NEW n \in DOMAIN sinks[s], NEW e,
             sinks' = [sinks EXCEPT ![s][n] = e], pending' = pending, sends' = sends,
             e.ask \in {0, sinks[s][n].ask}, e.final \in {0, sinks[s][n].final}
      PROVE  Covered'
  <2>1. /\ DOMAIN sinks'[s] = DOMAIN sinks[s]
        /\ sinks'[s][n] = e
        /\ \A m \in DOMAIN sinks[s] \ {n} : sinks'[s][m] = sinks[s][m]
        /\ \A t \in Sides \ {s} : sinks'[t] = sinks[t]
    BY <1>3, SinkAfter
  <2>2. OwesLess(s)
    BY <1>3, <2>1 DEF OwesLess
  <2>3. \A t \in Sides \ {s} : OwesLess(t)
    BY <1>3, <2>1, SameOwed
  <2>. QED  BY <1>3, <2>2, <2>3, CoveredStill
<1>4. ASSUME NEW n \in DOMAIN sinks[s],
             RelRead(s, n) \/ Unrel(s, n) \/ DropRel(s, n) \/ DropUnrel(s, n)
      PROVE  Covered'
  <2>1. sinks[s][n] \in SinkPairs
    BY SinkOf
  <2>2. CASE RelRead(s, n)
    <3>. DEFINE e == [sinks[s][n] EXCEPT !.full = TRUE, !.rel = "idle"]
    <3>1. e.ask = sinks[s][n].ask /\ e.final = sinks[s][n].final
      BY <2>1 DEF SinkPairs
    <3>2. sinks' = [sinks EXCEPT ![s][n] = e] /\ pending' = pending /\ sends' = sends
      BY <2>2 DEF RelRead
    <3>. HIDE DEF e
    <3>. QED  BY <1>3, <3>1, <3>2
  <2>3. CASE DropRel(s, n)
    <3>. DEFINE e == [sinks[s][n] EXCEPT !.rel = "dropped", !.ask = 0, !.final = 0]
    <3>1. e.ask = 0 /\ e.final = 0
      BY <2>1 DEF SinkPairs
    <3>2. sinks' = [sinks EXCEPT ![s][n] = e] /\ pending' = pending /\ sends' = sends
      BY <2>3 DEF DropRel
    <3>. HIDE DEF e
    <3>. QED  BY <1>3, <3>1, <3>2
  <2>4. CASE Unrel(s, n) \/ DropUnrel(s, n)
    <3>1. PICK u \in SinkStates :
              /\ sinks' = [sinks EXCEPT ![s][n] = [sinks[s][n] EXCEPT !.unrel = u]]
              /\ pending' = pending
              /\ sends' = sends
      BY <2>4 DEF Unrel, UnrelCheck, UnrelWait, DropUnrel, SinkStates
    <3>. DEFINE e == [sinks[s][n] EXCEPT !.unrel = u]
    <3>2. e.ask = sinks[s][n].ask /\ e.final = sinks[s][n].final
      BY <2>1 DEF SinkPairs
    <3>3. sinks' = [sinks EXCEPT ![s][n] = e]
      BY <3>1
    <3>. HIDE DEF e
    <3>. QED  BY <1>3, <3>1, <3>2, <3>3
  <2>. QED  BY <1>4, <2>2, <2>3, <2>4
<1>5. ASSUME NEW n \in DOMAIN sinks[s], RelCall(s, n)
      PROVE  Covered'
  <2>. DEFINE sink == sinks[s][n]
  <2>1. sink \in SinkPairs /\ n \in Nat
    BY SinkOf
  <2>2. PICK passed \in Passed(sink, n, sink.final) : RelGoesOn(s, n, sink, passed)
    BY <1>5 DEF RelCall
  <2>3. passed \in BOOLEAN /\ (passed => sink.final # 0)
    BY <2>1, <2>2 DEF Passed, SinkPairs
  <2>4. pending' = pending
    BY <1>5 DEF RelCall
  <2>5. CASE passed
    <3>1. <<"final", n>> \in Owed(s)
      BY <2>1, <2>3, <2>5 DEF Owed
    <3>. HIDE DEF sink
    <3>2. <<"final", n>> # <<"ask", n>>
      OBVIOUS
    <3>3. sink.ask # 0 => sinks[s][n].ask # 0
      BY DEF sink
    <3>. QED  BY <2>1, <2>2, <2>3, <2>4, <2>5, <3>1, <3>2, <3>3, GoesOnCovered
  <2>6. CASE ~passed
    <3>. DEFINE e == [sink EXCEPT !.rel = "waiting"]
    <3>1. e.ask = sink.ask /\ e.final = sink.final
      BY <2>1 DEF SinkPairs
    <3>2. sinks' = [sinks EXCEPT ![s][n] = e] /\ sends' = sends
      BY <2>2, <2>6 DEF RelGoesOn
    <3>. HIDE DEF e
    <3>. QED  BY <1>3, <2>4, <3>1, <3>2
  <2>. QED  BY <2>5, <2>6
<1>6. ASSUME NEW n \in DOMAIN sinks[s], RelTake(s, n)
      PROVE  Covered'
  <2>. DEFINE sink == [sinks[s][n] EXCEPT !.final = sinks[s][n].ask, !.ask = 0]
  <2>1. sinks[s][n] \in SinkPairs /\ n \in Nat
    BY SinkOf
  <2>2. sink \in SinkPairs /\ sink.ask = 0
    BY <2>1 DEF SinkPairs
  <2>3. PICK passed \in Passed(sink, n, sink.final) : RelGoesOn(s, n, sink, passed)
    BY <1>6 DEF RelTake
  <2>4. passed \in BOOLEAN
    BY <2>2, <2>3 DEF Passed, SinkPairs
  <2>5. pending' = pending /\ sinks[s][n].ask # 0
    BY <1>6 DEF RelTake
  <2>6. <<"ask", n>> \in Owed(s)
    BY <2>1, <2>5 DEF Owed
  <2>. HIDE DEF sink
  <2>7. <<"ask", n>> # <<"final", n>>
    OBVIOUS
  <2>. QED  BY <2>2, <2>3, <2>4, <2>5, <2>6, <2>7, GoesOnCovered
<1>7. CASE Accept(s)
  <2>. DEFINE m == Head(messages[s])
              e == Taken(sinks[s][m])
  <2>1. /\ sinks' = sinks \/ sinks' = [sinks EXCEPT ![s][m] = e]
        /\ pending' = pending
        /\ sends' = sends
    BY <1>7, Zenon DEF Accept
  <2>2. CASE m \in DOMAIN sinks[s]
    <3>1. sinks[s][m] \in SinkPairs
      BY <2>2, SinkOf
    <3>2. e.ask = sinks[s][m].ask /\ e.final = sinks[s][m].final
      BY <3>1 DEF Taken, SinkPairs
    <3>. HIDE DEF e, m
    <3>. QED  BY <1>0, <1>3, <2>1, <2>2, <3>2
  <2>3. CASE m \notin DOMAIN sinks[s]
    <3>1. sinks' = sinks
      BY <2>1, <2>3 DEF LifecycleTypeOK
    <3>. QED  BY <1>0, <2>1, <3>1
  <2>. QED  BY <2>2, <2>3
<1>8. CASE DropHandle(s)
  <2>1. /\ \A t \in Sides \ {s} : sinks'[t] = sinks[t]
        /\ DOMAIN sinks'[s] = DOMAIN sinks[s]
        /\ \A n \in DOMAIN sinks[s] :
                /\ sinks'[s][n].ask \in {0, sinks[s][n].ask}
                /\ sinks'[s][n].final = sinks[s][n].final
    <3>. DEFINE gone(x) == [x EXCEPT !.rel = "dropped", !.unrel = "dropped", !.ask = 0]
                left == [n \in DOMAIN sinks[s] |->
                            IF sinks[s][n].unrel = "queued" THEN gone(sinks[s][n])
                            ELSE sinks[s][n]]
    <3>1. sinks' = [sinks EXCEPT ![s] = left]
      BY <1>8 DEF DropHandle
    <3>2. \A x \in SinkPairs : gone(x).ask = 0 /\ gone(x).final = x.final
      BY DEF SinkPairs
    <3>3. \A n \in DOMAIN sinks[s] : sinks[s][n] \in SinkPairs
      BY SinkOf
    <3>4. \A n \in DOMAIN sinks[s] : /\ left[n].ask \in {0, sinks[s][n].ask}
                                     /\ left[n].final = sinks[s][n].final
      <4>. HIDE DEF gone
      <4>. QED  BY <3>2, <3>3
    <3>5. DOMAIN left = DOMAIN sinks[s]
      OBVIOUS
    <3>. HIDE DEF left
    <3>6. sinks'[s] = left /\ \A t \in Sides \ {s} : sinks'[t] = sinks[t]
      BY <3>1 DEF LifecycleTypeOK
    <3>. QED  BY <3>4, <3>5, <3>6
  <2>2. sends' = sends /\ pending' = pending
    BY <1>8 DEF DropHandle
  <2>3. OwesLess(s)
    BY <2>1, <2>2 DEF OwesLess
  <2>4. \A t \in Sides \ {s} : OwesLess(t)
    BY <2>1, <2>2, SameOwed
  <2>. QED  BY <2>2, <2>3, <2>4, CoveredStill
<1>9. \A n : Rel(s, n) \/ Unrel(s, n) => n \in DOMAIN sinks[s]
  BY DEF Rel, Unrel, RelCall, RelTake, RelRead, UnrelCheck, UnrelWait
<1>. QED  BY <1>1, <1>2, <1>4, <1>5, <1>6, <1>7, <1>8 DEF App, Rel

LEMMA InitCovered == LifecycleInit => Covered
<1>. SUFFICES ASSUME LifecycleInit, NEW s \in Sides
              PROVE  IsFiniteSet(Owed(s)) /\ Cardinality(Owed(s)) <= pending[s]
  BY DEF Covered
<1>1. Owed(s) = {}
  BY DEF LifecycleInit, Owed
<1>. QED  BY <1>1, FS_EmptySet DEF LifecycleInit

LEMMA StepsKeepCovered == LifecycleInv /\ [LifecycleNext]_svars => Covered'
<1>. SUFFICES ASSUME LifecycleInv, [LifecycleNext]_svars
              PROVE  Covered'
  OBVIOUS
<1>1. ASSUME sinks' = sinks, sends' = sends, pending' = pending
      PROVE  Covered'
  BY <1>1 DEF LifecycleInv, Covered, Owed
<1>2. ASSUME NEW s \in Sides, Lose(s)
      PROVE  Covered'
  BY <1>1, <1>2 DEF Lose
<1>3. CASE UNCHANGED svars
  BY <1>1, <1>3 DEF svars
<1>. QED  BY <1>2, <1>3, TaskKeepsCovered, AppKeepsCovered DEF LifecycleNext

-----------------------------------------------------------------------------
(* The theorems.                                                            *)

\* What the state holds keeps its types (the task and the handle of
\* mani/stream.rs on both sides).
THEOREM LifecycleTyped == LifecycleSpec => []LifecycleTypeOK
<1>1. LifecycleInit => LifecycleTypeOK
  BY InitTyped
<1>2. LifecycleTypeOK /\ [LifecycleNext]_svars => LifecycleTypeOK'
  BY StepsKeepTypes
<1>. QED  BY <1>1, <1>2, PTL DEF LifecycleSpec

\* pending_ack_count counts every answer that is owed (stream.rs:854, 320).
THEOREM EveryAnswerCounted == LifecycleSpec => []LifecycleInv
<1>1. LifecycleInit => LifecycleInv
  BY InitTyped, InitCovered DEF LifecycleInv
<1>2. LifecycleInv /\ [LifecycleNext]_svars => LifecycleInv'
  BY StepsKeepTypes, StepsKeepCovered DEF LifecycleInv
<1>. QED  BY <1>1, <1>2, PTL DEF LifecycleSpec

\* A task whose handle is gone does not close the stream while the answer to
\* a TransferEnd it has read is still to come (stream.rs:124-128).
THEOREM ClosesSettledHolds == LifecycleSpec => []ClosesSettled
<1>1. LifecycleInv => ClosesSettled
  <2>. SUFFICES ASSUME LifecycleInv, NEW s \in closing \ over, Settled(s)
                PROVE  Unanswered(s) = {}
    BY DEF ClosesSettled
  <2>1. s \in Sides /\ pending[s] = 0
    BY DEF LifecycleInv, LifecycleTypeOK, Settled
  <2>2. IsFiniteSet(Owed(s)) /\ Cardinality(Owed(s)) <= 0
    BY <2>1 DEF LifecycleInv, Covered
  <2>3. Owed(s) = {}
    BY <2>2, FS_CardinalityType, FS_EmptySet
  <2>4. \A n \in DOMAIN sinks[s] : n \in Nat
    BY <2>1, SinkOf DEF LifecycleInv
  <2>5. ASSUME NEW n \in Unanswered(s)
        PROVE  FALSE
    <3>1. \E k \in {"ask", "final", "ack"} : <<k, n>> \in Owed(s)
      BY <2>4, <2>5 DEF Unanswered, Owed
    <3>. QED  BY <2>3, <3>1
  <2>. QED  BY <2>5
<1>. QED  BY <1>1, EveryAnswerCounted, PTL
=============================================================================
