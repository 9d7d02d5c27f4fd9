------------------------- MODULE RecvStreams_proofs -------------------------
(****************************************************************************)
(* Proofs about RecvStreams, for every number and order of packets, every   *)
(* buffer, channel and batch size, and every drop, cancellation and close.  *)
(****************************************************************************)
EXTENDS RecvStreams, SequenceTheorems, WellFoundedInduction, TLAPS

-----------------------------------------------------------------------------
(* The operators keep the types of what they work on.                       *)

LEMMA SeqArith ==
    ASSUME NEW a \in Int, NEW b \in Int
    PROVE  SeqAdd(a, b) \in SeqNum /\ SeqSub(a, b) \in SeqNum
  BY AssemblerAssumption, SMT DEF SeqAdd, SeqSub, SeqNum

LEMMA ModIdentity ==
    ASSUME NEW m \in Nat \ {0}, NEW x \in 0 .. (m - 1)
    PROVE  x % m = x
  BY SMT

LEMMA SeqsType == Seqs \subseteq SeqNum /\ FinalSeq \in SeqNum /\ 0 \in SeqNum
  BY AssemblerAssumption, RecvAssumption, SMT DEF Seqs, FinalSeq, SeqAdd, SeqSub, SeqNum

\* Concatenation of the buffer, some holes and a payload.
LEMMA HolesType ==
    ASSUME NEW n \in Nat
    PROVE  Holes(n) \in Seq(SeqNum \cup {Missing}) /\ Len(Holes(n)) = n
  BY SMT DEF Holes

LEMMA PacketsType ==
    ASSUME NEW a \in AsmType, NEW q \in Seq(SeqNum \cup {Missing})
    PROVE  [a EXCEPT !.packets = q] \in AsmType
  BY SMT DEF AsmType

LEMMA PushType ==
    ASSUME NEW a \in AsmType, NEW s \in SeqNum
    PROVE  Push(a, s) \in AsmType
<1> DEFINE n == SeqSub(s, a.cursor)
<1>1. n \in Nat
  BY SeqArith, SMT DEF AsmType, SeqNum
<1>2. Holes(n) \in Seq(SeqNum \cup {Missing}) BY <1>1, HolesType
<1>3. << s >> \in Seq(SeqNum \cup {Missing}) BY SMT
<1>4. (a.packets \o Holes(n)) \o << s >> \in Seq(SeqNum \cup {Missing})
  BY <1>2, <1>3, SMT DEF AsmType
<1>5. CASE HasSlot(a, s)
  <2>1. Slot(a, s) \in 1 .. Len(a.packets)
    BY <1>5, SMT DEF HasSlot, Slot, AsmType, SeqNum
  <2>2. [a.packets EXCEPT ![Slot(a, s)] = s] \in Seq(SeqNum \cup {Missing})
    BY <2>1, ExceptSeq, SMT DEF AsmType
  <2>3. [a EXCEPT !.packets[Slot(a, s)] = s] \in AsmType
    BY <2>2, SMT DEF AsmType
  <2> QED BY <1>5, <2>3 DEF Push
<1>6. CASE ~HasSlot(a, s)
  <2>1. [a EXCEPT !.packets = (a.packets \o Holes(n)) \o << s >>] \in AsmType
    BY <1>4, PacketsType
  <2>2. Push(a, s) =
          IF Full(a) THEN a
          ELSE [a EXCEPT !.packets = (a.packets \o Holes(n)) \o << s >>]
    BY <1>6, SMT DEF Push, AsmType
  <2> QED BY <2>1, <2>2
<1> QED BY <1>5, <1>6

LEMMA ReadType ==
    ASSUME NEW a \in AsmType, NEW n \in ReadableCounts(a)
    PROVE  AfterRead(a, n) \in AsmType /\ Readable(a, n) \in Seq(SeqNum)
<1>1. n \in 0 .. Len(a.packets) /\ \A i \in 1 .. n : a.packets[i] # Missing
  BY DEF ReadableCounts
<1>2. Len(a.packets) \in Nat /\ a.packets \in Seq(SeqNum \cup {Missing})
  BY SMT DEF AsmType
<1>3. SubSeq(a.packets, n + 1, Len(a.packets)) \in Seq(SeqNum \cup {Missing})
  BY <1>1, <1>2, SMT
<1>4. SeqAdd(a.cursor, n) \in SeqNum
  BY <1>1, <1>2, AssemblerAssumption, SMT DEF SeqAdd, SeqNum, AsmType
<1>5. \A i \in 1 .. n : a.packets[i] \in SeqNum
  BY <1>1, <1>2, SMT
<1>6. Readable(a, n) = [i \in 1 .. n |-> a.packets[i]]
  BY <1>1, <1>2, SMT DEF Readable
<1>7. [i \in 1 .. n |-> a.packets[i]] \in Seq(SeqNum)
  BY <1>1, <1>5, SMT
<1> QED BY <1>3, <1>4, <1>6, <1>7 DEF AfterRead, AsmType

LEMMA MissingType ==
    ASSUME NEW a \in AsmType
    PROVE  MissingSeqs(a) \subseteq SeqNum
  BY AssemblerAssumption, SMT DEF MissingSeqs, SeqAdd, SeqNum, AsmType

LEMMA EmissionType ==
    ASSUME NEW c \in CoordType, NEW force \in BOOLEAN
    PROVE  /\ Emission(c, force) \in Nat
           /\ Emitted(c, force) \in CoordType
           /\ EffectiveCount(c) \in Nat
<1>1. EffectiveCount(c) \in Nat
  BY SMT DEF EffectiveCount, CoordType, Sinks
<1>2. Emission(c, force) \in Nat
  BY <1>1, CoordinatorAssumption, SMT DEF Emission, CoordType
<1> QED BY <1>1, <1>2, SMT DEF Emitted, CoordType
-----------------------------------------------------------------------------
(* Type correctness                                                         *)

LEMMA InitType == Init => TypeOK
<1> SUFFICES ASSUME Init PROVE TypeOK
  OBVIOUS
<1>1. asm \in AsmType
  BY SeqsType, SMT DEF Init, NewAssembler, AsmType
<1>2. coord \in CoordType
  BY SMT DEF Init, NewCoord, CoordType, Sinks
<1>3. pc \in [Sinks -> SinkPc]
  BY SMT DEF Init, SinkPc, Sinks
<1>4. routing \in [to : Sinks \cup {"none"}, seq : SeqNum]
  BY SeqsType, SMT DEF Init
<1>5. /\ ch \in [Sinks -> Seq(SeqNum)]
      /\ out \in [Sinks -> Seq(SeqNum)]
      /\ delivered \in [Sinks -> Seq(SeqNum)]
      /\ emission \in [Sinks -> Nat]
      /\ pipeline \in Seq(SeqNum)
      /\ scCh \in Seq(CommandType)
  BY SMT DEF Init
<1>6. notified \in [Sinks -> BOOLEAN] /\ signaled \in [Sinks -> BOOLEAN]
  BY DEF Init
<1> QED
  BY <1>1, <1>2, <1>3, <1>4, <1>5, <1>6 DEF Init, TypeOK

\* A record of the sender_command channel.
LEMMA CommandsType ==
    /\ \A n \in Nat : Credits(n) \in CommandType
    /\ \A m \in SUBSET SeqNum : Nack(m) \in CommandType
  BY SMT DEF Credits, Nack, CommandType

LEMMA SendType ==
    ASSUME scCh \in Seq(CommandType), NEW cmd \in CommandType, SendToTask(cmd)
    PROVE  scCh' \in Seq(CommandType)
  BY SMT DEF SendToTask

LEMMA DrainedType ==
    ASSUME NEW c \in CoordType, NEW k \in Sinks, NEW n \in Nat
    PROVE  Drained(c, k, n) \in CoordType /\ Closed(c, k) \in CoordType
<1>1. ASSUME NEW d \in [Sinks -> Nat]
      PROVE  [c EXCEPT !.drained = d] \in CoordType
  BY SMT DEF CoordType
<1>2. ASSUME NEW d \in [Sinks -> BOOLEAN]
      PROVE  [c EXCEPT !.closed = d] \in CoordType
  BY DEF CoordType
<1>3. [c.drained EXCEPT ![k] = @ + n] \in [Sinks -> Nat]
  BY SMT DEF CoordType
<1>4. [c.closed EXCEPT ![k] = TRUE] \in [Sinks -> BOOLEAN]
  BY DEF CoordType
<1> QED BY <1>1, <1>2, <1>3, <1>4 DEF Drained, Closed

LEMMA SinkStepType ==
    ASSUME TypeOK, NEW k \in Sinks, SinkStep(k)
    PROVE  TypeOK'
<1> USE DEF TypeOK, sinkVars, relVars, taskVars, netVars
<1>1. CASE Call(k)
  <2>1. pc' \in [Sinks -> SinkPc]
    BY <1>1 DEF Call, SinkPc
  <2> QED BY <1>1, <2>1 DEF Call
<1>2. CASE ChannelClosed(k)
  BY <1>2, SMT DEF ChannelClosed, SignalEof, SinkPc
<1>3. CASE Record(k)
  <2> DEFINE c == Drained(coord, k, Len(out[k]))
  <2>1. c \in CoordType
    BY DrainedType, SMT
  <2>2. Emission(c, FALSE) \in Nat /\ Emitted(c, FALSE) \in CoordType
    BY <2>1, EmissionType
  <2>3. coord' \in CoordType /\ emission' \in [Sinks -> Nat]
    BY <1>3, <2>2 DEF Record
  <2>4. pc' \in [Sinks -> SinkPc]
    <3>1. \E p \in {"idle", "recording"} : pc' = [pc EXCEPT ![k] = p]
      BY <1>3 DEF Record
    <3> QED BY <3>1 DEF SinkPc
  <2>5. delivered' \in [Sinks -> Seq(SeqNum)] /\ out' \in [Sinks -> Seq(SeqNum)]
    <3>1. delivered[k] \o out[k] \in Seq(SeqNum) /\ << >> \in Seq(SeqNum)
      BY SMT
    <3>2. \/ delivered' = [delivered EXCEPT ![k] = delivered[k] \o out[k]]
             /\ out' = [out EXCEPT ![k] = << >>]
          \/ UNCHANGED <<delivered, out>>
      BY <1>3 DEF Record
    <3> DEFINE both == delivered[k] \o out[k]
    <3>3. [delivered EXCEPT ![k] = both] \in [Sinks -> Seq(SeqNum)]
      <4>1. both \in Seq(SeqNum) /\ delivered \in [Sinks -> Seq(SeqNum)]
        BY <3>1
      <4> HIDE DEF both
      <4> QED BY ONLY <4>1
    <3>4. [out EXCEPT ![k] = << >>] \in [Sinks -> Seq(SeqNum)]
      BY <3>1
    <3> QED BY ONLY <3>2, <3>3, <3>4, TypeOK DEF TypeOK
  <2>6. lock' \in Sinks \cup {"free"}
    BY <1>3 DEF Record
  <2> QED BY <1>3, <2>3, <2>4, <2>5, <2>6 DEF Record
<1>4. CASE RecordSend(k)
  <2>1. scCh' \in Seq(CommandType)
    BY <1>4, SendType, CommandsType DEF RecordSend
  <2>2. delivered' \in [Sinks -> Seq(SeqNum)] /\ out' \in [Sinks -> Seq(SeqNum)]
    BY <1>4, SMT DEF RecordSend
  <2>3. pc' \in [Sinks -> SinkPc] /\ emission' \in [Sinks -> Nat]
    BY <1>4, SMT DEF RecordSend, SinkPc
  <2> QED BY <1>4, <2>1, <2>2, <2>3 DEF RecordSend
<1>5. CASE MarkClosed(k)
  <2>1. Closed(coord, k) \in CoordType
    BY DrainedType
  <2>2. /\ Emission(Closed(coord, k), TRUE) \in Nat
        /\ Emitted(Closed(coord, k), TRUE) \in CoordType
    BY <2>1, EmissionType
  <2>3. coord' \in CoordType /\ emission' \in [Sinks -> Nat]
    BY <1>5, <2>2 DEF MarkClosed
  <2>4. pc' \in [Sinks -> SinkPc]
    BY <1>5, SMT DEF MarkClosed, SinkPc
  <2>5. lock' \in Sinks \cup {"free"}
    BY <1>5 DEF MarkClosed
  <2> QED BY <1>5, <2>3, <2>4, <2>5 DEF MarkClosed
<1>6. CASE MarkClosedSend(k)
  <2>1. scCh' \in Seq(CommandType)
    BY <1>6, SendType, CommandsType DEF MarkClosedSend
  <2>2. pc' \in [Sinks -> SinkPc] /\ emission' \in [Sinks -> Nat]
    BY <1>6, SMT DEF MarkClosedSend, SinkPc
  <2> QED BY <1>6, <2>1, <2>2 DEF MarkClosedSend
<1>7. CASE DrainOne(k)
  BY <1>7, SMT DEF DrainOne
<1>8. CASE DrainEnd(k)
  BY <1>8, SMT DEF DrainEnd, SinkPc
<1> QED BY <1>1, <1>2, <1>3, <1>4, <1>5, <1>6, <1>7, <1>8 DEF SinkStep

LEMMA ReliableStepType ==
    ASSUME TypeOK, ReliableStep
    PROVE  TypeOK'
<1> USE DEF TypeOK, sinkVars, relVars, taskVars, netVars
<1>0. "reliable" \in Sinks
  BY DEF Sinks
<1>1. CASE RelTop
  <2>1. pc' \in [Sinks -> SinkPc] /\ signaled' \in [Sinks -> BOOLEAN]
    BY <1>1 DEF RelTop, SignalEof, EnterSelect, SinkPc
  <2>2. notified' \in [Sinks -> BOOLEAN] /\ pendingEnd' \in SeqNum \cup {None}
    BY <1>1 DEF RelTop, EnterSelect
  <2>3. endAcks' \in Nat
    BY <1>1, SMT DEF RelTop
  <2> QED BY <1>1, <2>1, <2>2, <2>3 DEF RelTop
<1>2. CASE RelNotified
  <2>1. pc' \in [Sinks -> SinkPc] /\ signaled' \in [Sinks -> BOOLEAN]
    BY <1>2 DEF RelNotified, SignalEof, SinkPc
  <2> QED BY <1>2, <2>1 DEF RelNotified
<1>3. CASE RelCommand
  <2>1. pc' \in [Sinks -> SinkPc]
    BY <1>3 DEF RelCommand, SinkPc
  <2>2. Head(pipeline) \in SeqNum /\ Tail(pipeline) \in Seq(SeqNum)
    BY <1>3 DEF RelCommand
  <2> QED BY <1>3, <2>1, <2>2 DEF RelCommand
<1>4. CASE RelPacket
  <2>1. Head(ch["reliable"]) \in SeqNum /\ ch' \in [Sinks -> Seq(SeqNum)]
    BY <1>0, <1>4, SMT DEF RelPacket
  <2>2. Push(asm, Head(ch["reliable"])) \in AsmType
    BY <2>1, PushType
  <2>3. asm' \in AsmType
    BY <1>4, <2>2 DEF RelPacket
  <2>4. pc' \in [Sinks -> SinkPc]
    <3>1. \E p \in {"draining", "read", "nack"} :
             pc' = [pc EXCEPT !["reliable"] = p]
      BY <1>4 DEF RelPacket, Panic, DropSink
    <3> QED BY <1>0, <3>1 DEF SinkPc
  <2>5. /\ pendingEnd' \in SeqNum \cup {None}
        /\ pipeline' \in Seq(SeqNum)
        /\ cut' \in [Sinks -> {"no", "cancelled", "panicked"}]
    <3>1. << >> \in Seq(SeqNum)
      BY SMT
    <3> QED BY <1>4, <3>1 DEF RelPacket, Panic, DropSink
  <2> QED BY <1>4, <2>1, <2>3, <2>4, <2>5 DEF RelPacket
<1>5. CASE RelNack
  <2>1. scCh' \in Seq(CommandType)
    BY <1>5, MissingType, SendType, CommandsType DEF RelNack
  <2>2. pc' \in [Sinks -> SinkPc]
    BY <1>0, <1>5, SMT DEF RelNack, SinkPc
  <2> QED BY <1>5, <2>1, <2>2 DEF RelNack
<1>6. CASE RelRead
  <2>1. PICK n \in ReadableCounts(asm) :
          IF ReadPanics(asm, n)
          THEN Panic /\ UNCHANGED <<asm, out>>
          ELSE /\ asm' = AfterRead(asm, n)
               /\ out' = [out EXCEPT !["reliable"] = Readable(asm, n)]
               /\ pc' = [pc EXCEPT !["reliable"] =
                           IF n = 0 THEN "top" ELSE "record"]
               /\ UNCHANGED <<pendingEnd, pipeline, cut>>
    BY <1>6 DEF RelRead
  <2>2. AfterRead(asm, n) \in AsmType /\ Readable(asm, n) \in Seq(SeqNum)
    BY ReadType
  <2>3. asm' \in AsmType /\ out' \in [Sinks -> Seq(SeqNum)]
    BY <2>1, <2>2
  <2>4. pc' \in [Sinks -> SinkPc]
    BY <1>0, <2>1 DEF Panic, DropSink, SinkPc
  <2>5. /\ pendingEnd' \in SeqNum \cup {None}
        /\ pipeline' \in Seq(SeqNum)
        /\ cut' \in [Sinks -> {"no", "cancelled", "panicked"}]
    <3>1. << >> \in Seq(SeqNum)
      BY SMT
    <3> QED BY <2>1, <3>1 DEF Panic, DropSink
  <2> QED BY <1>6, <2>3, <2>4, <2>5 DEF RelRead
<1> QED BY <1>1, <1>2, <1>3, <1>4, <1>5, <1>6 DEF ReliableStep

LEMMA UnreliableStepType ==
    ASSUME TypeOK, UnreliableStep
    PROVE  TypeOK'
<1> USE DEF TypeOK, sinkVars, relVars, taskVars, netVars
<1>0. "unreliable" \in Sinks
  BY DEF Sinks
<1>1. CASE UnrelTop
  BY <1>0, <1>1 DEF UnrelTop, SignalEof, SinkPc
<1>2. CASE UnrelWait
  BY <1>0, <1>2, SMT DEF UnrelWait, EnterSelect, SinkPc
<1>3. CASE UnrelNotified
  BY <1>0, <1>3 DEF UnrelNotified, SignalEof, SinkPc
<1>4. CASE UnrelPacket
  <2>1. /\ ch' \in [Sinks -> Seq(SeqNum)]
        /\ << Head(ch["unreliable"]) >> \in Seq(SeqNum)
    BY <1>0, <1>4, SMT DEF UnrelPacket
  <2>2. pc' \in [Sinks -> SinkPc]
    BY <1>0, <1>4, SMT DEF UnrelPacket, SinkPc
  <2>3. out' \in [Sinks -> Seq(SeqNum)]
    BY <1>4, <2>1 DEF UnrelPacket
  <2> QED BY <1>4, <2>1, <2>2, <2>3 DEF UnrelPacket
<1> QED BY <1>1, <1>2, <1>3, <1>4 DEF UnreliableStep

LEMMA TaskStepType ==
    ASSUME TypeOK, Route \/ TaskStep
    PROVE  TypeOK'
<1> USE DEF TypeOK, sinkVars, relVars, taskVars, netVars
<1>1. CASE Route
  <2>1. routing.to \in Sinks /\ routing.seq \in SeqNum
    BY <1>1, SMT DEF Route
  <2>2. ch' \in [Sinks -> Seq(SeqNum)]
    BY <1>1, <2>1, SMT DEF Route
  <2>3. routing' \in [to : Sinks \cup {"none"}, seq : SeqNum]
    <3>1. ASSUME NEW dest \in Sinks \cup {"none"}
          PROVE  [routing EXCEPT !.to = dest] \in
                   [to : Sinks \cup {"none"}, seq : SeqNum]
      BY <3>1
    <3>2. (IF routing.to = "reliable" THEN "unreliable" ELSE "none")
             \in Sinks \cup {"none"}
      BY DEF Sinks
    <3> QED BY <1>1, <3>1, <3>2 DEF Route
  <2> QED BY <1>1, <2>2, <2>3 DEF Route
<1>2. CASE TaskForward
  BY <1>2, SeqsType, SMT DEF TaskForward
<1>3. CASE TaskForwardFails
  BY <1>3, SMT DEF TaskForwardFails, TaskExit
<1>4. CASE TaskSendAck
  BY <1>4, SMT DEF TaskSendAck, End
<1>5. CASE TaskSenderCommand
  <2>1. Head(scCh) \in CommandType /\ Tail(scCh) \in Seq(CommandType)
    BY <1>5, SMT DEF TaskSenderCommand
  <2>2. Head(scCh).credits \in Nat
    BY <2>1 DEF CommandType
  <2>3. granted' \in Nat
    BY <1>5, <2>2, SMT DEF TaskSenderCommand
  <2> QED BY <1>5, <2>1, <2>3 DEF TaskSenderCommand
<1> QED BY <1>1, <1>2, <1>3, <1>4, <1>5 DEF TaskStep

LEMMA EnvironmentType ==
    ASSUME TypeOK, Environment
    PROVE  TypeOK'
<1> USE DEF TypeOK, sinkVars, relVars, taskVars, netVars
<1>1. ASSUME NEW s \in Seqs, Decode(s) PROVE TypeOK'
  <2>1. s \in SeqNum
    BY SeqsType
  <2>2. routing' \in [to : Sinks \cup {"none"}, seq : SeqNum]
    BY <1>1, <2>1, SMT DEF Decode, FirstSink, Sinks
  <2> QED BY <1>1, <2>2, SMT DEF Decode
<1>2. CASE CloseChannels
  BY <1>2 DEF CloseChannels
<1>3. CASE TaskTransferEnd
  <2>1. notified' \in [Sinks -> BOOLEAN]
    BY <1>3 DEF TaskTransferEnd, End
  <2>2. ends' \in Nat /\ acks' \in Nat
    BY <1>3, SMT DEF TaskTransferEnd
  <2>3. taskPc' \in {"running", "forwarding", "exited"} /\ isEnded' \in BOOLEAN
    BY <1>3 DEF TaskTransferEnd, End
  <2> QED BY <1>3, <2>1, <2>2, <2>3 DEF TaskTransferEnd
<1>4. CASE PeerCloses
  BY <1>4, SMT DEF PeerCloses, TaskExit
<1>5. ASSUME NEW k \in Sinks, AppDrop(k) PROVE TypeOK'
  <2>1. << >> \in Seq(SeqNum)
    BY SMT
  <2> QED BY <1>5, <2>1 DEF AppDrop, DropSink, SinkPc
<1>6. ASSUME NEW k \in Sinks, Cancel(k) PROVE TypeOK'
  BY <1>6, SMT DEF Cancel, SinkPc
<1> QED BY <1>1, <1>2, <1>3, <1>4, <1>5, <1>6 DEF Environment

LEMMA NextType == TypeOK /\ [Next]_vars => TypeOK'
<1> SUFFICES ASSUME TypeOK, [Next]_vars PROVE TypeOK'
  OBVIOUS
<1>1. CASE UNCHANGED vars
  BY <1>1 DEF vars, sinkVars, relVars, taskVars, netVars, TypeOK
<1>2. CASE Next
  BY <1>2, SinkStepType, ReliableStepType, UnreliableStepType, TaskStepType,
     EnvironmentType DEF Next
<1> QED BY <1>1, <1>2

\* Every variable keeps its type: in particular cursor and every sequence
\* number in a channel or a NACK stay in the machine word.
THEOREM TypeCorrect == Spec => []TypeOK
  BY InitType, NextType, PTL DEF Spec
-----------------------------------------------------------------------------
(* Credits follow the application's drains                                  *)

\* An emission is exactly what the gating sinks have drained and the peer has
\* not been given: it makes the emitted count the effective count.
LEMMA EmittedSafe ==
    ASSUME NEW c \in CoordType, CoveredByDrains(c), NEW force \in BOOLEAN
    PROVE  CoveredByDrains(Emitted(c, force)) /\ NothingWithheld(Emitted(c, force))
<1> DEFINE e == Emitted(c, force)
<1>1. e.drained = c.drained /\ e.closed = c.closed
  BY DEF Emitted, CoordType
<1>2. e.emitted = c.emitted + Emission(c, force)
  BY DEF Emitted, CoordType
<1>3. \A k \in Sinks : Gating(e, k) <=> Gating(c, k)
  BY <1>1 DEF Gating
<1>4. (Ungated(e) <=> Ungated(c)) /\ EffectiveCount(e) = EffectiveCount(c)
  BY <1>1, <1>3 DEF Ungated, EffectiveCount, Sinks
<1>5. c.emitted \in Nat /\ EffectiveCount(c) \in Nat /\ c.drained \in [Sinks -> Nat]
  BY EmissionType DEF CoordType
<1>6. CASE Emission(c, force) = 0
  <2>1. e.emitted = c.emitted
    BY <1>2, <1>5, <1>6, SMT
  <2>2. ~Ungated(c) => EffectiveCount(c) - c.emitted < Bulk
    BY <1>5, <1>6, CoordinatorAssumption, SMT DEF Emission
  <2>3. CoveredByDrains(e)
    BY <1>1, <1>3, <2>1 DEF CoveredByDrains
  <2>4. NothingWithheld(e)
    BY <1>4, <2>1, <2>2 DEF NothingWithheld
  <2> QED BY <2>3, <2>4
<1>7. CASE Emission(c, force) # 0
  <2>1. ~Ungated(c) /\ Emission(c, force) = EffectiveCount(c) - c.emitted
    BY <1>7 DEF Emission
  <2>2. e.emitted = EffectiveCount(c)
    BY <1>2, <1>5, <2>1, SMT
  <2>3. \A k \in Sinks : Gating(c, k) => EffectiveCount(c) <= c.drained[k]
    BY <1>5, SMT DEF EffectiveCount, Sinks
  <2>4. \E k \in Sinks : Gating(c, k)
    BY <2>1 DEF Ungated
  <2>5. CoveredByDrains(e)
    BY <1>1, <1>3, <2>2, <2>3, <2>4 DEF CoveredByDrains
  <2>6. EffectiveCount(e) - e.emitted < Bulk
    BY <1>4, <1>5, <2>2, CoordinatorAssumption, SMT
  <2> QED BY <2>5, <2>6 DEF NothingWithheld
<1> QED BY <1>6, <1>7

\* Neither a drain nor a close can uncover emitted credits.
LEMMA CoverGrows ==
    ASSUME NEW c \in CoordType, CoveredByDrains(c),
           NEW k \in Sinks, NEW n \in Nat
    PROVE  CoveredByDrains(Drained(c, k, n)) /\ CoveredByDrains(Closed(c, k))
<1>1. /\ Drained(c, k, n).drained = [c.drained EXCEPT ![k] = c.drained[k] + n]
      /\ Drained(c, k, n).closed = c.closed
      /\ Drained(c, k, n).emitted = c.emitted
  BY DEF Drained, CoordType
<1>2. /\ Closed(c, k).drained = c.drained
      /\ Closed(c, k).closed = [c.closed EXCEPT ![k] = TRUE]
      /\ Closed(c, k).emitted = c.emitted
  BY DEF Closed, CoordType
<1>3. \A j \in Sinks : /\ c.drained[j] \in Nat
                       /\ Drained(c, k, n).drained[j] \in Nat
                       /\ c.drained[j] <= Drained(c, k, n).drained[j]
  BY <1>1, SMT DEF CoordType
<1>4. \A j \in Sinks : Gating(Drained(c, k, n), j) => Gating(c, j)
  BY <1>1 DEF Gating
<1>5. \A j \in Sinks : Gating(Closed(c, k), j) => Gating(c, j)
  BY <1>2 DEF Gating, CoordType
<1>6. c.emitted \in Nat
  BY DEF CoordType
<1>7. CoveredByDrains(Drained(c, k, n))
  BY <1>1, <1>3, <1>4, <1>6, SMT DEF CoveredByDrains
<1>8. CoveredByDrains(Closed(c, k))
  BY <1>2, <1>5 DEF CoveredByDrains
<1> QED BY <1>7, <1>8

\* The coordinator's state is only ever changed under its lock, by a record
\* or a close.
LEMMA CoordSteps ==
    ASSUME [Next]_vars
    PROVE  \/ \E k \in Sinks : Record(k) \/ MarkClosed(k)
           \/ UNCHANGED coord
<1>1. CASE UNCHANGED vars
  BY <1>1 DEF vars
<1>2. ASSUME NEW k \in Sinks, SinkStep(k), ~Record(k), ~MarkClosed(k)
      PROVE  UNCHANGED coord
  BY <1>2 DEF SinkStep, Call, ChannelClosed, RecordSend, MarkClosedSend,
     DrainOne, DrainEnd
<1>3. CASE ReliableStep
  BY <1>3 DEF ReliableStep, RelTop, RelNotified, RelCommand, RelPacket,
     RelNack, RelRead
<1>4. CASE UnreliableStep
  BY <1>4 DEF UnreliableStep, UnrelTop, UnrelWait, UnrelNotified, UnrelPacket
<1>5. CASE Route \/ TaskStep
  BY <1>5 DEF Route, TaskStep, TaskForward, TaskForwardFails, TaskSendAck,
     TaskSenderCommand, TaskExit
<1>6. CASE Environment
  BY <1>6 DEF Environment, Decode, CloseChannels, TaskTransferEnd, PeerCloses,
     TaskExit, AppDrop, Cancel
<1> QED BY <1>1, <1>2, <1>3, <1>4, <1>5, <1>6 DEF Next

\* What both halves of CreditSafety need of a step.
LEMMA CoverStep ==
    ASSUME TypeOK, CreditsFollowDrain, NoBatchWithheld, [Next]_vars
    PROVE  CreditsFollowDrain' /\ NoBatchWithheld'
<1> DEFINE Inv == CreditsFollowDrain /\ NoBatchWithheld
<1>1. coord \in CoordType /\ CoveredByDrains(coord)
  BY DEF TypeOK, CreditsFollowDrain
<1>2. ASSUME NEW k \in Sinks, Record(k) PROVE Inv'
  <2> DEFINE c == Drained(coord, k, Len(out[k]))
  <2>1. Len(out[k]) \in Nat
    BY SMT DEF TypeOK
  <2>2. c \in CoordType /\ CoveredByDrains(c)
    BY <1>1, <2>1, DrainedType, CoverGrows
  <2>3. coord' = Emitted(c, FALSE)
    BY <1>2 DEF Record
  <2> QED BY <2>2, <2>3, EmittedSafe DEF CreditsFollowDrain, NoBatchWithheld
<1>3. ASSUME NEW k \in Sinks, MarkClosed(k) PROVE Inv'
  <2>1. CASE coord.closed[k]
    BY <1>3, <2>1 DEF MarkClosed, CreditsFollowDrain, NoBatchWithheld
  <2>2. CASE ~coord.closed[k]
    <3>1. 0 \in Nat
      OBVIOUS
    <3>2. Closed(coord, k) \in CoordType /\ CoveredByDrains(Closed(coord, k))
      BY <1>1, <3>1, DrainedType, CoverGrows
    <3>3. coord' = Emitted(Closed(coord, k), TRUE)
      BY <1>3, <2>2 DEF MarkClosed
    <3> QED BY <3>2, <3>3, EmittedSafe
            DEF CreditsFollowDrain, NoBatchWithheld
  <2> QED BY <2>1, <2>2
<1>4. CASE UNCHANGED coord
  BY <1>4 DEF CreditsFollowDrain, NoBatchWithheld, CoveredByDrains,
     NothingWithheld, Gating, Ungated, EffectiveCount
<1> QED BY <1>2, <1>3, <1>4, CoordSteps

LEMMA CoverInit == Init => CreditsFollowDrain /\ NoBatchWithheld
<1> SUFFICES ASSUME Init PROVE CreditsFollowDrain /\ NoBatchWithheld
  OBVIOUS
<1>1. /\ coord.emitted = 0
      /\ \A k \in Sinks : coord.drained[k] = 0
  BY DEF Init, NewCoord
<1>2. EffectiveCount(coord) = 0
  BY <1>1 DEF EffectiveCount, Sinks
<1>3. \E k \in Sinks : TRUE
  BY DEF Sinks
<1> QED BY <1>1, <1>2, <1>3, CoordinatorAssumption, SMT
        DEF CreditsFollowDrain, CoveredByDrains, NoBatchWithheld,
            NothingWithheld

\* Whatever is dropped, cancelled or closed and however the sinks race for the
\* lock, the peer is never granted more credits than every open sink has
\* drained, and a whole batch of drained credits is never kept from it.
THEOREM CreditSafety == Spec => [](CreditsFollowDrain /\ NoBatchWithheld)
  BY CoverInit, CoverStep, TypeCorrect, PTL DEF Spec

\* The half of it a sender stalls without: while some sink is open, less than
\* one batch of drained credits is kept back at any time.
COROLLARY BatchesReachThePeer == Spec => []NoBatchWithheld
  BY CreditSafety, PTL
-----------------------------------------------------------------------------
(* No chunk overtakes the place of an earlier one                           *)

LEMMA PushNotEarly ==
    ASSUME NEW a \in AsmType, NEW s \in SeqNum, NoEarlySlot(a)
    PROVE  NoEarlySlot(Push(a, s)) /\ Push(a, s).cursor = a.cursor
<1> DEFINE n == SeqSub(s, a.cursor)
           h == Holes(n)
           q == (a.packets \o h) \o << s >>
<1>1. /\ a.cursor \in SeqNum
      /\ a.packets \in Seq(SeqNum \cup {Missing})
  BY DEF AsmType
<1>2. n \in Nat /\ s \in Int /\ a.cursor \in Int
  <2>1. s \in Int /\ a.cursor \in Int
    BY <1>1, AssemblerAssumption, SMT DEF SeqNum
  <2>2. n \in SeqNum
    BY <2>1, SeqArith
  <2> QED BY <2>1, <2>2, AssemblerAssumption, SMT DEF SeqNum
<1>3. CASE HasSlot(a, s)
  <2>1. Slot(a, s) \in 1 .. Len(a.packets) /\ s < a.cursor + Slot(a, s)
    BY <1>1, <1>2, <1>3, SMT DEF HasSlot, Slot
  <2>2. DOMAIN a.packets = 1 .. Len(a.packets)
    BY <1>1, SMT
  <2> DEFINE r == [a.packets EXCEPT ![Slot(a, s)] = s]
  <2>3. \A i \in DOMAIN r : r[i] # Missing => r[i] < a.cursor + i
    BY <2>1, <2>2 DEF NoEarlySlot
  <2>4. /\ [a EXCEPT !.packets = r].packets = r
        /\ [a EXCEPT !.packets = r].cursor = a.cursor
    BY DEF AsmType
  <2>5. NoEarlySlot([a EXCEPT !.packets = r])
    BY <2>3, <2>4 DEF NoEarlySlot
  <2>6. Push(a, s) \in {a, [a EXCEPT !.packets = r]}
    BY <1>3 DEF Push
  <2> QED BY <2>4, <2>5, <2>6
<1>4. CASE ~HasSlot(a, s)
  <2>1. h \in Seq(SeqNum \cup {Missing}) /\ Len(h) = n
    BY <1>2, HolesType
  <2>2. \A i \in 1 .. n : h[i] = Missing
    BY DEF Holes
  <2>3. /\ Len(q) = Len(a.packets) + n + 1
        /\ \A i \in 1 .. Len(a.packets) : q[i] = a.packets[i]
        /\ \A i \in 1 .. n : q[Len(a.packets) + i] = h[i]
        /\ q[Len(a.packets) + n + 1] = s
        /\ DOMAIN q = 1 .. Len(q)
    <3> HIDE DEF h, n
    <3> DEFINE p == a.packets \o h
    <3>1. /\ p \in Seq(SeqNum \cup {Missing})
          /\ Len(p) = Len(a.packets) + n
          /\ \A i \in 1 .. Len(a.packets) : p[i] = a.packets[i]
          /\ \A i \in 1 .. n : p[Len(a.packets) + i] = h[i]
      BY <1>1, <1>2, <2>1, SMT
    <3>2. Len(a.packets) \in Nat /\ s \in SeqNum \cup {Missing}
      BY <1>1, SMT
    <3> HIDE DEF p
    <3>3. /\ Len(p \o << s >>) = Len(p) + 1
          /\ \A i \in 1 .. Len(p) : (p \o << s >>)[i] = p[i]
          /\ (p \o << s >>)[Len(p) + 1] = s
          /\ DOMAIN (p \o << s >>) = 1 .. (Len(p) + 1)
      BY <3>1, <3>2, SMT
    <3>4. q = p \o << s >>
      BY DEF p
    <3>5. /\ \A i \in 1 .. Len(a.packets) : i \in 1 .. Len(p)
          /\ \A i \in 1 .. n : Len(a.packets) + i \in 1 .. Len(p)
      BY <1>2, <3>1, <3>2, SMT
    <3> HIDE DEF q
    <3> QED BY <3>1, <3>3, <3>4, <3>5
  <2>4. s < a.cursor + Len(a.packets) + n + 1
    <3>1. Len(a.packets) \in Nat
      BY <1>1, SMT
    <3>2. CASE s < a.cursor
      <4> HIDE DEF n
      <4> QED BY <1>2, <3>1, <3>2, SMT
    <3>3. CASE s >= a.cursor
      <4>1. s - a.cursor \in 0 .. (SeqModulus - 1) /\ SeqModulus \in Nat \ {0}
        BY <1>1, <1>2, <3>3, AssemblerAssumption, SMT DEF SeqNum
      <4>2. n = s - a.cursor
        BY <4>1, ModIdentity DEF SeqSub
      <4> QED BY <1>2, <3>1, <4>2, SMT
    <3> QED BY <1>2, <3>2, <3>3, SMT
  <2>5. \A i \in DOMAIN q : q[i] # Missing => q[i] < a.cursor + i
    <3> SUFFICES ASSUME NEW i \in DOMAIN q, q[i] # Missing
                 PROVE  q[i] < a.cursor + i
      OBVIOUS
    <3> HIDE DEF q, h, n
    <3>1. Len(a.packets) \in Nat /\ DOMAIN a.packets = 1 .. Len(a.packets)
      BY <1>1, SMT
    <3>2. CASE i \in 1 .. Len(a.packets)
      BY <2>3, <3>1, <3>2 DEF NoEarlySlot
    <3>3. CASE i \in (Len(a.packets) + 1) .. (Len(a.packets) + n)
      <4>1. i - Len(a.packets) \in 1 .. n /\ Len(a.packets) + (i - Len(a.packets)) = i
        BY <1>2, <3>1, <3>3, SMT
      <4>2. q[Len(a.packets) + (i - Len(a.packets))] = Missing
        BY <2>2, <2>3, <4>1
      <4>3. q[i] = Missing
        BY ONLY <4>1, <4>2, Zenon
      <4> QED BY <4>3, Zenon
    <3>4. CASE i = Len(a.packets) + n + 1
      BY <1>2, <2>3, <2>4, <3>1, <3>4, SMT
    <3>5. i \in 1 .. (Len(a.packets) + n + 1)
      BY <2>3
    <3>6. \/ i \in 1 .. Len(a.packets)
          \/ i \in (Len(a.packets) + 1) .. (Len(a.packets) + n)
          \/ i = Len(a.packets) + n + 1
      BY <1>2, <3>1, <3>5, SMT
    <3> QED BY <3>2, <3>3, <3>4, <3>6, Zenon
  <2>6. /\ [a EXCEPT !.packets = q].packets = q
        /\ [a EXCEPT !.packets = q].cursor = a.cursor
    BY DEF AsmType
  <2>7. NoEarlySlot([a EXCEPT !.packets = q])
    BY <2>5, <2>6 DEF NoEarlySlot
  <2>8. Push(a, s) \in {a, [a EXCEPT !.packets = q]}
    BY <1>4 DEF Push
  <2> QED BY <2>6, <2>7, <2>8
<1> QED BY <1>3, <1>4

LEMMA ReadNotEarly ==
    ASSUME OverflowChecks, NEW a \in AsmType, NoEarlySlot(a),
           NEW n \in ReadableCounts(a), ~ReadPanics(a, n)
    PROVE  /\ NoEarlySlot(AfterRead(a, n))
           /\ AfterRead(a, n).cursor = a.cursor + n
           /\ Len(Readable(a, n)) = n
           /\ \A i \in 1 .. n : Readable(a, n)[i] < a.cursor + i
<1>1. /\ a.cursor \in SeqNum
      /\ a.packets \in Seq(SeqNum \cup {Missing})
  BY DEF AsmType
<1>2. n \in 0 .. Len(a.packets) /\ \A i \in 1 .. n : a.packets[i] # Missing
  BY DEF ReadableCounts
<1>3. Len(a.packets) \in Nat /\ DOMAIN a.packets = 1 .. Len(a.packets)
  BY <1>1, SMT
<1>4. SeqAdd(a.cursor, n) = a.cursor + n
  <2>1. a.cursor + n \in 0 .. (SeqModulus - 1) /\ SeqModulus \in Nat \ {0}
    BY <1>1, <1>2, <1>3, AssemblerAssumption, SMT
       DEF ReadPanics, AddPanics, SeqNum
  <2> QED BY <2>1, ModIdentity DEF SeqAdd
<1>5. \A i \in 1 .. n : a.packets[i] < a.cursor + i
  BY <1>2, <1>3, SMT DEF NoEarlySlot
<1>6. Len(Readable(a, n)) = n /\ \A i \in 1 .. n : Readable(a, n)[i] = a.packets[i]
  BY <1>1, <1>2, <1>3, SMT DEF Readable
<1> DEFINE rest == SubSeq(a.packets, n + 1, Len(a.packets))
<1>7. /\ DOMAIN rest = 1 .. (Len(a.packets) - n)
      /\ \A i \in 1 .. (Len(a.packets) - n) : rest[i] = a.packets[n + i]
  BY <1>1, <1>2, <1>3, SMT
<1>8. \A i \in DOMAIN rest : rest[i] # Missing => rest[i] < (a.cursor + n) + i
  <2> SUFFICES ASSUME NEW i \in 1 .. (Len(a.packets) - n), rest[i] # Missing
               PROVE  rest[i] < (a.cursor + n) + i
    BY <1>7
  <2> HIDE DEF rest
  <2>1. n + i \in DOMAIN a.packets /\ rest[i] = a.packets[n + i]
    BY <1>2, <1>3, <1>7, SMT
  <2>2. rest[i] < a.cursor + (n + i)
    BY <2>1 DEF NoEarlySlot
  <2>3. a.cursor + (n + i) = (a.cursor + n) + i
    BY <1>1, <1>2, <1>3, SMT DEF SeqNum
  <2> QED BY <2>2, <2>3
<1> QED BY <1>4, <1>5, <1>6, <1>8 DEF AfterRead, NoEarlySlot
\* The state the ordering argument is about changes only in the reliable
\* sink's own steps.
OrderVars == <<asm, out["reliable"], delivered["reliable"], cut["reliable"]>>

LEMMA OrderFrame ==
    ASSUME TypeOK, [Next]_vars
    PROVE  \/ Cancel("reliable")
           \/ RelPacket \/ RelRead \/ Record("reliable") \/ RecordSend("reliable")
           \/ /\ UNCHANGED OrderVars
              /\ \/ pc'["reliable"] = pc["reliable"]
                 \/ /\ pc["reliable"] \notin {"record", "recording"}
                    /\ pc'["reliable"] \notin {"record", "recording"}
<1> USE DEF OrderVars
<1>0. "reliable" \in Sinks /\ pc \in [Sinks -> SinkPc] /\ out \in [Sinks -> Seq(SeqNum)]
      /\ delivered \in [Sinks -> Seq(SeqNum)]
      /\ cut \in [Sinks -> {"no", "cancelled", "panicked"}]
  BY DEF TypeOK, Sinks
<1>1. CASE UNCHANGED vars
  BY <1>1 DEF vars, sinkVars, relVars
<1>2. ASSUME NEW k \in Sinks, SinkStep(k)
      PROVE  \/ Record("reliable") \/ RecordSend("reliable")
             \/ /\ UNCHANGED OrderVars
                /\ \/ pc'["reliable"] = pc["reliable"]
                   \/ /\ pc["reliable"] \notin {"record", "recording"}
                      /\ pc'["reliable"] \notin {"record", "recording"}
  <2>1. CASE k = "reliable"
    BY <1>0, <1>2, <2>1 DEF SinkStep, Call, ChannelClosed, SignalEof,
       MarkClosed, MarkClosedSend, DrainOne, DrainEnd, relVars, sinkVars
  <2>2. CASE k # "reliable"
    BY <1>0, <1>2, <2>2 DEF SinkStep, Call, ChannelClosed, SignalEof, Record,
       RecordSend, MarkClosed, MarkClosedSend, DrainOne, DrainEnd, relVars,
       sinkVars
  <2> QED BY <2>1, <2>2
<1>3. CASE RelTop \/ RelNotified \/ RelCommand \/ RelNack
  BY <1>0, <1>3 DEF RelTop, RelNotified, RelCommand, RelNack, SignalEof,
     EnterSelect, relVars
<1>4. CASE UnreliableStep
  BY <1>0, <1>4 DEF UnreliableStep, UnrelTop, UnrelWait, UnrelNotified,
     UnrelPacket, SignalEof, EnterSelect, relVars
<1>5. CASE Route \/ TaskStep
  BY <1>5 DEF Route, TaskStep, TaskForward, TaskForwardFails, TaskSendAck,
     TaskSenderCommand, TaskExit, relVars, sinkVars
<1>6. CASE CloseChannels \/ TaskTransferEnd \/ PeerCloses \/ \E s \in Seqs : Decode(s)
  BY <1>6 DEF Decode, CloseChannels, TaskTransferEnd, PeerCloses, TaskExit,
     relVars, sinkVars
<1>7. ASSUME NEW k \in Sinks, AppDrop(k) \/ Cancel(k), ~Cancel("reliable")
      PROVE  /\ UNCHANGED OrderVars
             /\ \/ pc'["reliable"] = pc["reliable"]
                \/ /\ pc["reliable"] \notin {"record", "recording"}
                   /\ pc'["reliable"] \notin {"record", "recording"}
  <2>1. CASE AppDrop(k)
    BY <1>0, <2>1 DEF AppDrop, DropSink
  <2>2. CASE Cancel(k)
    BY <1>0, <1>7, <2>2 DEF Cancel, relVars
  <2> QED BY <1>7, <2>1, <2>2
<1> QED
  BY <1>1, <1>2, <1>3, <1>4, <1>5, <1>6, <1>7
     DEF Next, ReliableStep, Environment

LEMMA OrderStep ==
    ASSUME OverflowChecks, TypeOK, OrderInv, [Next]_vars
    PROVE  OrderInv'
<1> DEFINE D == delivered["reliable"]
           O == out["reliable"]
<1>0. /\ "reliable" \in Sinks
      /\ pc \in [Sinks -> SinkPc]
      /\ out \in [Sinks -> Seq(SeqNum)]
      /\ delivered \in [Sinks -> Seq(SeqNum)]
      /\ ch \in [Sinks -> Seq(SeqNum)]
      /\ asm \in AsmType
      /\ Len(D) \in Nat /\ Len(O) \in Nat
      /\ D \in Seq(SeqNum) /\ O \in Seq(SeqNum)
      /\ cut \in [Sinks -> {"no", "cancelled", "panicked"}]
  BY SMT DEF TypeOK, Sinks
\* Returning from recv() appends the chunks read to those delivered.
<1>1. ASSUME /\ delivered' = [delivered EXCEPT !["reliable"] = D \o O]
             /\ out' = [out EXCEPT !["reliable"] = << >>]
             /\ UNCHANGED <<asm, cut>>
             /\ cut["reliable"] = "no"
      PROVE  OrderInv'
  <2>1. delivered'["reliable"] = D \o O /\ out'["reliable"] = << >>
    BY <1>0, <1>1
  <2>2. Len(D \o O) = Len(D) + Len(O) /\ DOMAIN (D \o O) = 1 .. (Len(D) + Len(O))
    BY <1>0, SMT
  <2>3. \A i \in DOMAIN (D \o O) : (D \o O)[i] < i
    <3> SUFFICES ASSUME NEW i \in 1 .. (Len(D) + Len(O))
                 PROVE  (D \o O)[i] < i
      BY <2>2
    <3>1. CASE i <= Len(D)
      <4>1. (D \o O)[i] = D[i] /\ i \in DOMAIN D
        BY <1>0, <3>1, SMT
      <4> QED BY <1>1, <4>1 DEF OrderInv, NeverEarly
    <3>2. CASE i > Len(D)
      <4>1. /\ (D \o O)[i] = O[i - Len(D)]
            /\ i - Len(D) \in DOMAIN O
            /\ Len(D) + (i - Len(D)) = i
        BY <1>0, <3>2, SMT
      <4> QED BY <1>1, <4>1 DEF OrderInv
    <3> QED BY <1>0, <3>1, <3>2, SMT
  <2>4. Len(<< >>) = 0 /\ DOMAIN << >> = {}
    BY SMT
  <2>5. asm.cursor = Len(D) + Len(O)
    BY <1>1 DEF OrderInv
  <2>6. (Len(D) + Len(O)) + 0 = Len(D) + Len(O)
    BY <1>0, SMT
  <2> QED BY <1>1, <2>1, <2>2, <2>3, <2>4, <2>5, <2>6
          DEF OrderInv, NeverEarly, NoEarlySlot
\* Once a recv() was cut short only the buffer matters.
<1>2. ASSUME NoEarlySlot(asm'), cut'["reliable"] # "no",
             pc'["reliable"] \notin {"record", "recording"}
                => out'["reliable"] = << >>
      PROVE  OrderInv'
  BY <1>2 DEF OrderInv, NeverEarly, NoEarlySlot
<1>3. ASSUME UNCHANGED <<asm, cut>>, cut["reliable"] # "no",
             out' = [out EXCEPT !["reliable"] = << >>]
      PROVE  OrderInv'
  <2>1. NoEarlySlot(asm') /\ out'["reliable"] = << >>
    BY <1>0, <1>3 DEF OrderInv
  <2> QED BY <1>2, <1>3, <2>1
<1>4. CASE Record("reliable")
  <2>1. CASE pc'["reliable"] = "idle"
    <3>1. /\ delivered' = [delivered EXCEPT !["reliable"] = D \o O]
          /\ out' = [out EXCEPT !["reliable"] = << >>]
          /\ UNCHANGED <<asm, cut>>
      BY <1>0, <1>4, <2>1 DEF Record, relVars
    <3> QED BY <1>1, <1>3, <3>1
  <2>2. CASE pc'["reliable"] # "idle"
    <3>1. /\ UNCHANGED <<asm, delivered, out, cut>>
          /\ pc'["reliable"] = "recording"
      BY <1>0, <1>4, <2>2 DEF Record, relVars
    <3> QED BY <3>1 DEF OrderInv, NeverEarly, NoEarlySlot
  <2> QED BY <2>1, <2>2
<1>5. CASE RecordSend("reliable")
  <2>1. /\ delivered' = [delivered EXCEPT !["reliable"] = D \o O]
        /\ out' = [out EXCEPT !["reliable"] = << >>]
        /\ UNCHANGED <<asm, cut>>
    BY <1>5 DEF RecordSend, relVars
  <2> QED BY <1>1, <1>3, <2>1
<1>6. CASE RelPacket
  <2>1. pc["reliable"] = "select" /\ UNCHANGED <<out, delivered>>
    BY <1>6 DEF RelPacket
  <2>2. pc'["reliable"] \notin {"record", "recording"}
    BY <1>0, <1>6 DEF RelPacket, Panic, DropSink
  <2>3. Head(ch["reliable"]) \in SeqNum
    BY <1>0, <1>6, SMT DEF RelPacket
  <2>4. asm' = asm \/ asm' = Push(asm, Head(ch["reliable"]))
    BY <1>6 DEF RelPacket
  <2>5. NoEarlySlot(asm') /\ asm'.cursor = asm.cursor
    BY <1>0, <2>3, <2>4, PushNotEarly DEF OrderInv
  <2>6. cut'["reliable"] = "no" => cut["reliable"] = "no"
    BY <1>0, <1>6 DEF RelPacket, Panic
  <2> QED BY <2>1, <2>2, <2>5, <2>6 DEF OrderInv, NeverEarly, NoEarlySlot
<1>7. CASE RelRead
  <2>1. PICK n \in ReadableCounts(asm) :
          IF ReadPanics(asm, n)
          THEN Panic /\ UNCHANGED <<asm, out>>
          ELSE /\ asm' = AfterRead(asm, n)
               /\ out' = [out EXCEPT !["reliable"] = Readable(asm, n)]
               /\ pc' = [pc EXCEPT !["reliable"] =
                           IF n = 0 THEN "top" ELSE "record"]
               /\ UNCHANGED <<pendingEnd, pipeline, cut>>
    BY <1>7 DEF RelRead
  <2>2. pc["reliable"] = "read" /\ UNCHANGED delivered
    BY <1>7 DEF RelRead
  <2>3. O = << >>
    BY <2>2 DEF OrderInv
  <2>4. CASE ReadPanics(asm, n)
    <3>1. /\ pc'["reliable"] = "draining" /\ cut'["reliable"] # "no"
          /\ UNCHANGED <<asm, out>>
      BY <1>0, <2>1, <2>4 DEF Panic, DropSink
    <3> QED BY <1>2, <2>2, <2>3, <3>1 DEF OrderInv
  <2>5. CASE ~ReadPanics(asm, n)
    <3> DEFINE R == Readable(asm, n)
    <3>1. /\ asm' = AfterRead(asm, n)
          /\ out'["reliable"] = R
          /\ pc'["reliable"] = IF n = 0 THEN "top" ELSE "record"
          /\ UNCHANGED cut
      BY <1>0, <2>1, <2>5
    <3>2. /\ NoEarlySlot(asm')
          /\ asm'.cursor = asm.cursor + n
          /\ Len(R) = n
          /\ \A i \in 1 .. n : R[i] < asm.cursor + i
      BY <1>0, <2>5, <3>1, ReadNotEarly DEF OrderInv
    <3>3. R \in Seq(SeqNum)
      BY <1>0, ReadType
    <3>4. DOMAIN R = 1 .. n /\ (n = 0 => R = << >>)
      BY <3>2, <3>3, SMT
    <3>5. pc'["reliable"] \notin {"record", "recording"}
             => out'["reliable"] = << >>
      BY <3>1, <3>4
    <3>6. CASE cut["reliable"] # "no"
      BY <1>2, <3>1, <3>2, <3>5, <3>6
    <3>7. CASE cut["reliable"] = "no"
      <4>1. asm.cursor = Len(D) + Len(O) /\ Len(O) = 0
        BY <2>3, <3>7, SMT DEF OrderInv
      <4>2. asm.cursor = Len(D)
        BY <1>0, <4>1, SMT
      <4>3. /\ \A i \in DOMAIN R : R[i] < Len(D) + i
            /\ asm'.cursor = Len(D) + Len(R)
        BY <3>2, <3>4, <4>2
      <4> QED BY <2>2, <3>1, <3>2, <3>5, <3>7, <4>3 DEF OrderInv, NeverEarly
    <3> QED BY <3>6, <3>7
  <2> QED BY <2>4, <2>5
<1>8. CASE /\ UNCHANGED OrderVars
           /\ \/ pc'["reliable"] = pc["reliable"]
              \/ /\ pc["reliable"] \notin {"record", "recording"}
                 /\ pc'["reliable"] \notin {"record", "recording"}
  BY <1>8 DEF OrderVars, OrderInv, NeverEarly, NoEarlySlot
<1>9. CASE Cancel("reliable")
  <2>1. cut'["reliable"] # "no" /\ out'["reliable"] = << >> /\ UNCHANGED asm
    BY <1>0, <1>9 DEF Cancel, relVars
  <2> QED BY <1>2, <2>1 DEF OrderInv
<1> QED BY <1>4, <1>5, <1>6, <1>7, <1>8, <1>9, OrderFrame

\* In a build with overflow checks, and until a recv() of the reliable sink
\* is cut short, no chunk is returned before its place: a lost chunk holds
\* back every later one, whatever arrives, in whatever order and however
\* often.
THEOREM ReliableNeverEarly ==
    ASSUME OverflowChecks
    PROVE  Spec => []NeverEarly
<1>1. Init => OrderInv
  <2> SUFFICES ASSUME Init PROVE OrderInv
    OBVIOUS
  <2>1. /\ delivered["reliable"] = << >>
        /\ out["reliable"] = << >>
        /\ asm.packets = << >>
        /\ asm.cursor = 0
    BY DEF Init, Sinks, NewAssembler
  <2>2. Len(<< >>) = 0 /\ DOMAIN << >> = {} /\ 0 + 0 = 0
    BY SMT
  <2> QED BY <2>1, <2>2 DEF OrderInv, NeverEarly, NoEarlySlot
<1>2. TypeOK /\ OrderInv /\ [Next]_vars => OrderInv'
  BY OrderStep
<1>3. OrderInv => NeverEarly
  BY DEF OrderInv
<1> QED BY <1>1, <1>2, <1>3, TypeCorrect, PTL DEF Spec
-----------------------------------------------------------------------------
(* The sum of a sequence.  Total is a recursive function; that one which    *)
(* runs up the sum exists, and only one, follows from every non-empty set   *)
(* of numbers having a least one.                                           *)

LEMMA LeastNumber ==
    ASSUME NEW T \in SUBSET Nat, T # {}
    PROVE  \E n \in T : \A m \in T : n <= m
<1>1. PICK n \in T : \A m \in T : ~(<<m, n>> \in OpToRel(<, Nat))
  BY NatLessThanWellFounded, WFMin
<1>2. \A m \in T : ~(m < n)
  BY <1>1 DEF OpToRel
<1>3. \A m \in T : m \in Nat /\ n \in Nat
  OBVIOUS
<1> QED BY <1>2, <1>3

RunsUp(t, q, n) ==
    /\ t \in [0 .. n -> Nat]
    /\ \A i \in 0 .. n : t[i] = IF i = 0 THEN 0 ELSE t[i - 1] + q[i]

LEMMA RunsUpExists ==
    ASSUME NEW q \in Seq(Nat)
    PROVE  \A n \in 0 .. Len(q) : \E t : RunsUp(t, q, n)
<1> DEFINE T == {n \in 0 .. Len(q) : ~\E t : RunsUp(t, q, n)}
<1>1. SUFFICES ASSUME T # {} PROVE FALSE
  OBVIOUS
<1>2. T \in SUBSET Nat
  OBVIOUS
<1>3. PICK n \in T : \A m \in T : n <= m
  <2> HIDE DEF T
  <2> QED BY <1>1, <1>2, LeastNumber
<1>4. n # 0
  <2>1. RunsUp([i \in 0 .. 0 |-> 0], q, 0)
    BY DEF RunsUp
  <2> QED BY <1>3, <2>1
<1>5. n - 1 \in 0 .. Len(q) /\ n - 1 \notin T /\ n \in 1 .. Len(q)
  BY <1>2, <1>3, <1>4
<1>6. PICK t : RunsUp(t, q, n - 1)
  BY <1>5
<1>7. q[n] \in Nat
  BY <1>5
<1> DEFINE u == [i \in 0 .. n |-> IF i = n THEN t[n - 1] + q[n] ELSE t[i]]
<1>8. t \in [0 .. (n - 1) -> Nat] /\ t[n - 1] + q[n] \in Nat
  <2>1. t \in [0 .. (n - 1) -> Nat]
    BY <1>6 DEF RunsUp
  <2>2. t[n - 1] \in Nat
    BY <1>5, <2>1
  <2> QED BY <1>7, <2>1, <2>2
<1>9. u \in [0 .. n -> Nat]
  BY <1>5, <1>8
<1>10. \A i \in 0 .. n : u[i] = IF i = 0 THEN 0 ELSE u[i - 1] + q[i]
  <2> SUFFICES ASSUME NEW i \in 0 .. n
               PROVE  u[i] = IF i = 0 THEN 0 ELSE u[i - 1] + q[i]
    OBVIOUS
  <2>1. CASE i = n
    BY <1>5, <2>1
  <2>2. CASE i # n
    <3>1. i \in 0 .. (n - 1) /\ u[i] = t[i]
      BY <1>5, <2>2
    <3>2. t[i] = IF i = 0 THEN 0 ELSE t[i - 1] + q[i]
      BY <1>6, <3>1 DEF RunsUp
    <3>3. i # 0 => u[i - 1] = t[i - 1]
      BY <1>5, <2>2, <3>1
    <3> HIDE DEF u
    <3> QED BY ONLY <3>1, <3>2, <3>3
  <2> QED BY <2>1, <2>2
<1>11. RunsUp(u, q, n)
  <2> HIDE DEF u
  <2> QED BY <1>9, <1>10 DEF RunsUp
<1> QED BY <1>3, <1>11

LEMMA RunsUpSame ==
    ASSUME NEW q \in Seq(Nat), NEW r \in Seq(Nat), NEW n \in 0 .. Len(q),
           n <= Len(r), \A i \in 1 .. n : q[i] = r[i],
           NEW t, RunsUp(t, q, n), NEW m \in n .. Len(r), NEW u, RunsUp(u, r, m)
    PROVE  \A i \in 0 .. n : t[i] = u[i]
<1> DEFINE T == {i \in 0 .. n : t[i] # u[i]}
<1>1. SUFFICES ASSUME T # {} PROVE FALSE
  OBVIOUS
<1>2. T \in SUBSET Nat
  OBVIOUS
<1>3. PICK k \in T : \A j \in T : k <= j
  <2> HIDE DEF T
  <2> QED BY <1>1, <1>2, LeastNumber
<1>4. k # 0
  BY <1>3 DEF RunsUp
<1>5. k - 1 \in 0 .. n /\ t[k - 1] = u[k - 1]
  BY <1>2, <1>3, <1>4
<1>6. t[k] = t[k - 1] + q[k] /\ u[k] = u[k - 1] + r[k] /\ q[k] = r[k]
  BY <1>3, <1>4 DEF RunsUp
<1> QED BY <1>3, <1>5, <1>6

LEMMA TotalIs ==
    ASSUME NEW q \in Seq(Nat)
    PROVE  \E t : RunsUp(t, q, Len(q)) /\ Total(q) = t[Len(q)]
<1>1. PICK t : RunsUp(t, q, Len(q))
  BY RunsUpExists
<1>2. t = [i \in 0 .. Len(q) |-> IF i = 0 THEN 0 ELSE t[i - 1] + q[i]]
  BY <1>1 DEF RunsUp
<1> DEFINE U == CHOOSE u : u = [i \in 0 .. Len(q) |->
                                  IF i = 0 THEN 0 ELSE u[i - 1] + q[i]]
<1>3. U = [i \in 0 .. Len(q) |-> IF i = 0 THEN 0 ELSE U[i - 1] + q[i]]
  BY <1>2
<1>4. Total(q) = U[Len(q)]
  BY DEF Total
<1>5. U = t
  <2> HIDE DEF U
  <2>0. Len(q) \in Nat
    OBVIOUS
  <2> DEFINE T == {i \in 0 .. Len(q) : t[i] # U[i]}
  <2>1. SUFFICES ASSUME T # {} PROVE FALSE
    BY <1>2, <1>3
  <2>2. T \in SUBSET Nat
    OBVIOUS
  <2>3. PICK k \in T : \A j \in T : k <= j
    <3> HIDE DEF T
    <3> QED BY <2>1, <2>2, LeastNumber
  <2>4. k # 0
    BY <1>2, <1>3, <2>3
  <2>5. k - 1 \in 0 .. Len(q) /\ t[k - 1] = U[k - 1]
    BY <2>0, <2>2, <2>3, <2>4
  <2>6. t[k] = t[k - 1] + q[k] /\ U[k] = U[k - 1] + q[k]
    BY <1>2, <1>3, <2>3, <2>4
  <2> QED BY <2>3, <2>5, <2>6
<1> QED BY <1>1, <1>4, <1>5

LEMMA TotalType ==
    ASSUME NEW q \in Seq(Nat)
    PROVE  Total(q) \in Nat
<1>1. PICK t : RunsUp(t, q, Len(q)) /\ Total(q) = t[Len(q)]
  BY TotalIs
<1>2. t \in [0 .. Len(q) -> Nat] /\ Len(q) \in 0 .. Len(q)
  BY <1>1 DEF RunsUp
<1> QED BY <1>1, <1>2

LEMMA TotalEmpty == Total(<< >>) = 0
<1>1. << >> \in Seq(Nat) /\ Len(<< >>) = 0
  OBVIOUS
<1>2. PICK t : RunsUp(t, << >>, 0) /\ Total(<< >>) = t[0]
  BY <1>1, TotalIs
<1> QED BY <1>2 DEF RunsUp

LEMMA TotalAppend ==
    ASSUME NEW q \in Seq(Nat), NEW m \in Nat
    PROVE  Total(Append(q, m)) = Total(q) + m
<1> DEFINE r == Append(q, m)
           n == Len(q)
<1>1. /\ r \in Seq(Nat) /\ Len(r) = n + 1 /\ r[n + 1] = m /\ n \in Nat
      /\ \A i \in 1 .. n : q[i] = r[i]
  OBVIOUS
<1> HIDE DEF r
<1>2. PICK t : RunsUp(t, q, n) /\ Total(q) = t[n]
  BY TotalIs
<1>3. PICK u : RunsUp(u, r, n + 1) /\ Total(r) = u[n + 1]
  BY <1>1, TotalIs
<1>4. t[n] = u[n]
  <2>1. n \in 0 .. Len(q) /\ n <= Len(r) /\ n + 1 \in n .. Len(r) /\ n \in 0 .. n
    BY <1>1
  <2>2. RunsUp(t, q, n) /\ RunsUp(u, r, n + 1) /\ \A i \in 1 .. n : q[i] = r[i]
    BY <1>1, <1>2, <1>3
  <2>3. q \in Seq(Nat) /\ r \in Seq(Nat)
    BY <1>1
  <2>4. \A i \in 0 .. n : t[i] = u[i]
    <3> HIDE DEF n
    <3> QED BY ONLY <2>1, <2>2, <2>3, RunsUpSame
  <2> QED BY <2>1, <2>4
<1>5. u[n + 1] = u[n] + r[n + 1]
  BY <1>1, <1>3 DEF RunsUp
<1>6. Total(r) = Total(q) + m
  BY <1>1, <1>2, <1>3, <1>4, <1>5
<1> QED BY <1>6 DEF r

LEMMA TotalTail ==
    ASSUME NEW q \in Seq(Nat), q # << >>
    PROVE  Total(Tail(q)) + Head(q) = Total(q)
<1> DEFINE r == Tail(q)
           n == Len(r)
<1>1. /\ r \in Seq(Nat) /\ Len(q) = n + 1 /\ n \in Nat
      /\ q[1] = Head(q) /\ Head(q) \in Nat
      /\ \A i \in 1 .. n : r[i] = q[i + 1]
  OBVIOUS
<1> HIDE DEF r
<1>2. PICK t : RunsUp(t, r, n) /\ Total(r) = t[n]
  BY <1>1, TotalIs
<1>3. PICK u : RunsUp(u, q, n + 1) /\ Total(q) = u[n + 1]
  BY <1>1, TotalIs
<1> DEFINE T == {i \in 0 .. n : t[i] + Head(q) # u[i + 1]}
<1>4. T = {}
  <2>1. SUFFICES ASSUME T # {} PROVE FALSE
    OBVIOUS
  <2>2. PICK k \in T : \A j \in T : k <= j
    <3>1. T \in SUBSET Nat
      OBVIOUS
    <3> HIDE DEF T
    <3> QED BY <2>1, <3>1, LeastNumber
  <2>3. k # 0
    <3>1. t[0] = 0
      BY <1>1, <1>2 DEF RunsUp
    <3>2. u[1] = u[0] + q[1] /\ u[0] = 0
      BY <1>1, <1>3 DEF RunsUp
    <3> QED BY <1>1, <2>2, <3>1, <3>2
  <2>4. k - 1 \in 0 .. n /\ k \in 1 .. n /\ t[k - 1] + Head(q) = u[k]
    <3>1. k \in 1 .. n
      BY <1>1, <2>2, <2>3
    <3>2. k - 1 \notin T
      BY <2>2, <3>1
    <3> QED BY <1>1, <3>1, <3>2
  <2>5. t[k] = t[k - 1] + r[k] /\ t[k - 1] \in Nat /\ r[k] \in Nat
    <3>1. k \in 0 .. n /\ k # 0 /\ k - 1 \in 0 .. n
      BY <1>1, <2>4
    <3>2. t \in [0 .. n -> Nat]
      BY <1>2 DEF RunsUp
    <3>3. t[k] = t[k - 1] + r[k]
      BY <1>2, <3>1 DEF RunsUp
    <3>4. r[k] \in Nat
      BY <1>1, <2>4
    <3> QED BY <3>1, <3>2, <3>3, <3>4
  <2>6. u[k + 1] = u[k] + q[k + 1]
    <3>1. k + 1 \in 0 .. (n + 1) /\ k + 1 # 0 /\ (k + 1) - 1 = k
      BY <1>1, <2>4
    <3> QED BY <1>3, <3>1 DEF RunsUp
  <2>7. r[k] = q[k + 1]
    BY <1>1, <2>4
  <2>8. t[k] + Head(q) # u[k + 1]
    BY <2>2
  <2>9. Head(q) \in Nat
    BY <1>1
  <2> QED BY ONLY <2>4, <2>5, <2>6, <2>7, <2>8, <2>9
<1>5. n \in 0 .. n /\ n \notin T
  BY <1>1, <1>4
<1> QED BY <1>2, <1>3, <1>5 DEF r

LEMMA CommandCreditsIs ==
    /\ CommandCredits(<< >>) = 0
    /\ \A q \in Seq(CommandType) :
         /\ CommandCredits(q) \in Nat
         /\ \A c \in CommandType :
              CommandCredits(Append(q, c)) = CommandCredits(q) + c.credits
         /\ q # << >> =>
              CommandCredits(Tail(q)) + Head(q).credits = CommandCredits(q)
<1> DEFINE cr(q) == [i \in DOMAIN q |-> q[i].credits]
<1>1. CommandCredits(<< >>) = 0
  <2>1. cr(<< >>) = << >>
    OBVIOUS
  <2> QED BY <2>1, TotalEmpty DEF CommandCredits
<1>2. ASSUME NEW q \in Seq(CommandType)
      PROVE  /\ CommandCredits(q) \in Nat
             /\ \A c \in CommandType :
                  CommandCredits(Append(q, c)) = CommandCredits(q) + c.credits
             /\ q # << >> =>
                  CommandCredits(Tail(q)) + Head(q).credits = CommandCredits(q)
  <2>0. \A c \in CommandType : c.credits \in Nat
    BY DEF CommandType
  <2>1. cr(q) \in Seq(Nat)
    BY <2>0
  <2>2. CommandCredits(q) \in Nat
    BY <2>1, TotalType DEF CommandCredits
  <2>3. ASSUME NEW c \in CommandType
        PROVE  CommandCredits(Append(q, c)) = CommandCredits(q) + c.credits
    <3>1. cr(Append(q, c)) = Append(cr(q), c.credits)
      OBVIOUS
    <3>2. Total(Append(cr(q), c.credits)) = Total(cr(q)) + c.credits
      <4> HIDE DEF cr
      <4> QED BY <2>0, <2>1, TotalAppend
    <3> QED BY <3>1, <3>2 DEF CommandCredits
  <2>4. ASSUME q # << >>
        PROVE  CommandCredits(Tail(q)) + Head(q).credits = CommandCredits(q)
    <3>1. /\ cr(Tail(q)) = Tail(cr(q)) /\ Head(cr(q)) = Head(q).credits
          /\ cr(q) # << >>
      BY <2>4
    <3>2. Total(Tail(cr(q))) + Head(cr(q)) = Total(cr(q))
      <4> HIDE DEF cr
      <4> QED BY <2>1, <3>1, TotalTail
    <3> QED BY <3>1, <3>2 DEF CommandCredits
  <2> QED BY <2>2, <2>3, <2>4
<1> QED BY <1>1, <1>2
-----------------------------------------------------------------------------
(* Every packet returned is a drain, and every drain is returned            *)

LEMMA DrainedFields ==
    ASSUME NEW c \in CoordType, NEW k \in Sinks, NEW n
    PROVE  /\ Drained(c, k, n).drained = [c.drained EXCEPT ![k] = c.drained[k] + n]
           /\ Drained(c, k, n).emitted = c.emitted
           /\ Closed(c, k).drained = c.drained
           /\ Closed(c, k).emitted = c.emitted
  BY DEF Drained, Closed, CoordType

LEMMA EmittedFields ==
    ASSUME NEW c \in CoordType, NEW force
    PROVE  /\ Emitted(c, force).drained = c.drained
           /\ Emitted(c, force).emitted = c.emitted + Emission(c, force)
  BY DEF Emitted, CoordType

\* What the two steps that take the lock do to the coordinator.
LEMMA RecordChanges ==
    ASSUME TypeOK, NEW k \in Sinks, Record(k)
    PROVE  \E e \in Nat :
              /\ coord'.drained =
                     [coord.drained EXCEPT ![k] = coord.drained[k] + Len(out[k])]
              /\ coord'.emitted = coord.emitted + e
              /\ emission' = [emission EXCEPT ![k] = e]
              /\ lock' = IF e = 0 THEN "free" ELSE k
              /\ pc' = [pc EXCEPT ![k] = IF e = 0 THEN "idle" ELSE "recording"]
<1> DEFINE c == Drained(coord, k, Len(out[k]))
           e == Emission(c, FALSE)
<1>0. coord \in CoordType /\ out[k] \in Seq(SeqNum) /\ Len(out[k]) \in Nat
  BY DEF TypeOK
<1>1. c \in CoordType
  BY <1>0, DrainedType
<1>2. /\ coord' = Emitted(c, FALSE)
      /\ emission' = [emission EXCEPT ![k] = e]
      /\ lock' = IF e = 0 THEN "free" ELSE k
      /\ pc' = [pc EXCEPT ![k] = IF e = 0 THEN "idle" ELSE "recording"]
  BY DEF Record
<1>3. /\ c.drained = [coord.drained EXCEPT ![k] = coord.drained[k] + Len(out[k])]
      /\ c.emitted = coord.emitted
  BY <1>0, DrainedFields
<1>4. /\ Emitted(c, FALSE).drained = c.drained
      /\ Emitted(c, FALSE).emitted = c.emitted + e
      /\ e \in Nat
  <2> HIDE DEF c
  <2> QED BY <1>1, EmittedFields, EmissionType
<1> HIDE DEF c, e
<1> QED BY <1>2, <1>3, <1>4

LEMMA CloseChanges ==
    ASSUME TypeOK, NEW k \in Sinks, MarkClosed(k)
    PROVE  \E e \in Nat :
              /\ coord'.drained = coord.drained
              /\ coord'.emitted = coord.emitted + e
              /\ emission' = [emission EXCEPT ![k] = e]
              /\ lock' = IF e = 0 THEN lock ELSE k
              /\ pc' = [pc EXCEPT ![k] =
                         IF e = 0
                         THEN IF pc[k] = "drainClosing" THEN "gone" ELSE "eof"
                         ELSE IF pc[k] = "drainClosing" THEN "drainSend"
                                                        ELSE "closingSend"]
<1> DEFINE c == Closed(coord, k)
           e == Emission(c, TRUE)
<1>0. coord \in CoordType /\ coord.emitted \in Nat
  BY DEF TypeOK, CoordType
<1>1. CASE coord.closed[k]
  <2>1. /\ coord' = coord
        /\ emission' = [emission EXCEPT ![k] = 0]
        /\ lock' = lock
        /\ pc' = [pc EXCEPT ![k] = IF pc[k] = "drainClosing" THEN "gone" ELSE "eof"]
    BY <1>1 DEF MarkClosed
  <2>2. coord.emitted + 0 = coord.emitted /\ 0 \in Nat
    BY <1>0
  <2> QED BY <2>1, <2>2
<1>2. CASE ~coord.closed[k]
  <2>1. c \in CoordType /\ c.drained = coord.drained /\ c.emitted = coord.emitted
    BY <1>0, DrainedType, DrainedFields
  <2>2. /\ coord' = Emitted(c, TRUE)
        /\ emission' = [emission EXCEPT ![k] = e]
        /\ lock' = IF e = 0 THEN lock ELSE k
        /\ pc' = [pc EXCEPT ![k] =
                    IF e = 0
                    THEN IF pc[k] = "drainClosing" THEN "gone" ELSE "eof"
                    ELSE IF pc[k] = "drainClosing" THEN "drainSend"
                                                   ELSE "closingSend"]
    BY <1>2 DEF MarkClosed
  <2>3. /\ Emitted(c, TRUE).drained = c.drained
        /\ Emitted(c, TRUE).emitted = c.emitted + e
        /\ e \in Nat
    <3> HIDE DEF c
    <3> QED BY <2>1, EmittedFields, EmissionType
  <2> HIDE DEF c, e
  <2> QED BY <2>1, <2>2, <2>3
<1> QED BY <1>1, <1>2

\* What DrainsAreReturned relates changes only when a sink records, or its
\* recv() is cut short.
LEMMA DrainFrame ==
    ASSUME TypeOK, [Next]_vars, NEW k \in Sinks
    PROVE  \/ Record(k) \/ RecordSend(k) \/ MarkClosed(k) \/ Cancel(k)
           \/ /\ UNCHANGED <<delivered[k], out[k], coord.drained[k]>>
              /\ pc'[k] = "recording" <=> pc[k] = "recording"
              /\ cut'[k] = "no" => cut[k] = "no"
           \/ /\ UNCHANGED <<delivered[k], coord.drained[k]>>
              /\ pc'[k] # "recording" /\ pc[k] # "recording"
              /\ cut'[k] = "no" => cut[k] = "no"
<1> USE DEF sinkVars, relVars, taskVars, netVars
<1>0. /\ pc \in [Sinks -> SinkPc]
      /\ out \in [Sinks -> Seq(SeqNum)]
      /\ delivered \in [Sinks -> Seq(SeqNum)]
      /\ cut \in [Sinks -> {"no", "cancelled", "panicked"}]
      /\ coord \in CoordType
      /\ "reliable" \in Sinks /\ "unreliable" \in Sinks
  BY DEF TypeOK, Sinks
<1>1. CASE UNCHANGED vars
  BY <1>1 DEF vars
<1>2. ASSUME NEW j \in Sinks, Record(j) \/ MarkClosed(j), j # k
      PROVE  /\ UNCHANGED <<delivered[k], out[k], coord.drained[k]>>
             /\ pc'[k] = pc[k] /\ cut'[k] = cut[k]
  <2>1. coord'.drained[k] = coord.drained[k]
    <3>1. coord.drained \in [Sinks -> Nat]
      BY <1>0 DEF CoordType
    <3>2. \/ coord'.drained = coord.drained
          \/ \E d : coord'.drained = [coord.drained EXCEPT ![j] = d]
      BY <1>2, RecordChanges, CloseChanges
    <3> QED BY <1>2, <3>1, <3>2
  <2> QED BY <1>0, <1>2, <2>1 DEF Record, MarkClosed
<1>3. ASSUME NEW j \in Sinks, SinkStep(j), ~Record(j), ~MarkClosed(j),
             ~RecordSend(k)
      PROVE  /\ UNCHANGED <<delivered[k], out[k], coord.drained[k]>>
             /\ pc'[k] = "recording" <=> pc[k] = "recording"
             /\ cut'[k] = cut[k]
  BY <1>0, <1>3 DEF SinkStep, Call, ChannelClosed, SignalEof, RecordSend,
     MarkClosedSend, DrainOne, DrainEnd
<1>4. CASE RelTop \/ RelNotified \/ RelCommand \/ RelNack
  BY <1>0, <1>4 DEF RelTop, RelNotified, RelCommand, RelNack, SignalEof,
     EnterSelect
<1>5. CASE RelPacket \/ RelRead
  <2>1. UNCHANGED <<delivered, coord>>
    BY <1>5 DEF RelPacket, RelRead
  <2>2. cut'[k] = "no" => cut[k] = "no"
    BY <1>0, <1>5 DEF RelPacket, RelRead, Panic
  <2>3. \E p \in {"draining", "read", "nack", "top", "record"} :
           pc' = [pc EXCEPT !["reliable"] = p]
    BY <1>5 DEF RelPacket, RelRead, Panic, DropSink
  <2>4. pc["reliable"] # "recording" /\ pc'["reliable"] # "recording"
    BY <1>0, <1>5, <2>3 DEF RelPacket, RelRead
  <2>5. k # "reliable" => pc'[k] = pc[k] /\ UNCHANGED out[k]
    <3>1. \/ UNCHANGED out
          \/ \E r : out' = [out EXCEPT !["reliable"] = r]
      BY <1>5 DEF RelPacket, RelRead
    <3> QED BY ONLY <1>0, <2>3, <3>1
  <2> QED BY <2>1, <2>2, <2>4, <2>5
<1>6. CASE UnreliableStep
  BY <1>0, <1>6 DEF UnreliableStep, UnrelTop, UnrelWait, UnrelNotified,
     UnrelPacket, SignalEof, EnterSelect
<1>7. CASE Route \/ TaskStep
  BY <1>7 DEF Route, TaskStep, TaskForward, TaskForwardFails, TaskSendAck,
     TaskSenderCommand, TaskExit
<1>8. CASE CloseChannels \/ TaskTransferEnd \/ PeerCloses \/ \E s \in Seqs : Decode(s)
  BY <1>8 DEF Decode, CloseChannels, TaskTransferEnd, PeerCloses, TaskExit
<1>9. ASSUME NEW j \in Sinks, AppDrop(j) \/ Cancel(j), ~Cancel(k)
      PROVE  /\ UNCHANGED <<delivered[k], out[k], coord.drained[k]>>
             /\ pc'[k] = "recording" <=> pc[k] = "recording"
             /\ cut'[k] = cut[k]
  BY <1>0, <1>9 DEF AppDrop, DropSink, Cancel
<1> QED
  BY <1>1, <1>2, <1>3, <1>4, <1>5, <1>6, <1>7, <1>8, <1>9
     DEF Next, SinkStep, ReliableStep, Environment

LEMMA DrainsStep ==
    ASSUME TypeOK, DrainsAreReturned, [Next]_vars
    PROVE  DrainsAreReturned'
<1> DEFINE Returned(k) == Len(delivered[k])
                          + IF pc[k] = "recording" THEN Len(out[k]) ELSE 0
<1> SUFFICES ASSUME NEW k \in Sinks
             PROVE  /\ Returned(k)' <= coord'.drained[k]
                    /\ cut'[k] = "no" => Returned(k)' = coord'.drained[k]
  BY DEF DrainsAreReturned
<1>0. /\ pc \in [Sinks -> SinkPc]
      /\ out \in [Sinks -> Seq(SeqNum)]
      /\ delivered \in [Sinks -> Seq(SeqNum)]
      /\ cut \in [Sinks -> {"no", "cancelled", "panicked"}]
      /\ coord \in CoordType /\ coord.drained[k] \in Nat
      /\ delivered[k] \in Seq(SeqNum) /\ out[k] \in Seq(SeqNum)
      /\ Len(delivered[k]) \in Nat /\ Len(out[k]) \in Nat
  <2>1. /\ out \in [Sinks -> Seq(SeqNum)] /\ delivered \in [Sinks -> Seq(SeqNum)]
        /\ coord \in CoordType /\ pc \in [Sinks -> SinkPc]
        /\ cut \in [Sinks -> {"no", "cancelled", "panicked"}]
    BY DEF TypeOK
  <2>2. coord.drained[k] \in Nat
    BY <2>1 DEF CoordType
  <2> QED BY <2>1, <2>2
<1>1. /\ Returned(k) <= coord.drained[k]
      /\ cut[k] = "no" => Returned(k) = coord.drained[k]
  BY DEF DrainsAreReturned
<1>2. Len(delivered[k] \o out[k]) = Len(delivered[k]) + Len(out[k])
  BY <1>0
<1>3. CASE Record(k)
  <2>1. pc[k] = "record" /\ UNCHANGED cut
    BY <1>3 DEF Record
  <2>2. coord'.drained[k] = coord.drained[k] + Len(out[k])
    <3>1. coord.drained \in [Sinks -> Nat]
      BY <1>0 DEF CoordType
    <3>2. coord'.drained = [coord.drained EXCEPT ![k] = coord.drained[k] + Len(out[k])]
      BY <1>3, RecordChanges
    <3> QED BY <3>1, <3>2
  <2>3. \/ pc'[k] = "idle" /\ delivered'[k] = delivered[k] \o out[k]
        \/ pc'[k] = "recording" /\ UNCHANGED <<delivered[k], out[k]>>
    BY <1>0, <1>3 DEF Record
  <2>4. Returned(k)' = Len(delivered[k]) + Len(out[k])
    <3>1. CASE pc'[k] = "idle" /\ delivered'[k] = delivered[k] \o out[k]
      <4>1. Returned(k)' = Len(delivered[k] \o out[k]) + 0
        BY <3>1
      <4>2. Len(delivered[k] \o out[k]) + 0 = Len(delivered[k]) + Len(out[k])
        BY <1>0, <1>2
      <4> QED BY <4>1, <4>2
    <3>2. CASE pc'[k] = "recording" /\ UNCHANGED <<delivered[k], out[k]>>
      BY <3>2
    <3> QED BY <2>3, <3>1, <3>2
  <2>5. Returned(k) = Len(delivered[k])
    BY <1>0, <2>1
  <2>6. /\ Returned(k) + Len(out[k]) <= coord.drained[k] + Len(out[k])
        /\ cut[k] = "no" =>
             Returned(k) + Len(out[k]) = coord.drained[k] + Len(out[k])
    <3>1. Returned(k) \in Nat
      BY <1>0, <2>5
    <3> HIDE DEF Returned
    <3> QED BY <1>0, <1>1, <3>1
  <2> QED BY <2>1, <2>2, <2>4, <2>5, <2>6
<1>4. CASE RecordSend(k)
  <2>1. /\ pc[k] = "recording" /\ pc'[k] = "idle"
        /\ delivered'[k] = delivered[k] \o out[k]
        /\ UNCHANGED <<coord, cut>>
    BY <1>0, <1>4 DEF RecordSend
  <2>2. Returned(k)' = Returned(k)
    BY <1>0, <1>2, <2>1
  <2> HIDE DEF Returned
  <2> QED BY <1>1, <2>1, <2>2
<1>5. CASE MarkClosed(k)
  <2>1. /\ pc[k] # "recording" /\ pc'[k] # "recording"
        /\ UNCHANGED <<delivered, cut>>
    BY <1>0, <1>5 DEF MarkClosed
  <2>2. coord'.drained = coord.drained
    BY <1>5, CloseChanges
  <2> QED BY <1>1, <2>1, <2>2
<1>6. CASE Cancel(k)
  <2>1. /\ pc'[k] = "idle" /\ cut'[k] = "cancelled"
        /\ UNCHANGED <<delivered, coord>>
    BY <1>0, <1>6 DEF Cancel
  <2> QED BY <1>0, <1>1, <2>1
<1>7. CASE /\ UNCHANGED <<delivered[k], out[k], coord.drained[k]>>
           /\ pc'[k] = "recording" <=> pc[k] = "recording"
           /\ cut'[k] = "no" => cut[k] = "no"
  BY <1>1, <1>7
<1>8. CASE /\ UNCHANGED <<delivered[k], coord.drained[k]>>
           /\ pc'[k] # "recording" /\ pc[k] # "recording"
           /\ cut'[k] = "no" => cut[k] = "no"
  BY <1>1, <1>8
<1> QED BY <1>3, <1>4, <1>5, <1>6, <1>7, <1>8, DrainFrame

\* Until its recv() is cut short, what a sink returned is exactly what it had
\* counted as drained, through every race for the lock; afterwards never more.
THEOREM DrainsCounted == Spec => []DrainsAreReturned
<1>1. Init => DrainsAreReturned
  <2> SUFFICES ASSUME Init PROVE DrainsAreReturned
    OBVIOUS
  <2>1. \A k \in Sinks : /\ Len(delivered[k]) = 0 /\ Len(out[k]) = 0
                         /\ coord.drained[k] = 0 /\ pc[k] # "recording"
    <3>1. Len(<< >>) = 0
      OBVIOUS
    <3>2. \A k \in Sinks : /\ delivered[k] = << >> /\ out[k] = << >>
                           /\ coord.drained[k] = 0 /\ pc[k] # "recording"
      BY DEF Init, NewCoord
    <3> QED BY <3>1, <3>2
  <2>2. \A k \in Sinks :
           Len(delivered[k]) + (IF pc[k] = "recording" THEN Len(out[k]) ELSE 0)
             = coord.drained[k]
    <3> TAKE k \in Sinks
    <3>1. (IF pc[k] = "recording" THEN Len(out[k]) ELSE 0) = 0 /\ 0 + 0 = 0
      BY <2>1
    <3> QED BY <2>1, <3>1
  <2> DEFINE Returned(k) == Len(delivered[k])
                            + IF pc[k] = "recording" THEN Len(out[k]) ELSE 0
  <2>3. \A k \in Sinks : /\ Returned(k) <= coord.drained[k]
                         /\ cut[k] = "no" => Returned(k) = coord.drained[k]
    <3> TAKE k \in Sinks
    <3>1. Returned(k) = 0 /\ coord.drained[k] = 0
      BY <2>1, <2>2
    <3> HIDE DEF Returned
    <3> QED BY <3>1
  <2> QED BY <2>3 DEF DrainsAreReturned
<1>2. TypeOK /\ DrainsAreReturned /\ [Next]_vars => DrainsAreReturned'
  BY DrainsStep
<1> QED BY <1>1, <1>2, TypeCorrect, PTL DEF Spec
-----------------------------------------------------------------------------
(* Every acknowledgement under way is counted                               *)

\* An acknowledgement owed is a TransferEnd in the pipeline channel, one the
\* reliable sink has taken, or one on its way back to the task.
Unanswered == Len(pipeline) + (IF pendingEnd = None THEN 0 ELSE 1) + endAcks

AckInv == taskPc # "exited" => Unanswered <= owed

LEMMA AckFrame ==
    ASSUME [Next]_vars
    PROVE  \/ RelTop \/ RelCommand \/ TaskForward \/ TaskSendAck
           \/ TaskTransferEnd
           \/ /\ taskPc' = "exited" /\ endAcks' = 0
              /\ UNCHANGED <<pipeline, pendingEnd, acks>>
           \/ /\ UNCHANGED <<endAcks, owed, taskPc, acks>>
              /\ \/ UNCHANGED <<pipeline, pendingEnd>>
                 \/ pipeline' = << >> /\ pendingEnd' = None
<1> USE DEF sinkVars, relVars, taskVars, netVars
<1>1. CASE UNCHANGED vars
  BY <1>1 DEF vars
<1>2. ASSUME NEW k \in Sinks, SinkStep(k)
      PROVE  UNCHANGED <<endAcks, owed, taskPc, acks, pipeline, pendingEnd>>
  BY <1>2 DEF SinkStep, Call, ChannelClosed, Record, RecordSend, MarkClosed,
     MarkClosedSend, DrainOne, DrainEnd
<1>3. CASE RelNotified \/ RelNack \/ UnreliableStep
  BY <1>3 DEF RelNotified, RelNack, UnreliableStep, UnrelTop, UnrelWait,
     UnrelNotified, UnrelPacket
<1>4. CASE RelPacket \/ RelRead
  BY <1>4 DEF RelPacket, RelRead, Panic, DropSink
<1>5. CASE Route \/ TaskForwardFails \/ TaskSenderCommand
  BY <1>5 DEF Route, TaskForwardFails, TaskExit, TaskSenderCommand
<1>6. CASE CloseChannels \/ PeerCloses \/ \E s \in Seqs : Decode(s)
  BY <1>6 DEF Decode, CloseChannels, PeerCloses, TaskExit
<1>7. ASSUME NEW k \in Sinks, AppDrop(k) \/ Cancel(k)
      PROVE  /\ UNCHANGED <<endAcks, owed, taskPc, acks>>
             /\ \/ UNCHANGED <<pipeline, pendingEnd>>
                \/ pipeline' = << >> /\ pendingEnd' = None
  BY <1>7 DEF AppDrop, DropSink, Cancel
<1> QED BY <1>1, <1>2, <1>3, <1>4, <1>5, <1>6, <1>7
        DEF Next, ReliableStep, TaskStep, Environment

LEMMA AckStep ==
    ASSUME TypeOK, AckInv, [Next]_vars
    PROVE  AckInv'
<1> SUFFICES ASSUME taskPc' # "exited"
             PROVE  Unanswered' <= owed'
  BY DEF AckInv
<1>0. /\ pipeline \in Seq(SeqNum) /\ Len(pipeline) \in Nat
      /\ endAcks \in Nat /\ owed \in Nat
      /\ None \notin SeqNum
  BY RecvAssumption DEF TypeOK, SeqNum
<1>1. CASE RelTop
  <2>1. UNCHANGED <<pipeline, owed, taskPc>>
    BY <1>1 DEF RelTop, netVars
  <2>2. \/ pendingEnd # None /\ pendingEnd' = None /\ endAcks' = endAcks + 1
        \/ UNCHANGED <<pendingEnd, endAcks>>
    BY <1>1, <2>1 DEF RelTop
  <2> QED BY <1>0, <2>1, <2>2 DEF AckInv, Unanswered
<1>2. CASE RelCommand
  <2>1. UNCHANGED <<endAcks, owed, taskPc>> /\ pipeline # << >>
    BY <1>2 DEF RelCommand, taskVars
  <2>2. Len(pipeline') + 1 = Len(pipeline)
    BY <1>0, <1>2 DEF RelCommand
  <2>3. Len(pipeline') \in Nat
    BY <1>0, <1>2 DEF RelCommand
  <2> QED BY <1>0, <2>1, <2>2, <2>3 DEF AckInv, Unanswered
<1>3. CASE TaskForward
  <2>1. UNCHANGED <<pendingEnd, endAcks>> /\ owed' = owed + 1
    BY <1>3 DEF TaskForward
  <2>2. Len(pipeline) = 0 /\ Len(pipeline') = 1 /\ taskPc # "exited"
    BY <1>3 DEF TaskForward
  <2> QED BY <1>0, <2>1, <2>2 DEF AckInv, Unanswered
<1>4. CASE TaskSendAck
  <2>1. UNCHANGED <<pendingEnd, pipeline, taskPc>> /\ endAcks > 0
    BY <1>4 DEF TaskSendAck, relVars
  <2>2. endAcks' = endAcks - 1 /\ owed' = IF owed = 0 THEN 0 ELSE owed - 1
    BY <1>4 DEF TaskSendAck
  <2> QED BY <1>0, <2>1, <2>2 DEF AckInv, Unanswered
<1>5. CASE TaskTransferEnd
  <2>1. UNCHANGED <<pendingEnd, pipeline, endAcks, owed>>
    BY <1>5 DEF TaskTransferEnd, relVars
  <2>2. taskPc # "exited"
    BY <1>5 DEF TaskTransferEnd
  <2> QED BY <2>1, <2>2 DEF AckInv, Unanswered
<1>6. CASE /\ UNCHANGED <<endAcks, owed, taskPc, acks>>
           /\ \/ UNCHANGED <<pipeline, pendingEnd>>
              \/ pipeline' = << >> /\ pendingEnd' = None
  <2>1. CASE UNCHANGED <<pipeline, pendingEnd>>
    BY <1>6, <2>1 DEF AckInv, Unanswered
  <2>2. CASE pipeline' = << >> /\ pendingEnd' = None
    BY <1>0, <1>6, <2>2 DEF AckInv, Unanswered
  <2> QED BY <1>6, <2>1, <2>2
<1> QED BY <1>1, <1>2, <1>3, <1>4, <1>5, <1>6, AckFrame

\* The task closes the stream of a dropped handle only when it owes nothing:
\* every acknowledgement on its way is among those it owes, whatever is
\* dropped, repeated or overwritten in between.
THEOREM AcksCounted == Spec => []AcksAreOwed
<1>1. Init => AckInv
  <2> SUFFICES ASSUME Init PROVE Unanswered <= owed
    BY DEF AckInv
  <2>1. pipeline = << >> /\ pendingEnd = None /\ endAcks = 0 /\ owed = 0
    BY DEF Init
  <2> QED BY <2>1 DEF Unanswered
<1>2. TypeOK /\ AckInv /\ [Next]_vars => AckInv'
  BY AckStep
<1>3. TypeOK /\ AckInv => AcksAreOwed
  BY DEF TypeOK, AckInv, Unanswered, AcksAreOwed
<1> QED BY <1>1, <1>2, <1>3, TypeCorrect, PTL DEF Spec
-----------------------------------------------------------------------------
(* Every credit is sent once                                                *)

Holding(k) == pc[k] \in {"recording", "closingSend", "drainSend"}

\* No recv() has lost credits it had in hand: none was cut short, or only a
\* panic can cut one short, which strikes where it has none.
Uncut == (\A k \in Sinks : cut[k] = "no") \/ MayCancel = {}

CreditsKept ==
    /\ granted + InFlight <= coord.emitted
    /\ taskPc # "exited" /\ Uncut => granted + InFlight = coord.emitted

\* A sink has credits in hand only while it holds the lock, and a sink that
\* is sending holds it.
CreditInv ==
    /\ CreditsKept
    /\ \A k \in Sinks : /\ Holding(k) <=> lock = k
                        /\ ~Holding(k) => emission[k] = 0

LEMMA EmissionSum ==
    ASSUME NEW f \in [Sinks -> Nat], NEW k \in Sinks, NEW v \in Nat
    PROVE  LET g == [f EXCEPT ![k] = v]
           IN  g["reliable"] + g["unreliable"] + f[k]
                 = f["reliable"] + f["unreliable"] + v
<1>1. k = "reliable" \/ k = "unreliable"
  BY DEF Sinks
<1>2. f["reliable"] \in Nat /\ f["unreliable"] \in Nat
  BY DEF Sinks
<1>3. CASE k = "reliable"
  <2>1. [f EXCEPT ![k] = v]["reliable"] = v
        /\ [f EXCEPT ![k] = v]["unreliable"] = f["unreliable"]
    BY <1>3 DEF Sinks
  <2> QED BY <1>2, <1>3, <2>1
<1>4. CASE k = "unreliable"
  <2>1. [f EXCEPT ![k] = v]["unreliable"] = v
        /\ [f EXCEPT ![k] = v]["reliable"] = f["reliable"]
    BY <1>4 DEF Sinks
  <2> QED BY <1>2, <1>4, <2>1
<1> QED BY <1>1, <1>3, <1>4

\* The numbers the argument is about.
LEMMA CreditNumbers ==
    ASSUME TypeOK
    PROVE  /\ emission["reliable"] \in Nat /\ emission["unreliable"] \in Nat
           /\ CommandCredits(scCh) \in Nat
           /\ granted \in Nat /\ coord.emitted \in Nat
           /\ InFlight \in Nat
<1>1. /\ emission \in [Sinks -> Nat] /\ scCh \in Seq(CommandType)
      /\ granted \in Nat /\ coord \in CoordType
  BY DEF TypeOK
<1>2. emission["reliable"] \in Nat /\ emission["unreliable"] \in Nat
  BY <1>1 DEF Sinks
<1>3. CommandCredits(scCh) \in Nat
  BY <1>1, CommandCreditsIs
<1>4. coord.emitted \in Nat
  BY <1>1 DEF CoordType
<1> QED BY <1>1, <1>2, <1>3, <1>4 DEF InFlight

\* A sink that sends the credits in its hand moves them into the channel, or
\* loses them when the task is gone.
LEMMA SendKeepsCredits ==
    ASSUME TypeOK, CreditInv, NEW k \in Sinks, Holding(k),
           SendToTask(Credits(emission[k])),
           emission' = [emission EXCEPT ![k] = 0],
           lock' = "free",
           NEW p \in {"idle", "gone", "eof"}, pc' = [pc EXCEPT ![k] = p],
           UNCHANGED <<granted, coord, cut, taskPc>>
    PROVE  CreditInv'
<1>0. /\ emission \in [Sinks -> Nat] /\ scCh \in Seq(CommandType)
      /\ pc \in [Sinks -> SinkPc]
      /\ emission[k] \in Nat
  BY DEF TypeOK
<1>1. \A j \in Sinks : j # k => ~Holding(j)
  BY DEF CreditInv
<1>2. \A j \in Sinks : ~Holding(j)' /\ emission'[j] = 0 /\ lock' # j
  BY <1>0, <1>1 DEF CreditInv, Holding, Sinks
<1> DEFINE E == emission["reliable"] + emission["unreliable"]
<1>3. E' + emission[k] = E /\ E' \in Nat /\ E \in Nat
  <2>1. emission'["reliable"] + emission'["unreliable"] + emission[k]
          = emission["reliable"] + emission["unreliable"] + 0
    BY <1>0, EmissionSum
  <2>2. emission'["reliable"] = 0 /\ emission'["unreliable"] = 0
    BY <1>2 DEF Sinks
  <2> QED BY <1>0, <2>1, <2>2, CreditNumbers
<1>4. \/ taskPc = "exited" /\ CommandCredits(scCh') = CommandCredits(scCh)
      \/ CommandCredits(scCh') = CommandCredits(scCh) + emission[k]
  <2>1. Credits(emission[k]) \in CommandType
    BY <1>0, CommandsType
  <2>2. Credits(emission[k]).credits = emission[k]
    BY DEF Credits
  <2>3. CommandCredits(Append(scCh, Credits(emission[k])))
          = CommandCredits(scCh) + emission[k]
    BY <1>0, <2>1, <2>2, CommandCreditsIs
  <2> QED BY <2>3 DEF SendToTask
<1>5. InFlight = E + CommandCredits(scCh) /\ InFlight' = E' + CommandCredits(scCh')
  BY DEF InFlight
<1>6. /\ InFlight' <= InFlight
      /\ taskPc # "exited" => InFlight' = InFlight
  <2> HIDE DEF E
  <2>1. CommandCredits(scCh) \in Nat
    BY CreditNumbers
  <2>2. CASE /\ taskPc = "exited"
             /\ CommandCredits(scCh') = CommandCredits(scCh)
    BY ONLY <1>0, <1>3, <1>5, <2>1, <2>2
  <2>3. CASE CommandCredits(scCh') = CommandCredits(scCh) + emission[k]
    BY ONLY <1>0, <1>3, <1>5, <2>1, <2>3
  <2> QED BY <1>4, <2>2, <2>3
<1>7. CreditsKept'
  <2>1. InFlight' \in Nat
    <3>1. CommandCredits(scCh') \in Nat
      BY <1>0, <1>4, CreditNumbers
    <3> HIDE DEF E
    <3> QED BY <1>3, <1>5, <3>1
  <2>2. /\ granted + InFlight' <= granted + InFlight
        /\ taskPc # "exited" => granted + InFlight' = granted + InFlight
    BY <1>6, <2>1, CreditNumbers
  <2>3. granted + InFlight' <= coord.emitted
    <3>1. granted + InFlight <= coord.emitted
      BY DEF CreditInv, CreditsKept
    <3>2. /\ granted + InFlight' \in Nat /\ granted + InFlight \in Nat
          /\ coord.emitted \in Nat
      BY <2>1, CreditNumbers
    <3>3. granted + InFlight' <= granted + InFlight
      BY <2>2
    <3> QED BY ONLY <3>1, <3>2, <3>3
  <2>4. Uncut' = Uncut
    BY DEF Uncut
  <2> QED BY <2>2, <2>3, <2>4 DEF CreditInv, CreditsKept
<1> QED BY <1>2, <1>7 DEF CreditInv

\* A sink that emits takes the lock to do it, with nothing in its hand.
LEMMA EmitKeepsCredits ==
    ASSUME TypeOK, CreditInv, NEW k \in Sinks, ~Holding(k), lock = "free",
           NEW e \in Nat,
           coord'.emitted = coord.emitted + e,
           emission' = [emission EXCEPT ![k] = e],
           lock' = IF e = 0 THEN "free" ELSE k,
           NEW p \in SinkPc, pc' = [pc EXCEPT ![k] = p],
           p \in {"recording", "closingSend", "drainSend"} <=> e # 0,
           UNCHANGED <<granted, scCh, cut, taskPc>>
    PROVE  CreditInv'
<1>0. /\ emission \in [Sinks -> Nat]
      /\ pc \in [Sinks -> SinkPc]
      /\ emission[k] = 0
  BY DEF TypeOK, CreditInv
<1>1. ASSUME NEW j \in Sinks
      PROVE  /\ Holding(j)' <=> lock' = j
             /\ ~Holding(j)' => emission'[j] = 0
  <2>1. "free" \notin Sinks
    BY DEF Sinks
  <2>2. CASE j = k
    BY <1>0, <2>1, <2>2 DEF Holding
  <2>3. CASE j # k
    <3>1. pc'[j] = pc[j] /\ emission'[j] = emission[j]
      BY <1>0, <2>3
    <3>2. ~Holding(j)
      BY <2>1 DEF CreditInv
    <3> QED BY <2>1, <2>3, <3>1, <3>2 DEF CreditInv, Holding
  <2> QED BY <2>2, <2>3
<1>2. InFlight' = InFlight + e
  <2>1. emission'["reliable"] + emission'["unreliable"] + 0
          = emission["reliable"] + emission["unreliable"] + e
    BY <1>0, EmissionSum
  <2>2. emission'["reliable"] \in Nat /\ emission'["unreliable"] \in Nat
    BY <1>0 DEF Sinks
  <2>3. emission'["reliable"] + emission'["unreliable"]
          = emission["reliable"] + emission["unreliable"] + e
    BY <2>1, <2>2, CreditNumbers
  <2>4. InFlight' = emission'["reliable"] + emission'["unreliable"]
                    + CommandCredits(scCh)
    BY DEF InFlight
  <2> QED BY <2>2, <2>3, <2>4, CreditNumbers DEF InFlight
<1>3. CreditsKept'
  <2>1. Uncut' = Uncut
    BY DEF Uncut
  <2> QED BY <1>2, <2>1, CreditNumbers DEF CreditInv, CreditsKept
<1> QED BY <1>1, <1>3 DEF CreditInv

\* The steps that touch neither credits nor the lock.
QuietStep ==
    /\ UNCHANGED <<emission, lock, scCh, granted, coord>>
    /\ \A k \in Sinks : /\ Holding(k)' <=> Holding(k)
                        /\ cut'[k] = "no" => cut[k] = "no"
    /\ taskPc' # "exited" => taskPc # "exited"

LEMMA CreditFrame ==
    ASSUME TypeOK, [Next]_vars
    PROVE  \/ \E k \in Sinks : Record(k) \/ RecordSend(k) \/ MarkClosed(k)
                               \/ MarkClosedSend(k) \/ Cancel(k)
           \/ RelNack \/ TaskSenderCommand
           \/ TaskExit
           \/ QuietStep
<1> USE DEF sinkVars, relVars, taskVars, netVars, QuietStep, Holding
<1>0. /\ pc \in [Sinks -> SinkPc]
      /\ cut \in [Sinks -> {"no", "cancelled", "panicked"}]
      /\ "reliable" \in Sinks /\ "unreliable" \in Sinks
  BY DEF TypeOK, Sinks
<1>1. CASE UNCHANGED vars
  BY <1>1 DEF vars
<1>2. ASSUME NEW k \in Sinks, Call(k) \/ ChannelClosed(k) \/ DrainOne(k) \/ DrainEnd(k)
      PROVE  QuietStep
  BY <1>0, <1>2 DEF Call, ChannelClosed, SignalEof, DrainOne, DrainEnd
<1>3. CASE RelTop \/ RelNotified \/ RelCommand
  BY <1>0, <1>3 DEF RelTop, RelNotified, RelCommand, SignalEof, EnterSelect
<1>4. CASE RelPacket \/ RelRead
  <2>1. UNCHANGED <<emission, lock, scCh, granted, coord, taskPc>>
    BY <1>4 DEF RelPacket, RelRead
  <2>2. \E p \in {"draining", "read", "nack", "top", "record"} :
           pc' = [pc EXCEPT !["reliable"] = p]
    BY <1>4 DEF RelPacket, RelRead, Panic, DropSink
  <2>3. pc["reliable"] \in {"select", "read"}
    BY <1>4 DEF RelPacket, RelRead
  <2>4. \A k \in Sinks : Holding(k)' <=> Holding(k)
    BY <1>0, <2>2, <2>3
  <2>5. \A k \in Sinks : cut'[k] = "no" => cut[k] = "no"
    BY <1>0, <1>4 DEF RelPacket, RelRead, Panic
  <2> QED BY <2>1, <2>4, <2>5
<1>5. CASE UnreliableStep
  BY <1>0, <1>5 DEF UnreliableStep, UnrelTop, UnrelWait, UnrelNotified,
     UnrelPacket, SignalEof, EnterSelect
<1>6. CASE Route \/ TaskForward \/ TaskSendAck
  BY <1>6 DEF Route, TaskForward, TaskSendAck
<1>7. CASE CloseChannels \/ TaskTransferEnd \/ \E s \in Seqs : Decode(s)
  BY <1>7 DEF Decode, CloseChannels, TaskTransferEnd
<1>8. ASSUME NEW k \in Sinks, AppDrop(k)
      PROVE  QuietStep
  BY <1>0, <1>8 DEF AppDrop, DropSink
<1> QED BY <1>1, <1>2, <1>3, <1>4, <1>5, <1>6, <1>7, <1>8
        DEF Next, SinkStep, ReliableStep, TaskStep, TaskForwardFails,
            PeerCloses, Environment

\* The end of the task takes with it what is in its channel.
LEMMA ExitKeepsCredits ==
    ASSUME TypeOK, CreditInv, TaskExit
    PROVE  CreditInv'
<1>1. /\ UNCHANGED <<emission, lock, coord, cut, pc, granted>>
      /\ scCh' = << >> /\ taskPc' = "exited"
  BY DEF TaskExit, sinkVars
<1>2. CommandCredits(scCh') = 0
  BY <1>1, CommandCreditsIs
<1>3. InFlight' = emission["reliable"] + emission["unreliable"] + 0
  BY <1>1, <1>2 DEF InFlight
<1>4. granted + InFlight' <= granted + InFlight /\ InFlight' \in Nat
  BY <1>3, CreditNumbers DEF InFlight
<1>5. granted + InFlight' <= coord.emitted
  BY <1>4, CreditNumbers DEF CreditInv, CreditsKept
<1> QED BY <1>1, <1>5 DEF CreditInv, CreditsKept, Holding

LEMMA CreditStep ==
    ASSUME TypeOK, CreditInv, [Next]_vars
    PROVE  CreditInv'
<1> USE DEF sinkVars, relVars, taskVars, netVars
<1>0. /\ pc \in [Sinks -> SinkPc]
      /\ emission \in [Sinks -> Nat]
      /\ scCh \in Seq(CommandType)
      /\ cut \in [Sinks -> {"no", "cancelled", "panicked"}]
      /\ "free" \notin Sinks
  BY DEF TypeOK, Sinks
<1>1. ASSUME NEW k \in Sinks, Record(k) PROVE CreditInv'
  <2>1. lock = "free" /\ ~Holding(k) /\ UNCHANGED <<granted, scCh, cut, taskPc>>
    BY <1>1 DEF Record, Holding
  <2>2. PICK e \in Nat :
          /\ coord'.emitted = coord.emitted + e
          /\ emission' = [emission EXCEPT ![k] = e]
          /\ lock' = IF e = 0 THEN "free" ELSE k
          /\ pc' = [pc EXCEPT ![k] = IF e = 0 THEN "idle" ELSE "recording"]
    BY <1>1, RecordChanges
  <2> DEFINE p == IF e = 0 THEN "idle" ELSE "recording"
  <2>3. p \in SinkPc /\ (p \in {"recording", "closingSend", "drainSend"} <=> e # 0)
    BY DEF SinkPc
  <2> QED BY <2>1, <2>2, <2>3, EmitKeepsCredits
<1>2. ASSUME NEW k \in Sinks, MarkClosed(k) PROVE CreditInv'
  <2>1. lock = "free" /\ ~Holding(k) /\ UNCHANGED <<granted, scCh, cut, taskPc>>
    BY <1>2 DEF MarkClosed, Holding
  <2>2. PICK e \in Nat :
          /\ coord'.emitted = coord.emitted + e
          /\ emission' = [emission EXCEPT ![k] = e]
          /\ lock' = IF e = 0 THEN lock ELSE k
          /\ pc' = [pc EXCEPT ![k] =
                     IF e = 0
                     THEN IF pc[k] = "drainClosing" THEN "gone" ELSE "eof"
                     ELSE IF pc[k] = "drainClosing" THEN "drainSend"
                                                    ELSE "closingSend"]
    BY <1>2, CloseChanges
  <2> DEFINE p == IF e = 0
                  THEN IF pc[k] = "drainClosing" THEN "gone" ELSE "eof"
                  ELSE IF pc[k] = "drainClosing" THEN "drainSend"
                                                 ELSE "closingSend"
  <2>3. p \in SinkPc /\ (p \in {"recording", "closingSend", "drainSend"} <=> e # 0)
    BY DEF SinkPc
  <2>4. lock' = IF e = 0 THEN "free" ELSE k
    BY <2>1, <2>2
  <2> QED BY <2>1, <2>2, <2>3, <2>4, EmitKeepsCredits
<1>3. ASSUME NEW k \in Sinks, RecordSend(k) \/ MarkClosedSend(k) PROVE CreditInv'
  <2>1. /\ Holding(k)
        /\ SendToTask(Credits(emission[k]))
        /\ emission' = [emission EXCEPT ![k] = 0]
        /\ lock' = "free"
        /\ UNCHANGED <<granted, coord, cut, taskPc>>
    BY <1>3 DEF RecordSend, MarkClosedSend, Holding
  <2>2. \E p \in {"idle", "gone", "eof"} : pc' = [pc EXCEPT ![k] = p]
    BY <1>3 DEF RecordSend, MarkClosedSend
  <2> QED BY <2>1, <2>2, SendKeepsCredits
<1>4. ASSUME NEW k \in Sinks, Cancel(k) PROVE CreditInv'
  <2>1. /\ pc' = [pc EXCEPT ![k] = "idle"]
        /\ emission' = [emission EXCEPT ![k] = 0]
        /\ lock' = IF lock = k THEN "free" ELSE lock
        /\ cut' = [cut EXCEPT ![k] = "cancelled"]
        /\ UNCHANGED <<scCh, granted, coord, taskPc>>
    BY <1>4 DEF Cancel
  <2>2. ASSUME NEW j \in Sinks
        PROVE  /\ Holding(j)' <=> lock' = j
               /\ ~Holding(j)' => emission'[j] = 0
    BY <1>0, <2>1 DEF CreditInv, Holding
  <2>3. InFlight' <= InFlight /\ InFlight' \in Nat
    <3>1. emission'["reliable"] + emission'["unreliable"] + emission[k]
            = emission["reliable"] + emission["unreliable"] + 0
      <4>1. emission' = [emission EXCEPT ![k] = 0] /\ 0 \in Nat
        BY <2>1
      <4> QED BY ONLY <1>0, <4>1, EmissionSum
    <3>2. /\ emission'["reliable"] \in Nat /\ emission'["unreliable"] \in Nat
          /\ emission[k] \in Nat
      BY <1>0, <2>1 DEF Sinks
    <3>3. InFlight' = emission'["reliable"] + emission'["unreliable"]
                      + CommandCredits(scCh)
      BY <2>1 DEF InFlight
    <3> QED BY <3>1, <3>2, <3>3, CreditNumbers DEF InFlight
  <2>4. ~Uncut'
    BY <1>0, <1>4, <2>1 DEF Cancel, Uncut
  <2>5. CreditsKept'
    <3>1. granted + InFlight' <= coord.emitted
      BY <2>3, CreditNumbers DEF CreditInv, CreditsKept
    <3> QED BY <2>1, <2>4, <3>1 DEF CreditsKept
  <2> QED BY <2>2, <2>5 DEF CreditInv
<1>5. CASE RelNack
  <2>1. /\ UNCHANGED <<emission, lock, granted, coord, taskPc, cut>>
        /\ SendToTask(Nack(MissingSeqs(asm)))
        /\ pc["reliable"] = "nack"
        /\ pc' = [pc EXCEPT !["reliable"] = "read"]
    BY <1>5 DEF RelNack
  <2>2. CommandCredits(scCh') = CommandCredits(scCh)
    <3> DEFINE n == Nack(MissingSeqs(asm))
    <3>1. n \in CommandType /\ n.credits = 0
      BY MissingType, CommandsType DEF TypeOK, Nack
    <3>2. CommandCredits(Append(scCh, n)) = CommandCredits(scCh) + n.credits
      <4> HIDE DEF n
      <4> QED BY <1>0, <3>1, CommandCreditsIs
    <3>3. CommandCredits(scCh) + 0 = CommandCredits(scCh)
      BY CreditNumbers
    <3> QED BY <2>1, <3>1, <3>2, <3>3 DEF SendToTask
  <2>3. InFlight' = InFlight
    BY <2>1, <2>2 DEF InFlight
  <2>4. \A j \in Sinks : Holding(j)' <=> Holding(j)
    BY <1>0, <2>1 DEF Holding, Sinks
  <2>5. Uncut' = Uncut
    BY <2>1 DEF Uncut
  <2> QED BY <2>1, <2>3, <2>4, <2>5 DEF CreditInv, CreditsKept
<1>6. CASE TaskSenderCommand
  <2>1. /\ UNCHANGED <<emission, lock, coord, taskPc, cut, pc>>
        /\ scCh # << >> /\ scCh' = Tail(scCh)
        /\ granted' = granted + Head(scCh).credits
    BY <1>6 DEF TaskSenderCommand
  <2>2. CommandCredits(Tail(scCh)) + Head(scCh).credits = CommandCredits(scCh)
    BY <1>0, <2>1, CommandCreditsIs
  <2>3. Tail(scCh) \in Seq(CommandType) /\ Head(scCh).credits \in Nat
    <3>1. Tail(scCh) \in Seq(CommandType) /\ Head(scCh) \in CommandType
      BY <1>0, <2>1
    <3> QED BY <3>1 DEF CommandType
  <2>4. CommandCredits(Tail(scCh)) \in Nat
    BY <2>3, CommandCreditsIs
  <2>5. InFlight' = emission["reliable"] + emission["unreliable"]
                    + CommandCredits(Tail(scCh))
    BY <2>1 DEF InFlight
  <2>6. granted' + InFlight' = granted + InFlight
    <3> DEFINE w == CommandCredits(Tail(scCh))
               h == Head(scCh).credits
    <3>1. /\ InFlight = emission["reliable"] + emission["unreliable"] + (w + h)
          /\ granted' = granted + h
          /\ w \in Nat /\ h \in Nat
      BY <2>1, <2>2, <2>3, <2>4 DEF InFlight
    <3>2. InFlight' = emission["reliable"] + emission["unreliable"] + w
      BY <2>5
    <3>3. /\ emission["reliable"] \in Nat /\ emission["unreliable"] \in Nat
          /\ granted \in Nat
      BY CreditNumbers
    <3> HIDE DEF w, h
    <3> QED BY ONLY <3>1, <3>2, <3>3
  <2>7. Uncut' = Uncut
    BY <2>1 DEF Uncut
  <2> QED BY <2>1, <2>6, <2>7 DEF CreditInv, CreditsKept, Holding
<1>7. CASE TaskExit
  BY <1>7, ExitKeepsCredits
<1>8. CASE QuietStep
  <2>1. InFlight' = InFlight
    BY <1>8 DEF QuietStep, InFlight
  <2>2. Uncut' => Uncut
    BY <1>8 DEF QuietStep, Uncut
  <2> QED BY <1>8, <2>1, <2>2 DEF QuietStep, CreditInv, CreditsKept
<1> QED BY <1>1, <1>2, <1>3, <1>4, <1>5, <1>6, <1>7, <1>8, CreditFrame

LEMMA CreditInit == Init => CreditInv
<1> SUFFICES ASSUME Init PROVE CreditInv
  OBVIOUS
<1>1. /\ emission["reliable"] = 0 /\ emission["unreliable"] = 0
      /\ scCh = << >> /\ granted = 0 /\ coord.emitted = 0
  BY DEF Init, NewCoord, Sinks
<1>2. InFlight = 0
  BY <1>1, CommandCreditsIs DEF InFlight
<1>3. \A k \in Sinks : ~Holding(k) /\ lock # k /\ emission[k] = 0
  BY DEF Init, Holding, Sinks
<1> QED BY <1>1, <1>2, <1>3 DEF CreditInv, CreditsKept

\* However the two sinks race for the lock, whatever is dropped, cancelled or
\* closed, no credit emitted is ever sent twice; and until a recv() is cut
\* short or the task is gone none is lost either.
THEOREM CreditsSentOnce == Spec => []EachCreditOnce
<1>1. TypeOK /\ CreditInv /\ [Next]_vars => CreditInv'
  BY CreditStep
<1>2. CreditInv => EachCreditOnce
  BY DEF CreditInv, CreditsKept, Uncut, EachCreditOnce
<1> QED BY <1>1, <1>2, CreditInit, TypeCorrect, PTL DEF Spec
-----------------------------------------------------------------------------
(* An acknowledged transfer has been returned to the application            *)

\* Once a TransferEnd is answered, recv() of the reliable sink has returned
\* as many chunks as the peer sent.
AckMeansSurfaced ==
    Dual /\ acks + endAcks > 0 => Len(delivered["reliable"]) >= NumSeqs

\* Its inductive form: the cursor never runs ahead of what recv() returned or
\* is about to return, and no final number but the transfer's own is waited
\* for.
SurfacedInv ==
    /\ AckMeansSurfaced
    /\ pc["reliable"] \notin {"record", "recording"} => out["reliable"] = << >>
    /\ asm.cursor <= Len(delivered["reliable"]) + Len(out["reliable"])
    /\ pendingEnd \in {None, FinalSeq}
    /\ \A i \in DOMAIN pipeline : pipeline[i] = FinalSeq

LEMMA FinalIs ==
    ASSUME InitialSeq + NumSeqs <= SeqModulus, NumSeqs > 0
    PROVE  /\ FinalSeq = InitialSeq + NumSeqs - 1
           /\ FinalSeq >= NumSeqs - 1
           /\ SeqAdd(FinalSeq, 1) # InitialSeq
<1>0. /\ InitialSeq \in 0 .. (SeqModulus - 1) /\ NumSeqs \in 1 .. (SeqModulus - 1)
      /\ SeqModulus \in Nat \ {0}
  BY RecvAssumption, AssemblerAssumption DEF SeqNum
<1> DEFINE f == InitialSeq + NumSeqs - 1
<1>1. f \in 0 .. (SeqModulus - 1) /\ f >= NumSeqs - 1
  BY <1>0
<1>2. f % SeqModulus = f
  BY <1>0, <1>1, ModIdentity
<1>3. FinalSeq = f
  BY <1>0, <1>2 DEF FinalSeq, SeqSub
<1>4. (f + 1) % SeqModulus # InitialSeq
  <2>1. CASE f + 1 < SeqModulus
    <3>1. f + 1 \in 0 .. (SeqModulus - 1)
      BY <1>0, <1>1, <2>1
    <3>2. (f + 1) % SeqModulus = f + 1
      BY <1>0, <3>1, ModIdentity
    <3> QED BY <1>0, <3>2
  <2>2. CASE f + 1 = SeqModulus
    <3>1. SeqModulus % SeqModulus = 0 /\ InitialSeq > 0
      BY <1>0, <2>2
    <3> QED BY <1>0, <2>2, <3>1
  <2> QED BY <1>0, <1>1, <2>1, <2>2
<1> QED BY <1>1, <1>3, <1>4 DEF SeqAdd

LEMMA PushKeepsCursor ==
    ASSUME NEW a \in AsmType, NEW s
    PROVE  Push(a, s).cursor = a.cursor
  BY DEF Push, AsmType

\* What has been returned or is about to be only grows, the cursor with it.
LEMMA SurfacedCount ==
    ASSUME TypeOK, SurfacedInv, [Next]_vars, "reliable" \notin MayCancel
    PROVE  /\ pc'["reliable"] \notin {"record", "recording"}
                => out'["reliable"] = << >>
           /\ asm'.cursor <= Len(delivered'["reliable"]) + Len(out'["reliable"])
           /\ Len(delivered["reliable"]) <= Len(delivered'["reliable"])
<1> DEFINE D == delivered["reliable"]
           O == out["reliable"]
<1>0. /\ "reliable" \in Sinks
      /\ pc \in [Sinks -> SinkPc]
      /\ out \in [Sinks -> Seq(SeqNum)]
      /\ delivered \in [Sinks -> Seq(SeqNum)]
      /\ ch \in [Sinks -> Seq(SeqNum)]
      /\ asm \in AsmType
      /\ asm.cursor \in Nat
      /\ Len(D) \in Nat /\ Len(O) \in Nat
      /\ D \in Seq(SeqNum) /\ O \in Seq(SeqNum)
  BY SMT DEF TypeOK, Sinks, AsmType, SeqNum
<1>a. asm.cursor <= Len(D) + Len(O)
  BY DEF SurfacedInv
\* Returning from recv() appends the chunks read to those delivered.
<1>1. ASSUME /\ delivered' = [delivered EXCEPT !["reliable"] = D \o O]
             /\ out' = [out EXCEPT !["reliable"] = << >>]
             /\ UNCHANGED asm
      PROVE  /\ out'["reliable"] = << >>
             /\ asm'.cursor <= Len(delivered'["reliable"]) + Len(out'["reliable"])
             /\ Len(D) <= Len(delivered'["reliable"])
  <2>1. delivered'["reliable"] = D \o O /\ out'["reliable"] = << >>
    BY <1>0, <1>1
  <2>2. Len(D \o O) = Len(D) + Len(O) /\ Len(<< >>) = 0
    BY <1>0
  <2>3. Len(D) + Len(O) + 0 = Len(D) + Len(O) /\ Len(D) <= Len(D) + Len(O)
    BY <1>0
  <2> QED BY <1>1, <1>a, <2>1, <2>2, <2>3
<1>2. CASE Cancel("reliable")
  BY <1>2 DEF Cancel
<1>3. CASE RelPacket
  <2>1. UNCHANGED <<out, delivered>> /\ O = << >>
    BY <1>3 DEF RelPacket, SurfacedInv
  <2>2. asm'.cursor = asm.cursor
    BY <1>0, <1>3, PushKeepsCursor DEF RelPacket
  <2> QED BY <1>0, <1>a, <2>1, <2>2
<1>4. CASE RelRead
  <2>1. delivered' = delivered /\ O = << >> /\ pc["reliable"] = "read"
    BY <1>4 DEF RelRead, SurfacedInv
  <2>2. PICK n \in ReadableCounts(asm) :
          \/ UNCHANGED <<asm, out>>
          \/ /\ asm' = AfterRead(asm, n)
             /\ out' = [out EXCEPT !["reliable"] = Readable(asm, n)]
             /\ pc' = [pc EXCEPT !["reliable"] = IF n = 0 THEN "top" ELSE "record"]
    BY <1>4 DEF RelRead
  <2>3. CASE UNCHANGED <<asm, out>>
    BY <1>0, <1>a, <2>1, <2>3
  <2>4. CASE /\ asm' = AfterRead(asm, n)
             /\ out' = [out EXCEPT !["reliable"] = Readable(asm, n)]
             /\ pc' = [pc EXCEPT !["reliable"] = IF n = 0 THEN "top" ELSE "record"]
    <3>1. n \in 0 .. Len(asm.packets) /\ Len(asm.packets) \in Nat
          /\ asm.packets \in Seq(SeqNum \cup {Missing})
      BY <1>0 DEF ReadableCounts, AsmType
    <3>2. out'["reliable"] = SubSeq(asm.packets, 1, n)
      BY <1>0, <2>4 DEF Readable
    <3>3. Len(SubSeq(asm.packets, 1, n)) = n
      BY <3>1
    <3>4. asm'.cursor = (asm.cursor + n) % SeqModulus
      BY <2>4 DEF AfterRead, SeqAdd
    <3>5. (asm.cursor + n) % SeqModulus <= asm.cursor + n
      <4> DEFINE x == asm.cursor + n
      <4>1. x \in Nat /\ SeqModulus \in Nat \ {0}
        BY <1>0, <3>1, AssemblerAssumption
      <4> HIDE DEF x
      <4>2. x % SeqModulus <= x
        BY <4>1
      <4> QED BY <4>2 DEF x
    <3>6. asm'.cursor <= asm.cursor + n /\ asm'.cursor \in Int
      BY <1>0, <3>1, <3>4, <3>5, AssemblerAssumption
    <3>7. Len(out'["reliable"]) = n /\ n \in Nat
      BY <3>1, <3>2, <3>3
    <3>8. asm.cursor <= Len(D)
      BY <1>0, <1>a, <2>1
    <3>9. asm'.cursor <= Len(D) + n
      BY <1>0, <3>6, <3>7, <3>8
    <3>10. n = 0 => out'["reliable"] = << >>
      BY <3>1, <3>2
    <3>11. pc'["reliable"] \notin {"record", "recording"} => n = 0
      BY <1>0, <2>4
    <3> QED BY <1>0, <2>1, <3>7, <3>9, <3>10, <3>11
  <2> QED BY <2>2, <2>3, <2>4
<1>5. CASE Record("reliable")
  <2>1. UNCHANGED asm
    BY <1>5 DEF Record, relVars
  <2>2. \/ /\ delivered' = [delivered EXCEPT !["reliable"] = D \o O]
           /\ out' = [out EXCEPT !["reliable"] = << >>]
        \/ /\ pc' = [pc EXCEPT !["reliable"] = "recording"]
           /\ UNCHANGED <<delivered, out>>
    BY <1>5 DEF Record
  <2>3. CASE /\ pc' = [pc EXCEPT !["reliable"] = "recording"]
             /\ UNCHANGED <<delivered, out>>
    <3>1. pc'["reliable"] = "recording"
      BY <1>0, <2>3
    <3> QED BY <1>0, <1>a, <2>1, <2>3, <3>1
  <2> QED BY <1>1, <2>1, <2>2, <2>3
<1>6. CASE RecordSend("reliable")
  BY <1>1, <1>6 DEF RecordSend, relVars
<1>7. CASE /\ UNCHANGED OrderVars
           /\ \/ pc'["reliable"] = pc["reliable"]
              \/ /\ pc["reliable"] \notin {"record", "recording"}
                 /\ pc'["reliable"] \notin {"record", "recording"}
  <2>1. asm' = asm /\ out'["reliable"] = O /\ delivered'["reliable"] = D
    BY <1>7 DEF OrderVars
  <2>2. pc["reliable"] \notin {"record", "recording"} => O = << >>
    BY DEF SurfacedInv
  <2> QED BY <1>0, <1>7, <1>a, <2>1, <2>2
<1> QED BY <1>2, <1>3, <1>4, <1>5, <1>6, <1>7, OrderFrame

LEMMA SurfacedStep ==
    ASSUME TypeOK, SurfacedInv, [Next]_vars, "reliable" \notin MayCancel,
           InitialSeq + NumSeqs <= SeqModulus
    PROVE  SurfacedInv'
<1> DEFINE D == delivered["reliable"]
<1>0. /\ Len(D) \in Nat /\ Len(delivered'["reliable"]) \in Nat
      /\ endAcks \in Nat /\ acks \in Nat /\ pipeline \in Seq(SeqNum)
      /\ None \notin SeqNum /\ NumSeqs \in Nat /\ FinalSeq \in SeqNum
  <2>1. delivered' \in [Sinks -> Seq(SeqNum)]
    BY NextType DEF TypeOK
  <2>2. delivered \in [Sinks -> Seq(SeqNum)] /\ "reliable" \in Sinks
    BY DEF TypeOK, Sinks
  <2>3. Len(D) \in Nat /\ Len(delivered'["reliable"]) \in Nat
    BY <2>1, <2>2
  <2>4. endAcks \in Nat /\ acks \in Nat /\ pipeline \in Seq(SeqNum)
    BY DEF TypeOK
  <2>5. None \notin SeqNum /\ NumSeqs \in Nat /\ FinalSeq \in SeqNum
    BY RecvAssumption, SeqsType, AssemblerAssumption DEF SeqNum
  <2> QED BY <2>3, <2>4, <2>5
<1>1. /\ pc'["reliable"] \notin {"record", "recording"}
           => out'["reliable"] = << >>
      /\ asm'.cursor <= Len(delivered'["reliable"]) + Len(out'["reliable"])
      /\ Len(D) <= Len(delivered'["reliable"])
  BY SurfacedCount
\* What is asked of the pipeline and of the answers.
<1> DEFINE Waits == /\ pendingEnd \in {None, FinalSeq}
                    /\ \A i \in DOMAIN pipeline : pipeline[i] = FinalSeq
<1>2. Waits /\ AckMeansSurfaced
  BY DEF SurfacedInv
<1> SUFFICES Waits' /\ AckMeansSurfaced'
  BY <1>1 DEF SurfacedInv
<1>3. ASSUME acks' + endAcks' > 0 => acks + endAcks > 0
      PROVE  AckMeansSurfaced'
  BY <1>0, <1>1, <1>2, <1>3 DEF AckMeansSurfaced
<1>4. CASE RelTop
  <2>1. pendingEnd' \in {None, pendingEnd} /\ UNCHANGED <<pipeline, acks, delivered>>
    BY <1>4 DEF RelTop
  <2>2. CASE endAcks' = endAcks
    BY <1>2, <1>3, <2>1, <2>2
  <2>3. CASE endAcks' # endAcks
    <3>1. pendingEnd # None /\ asm.cursor > pendingEnd /\ pc["reliable"] = "top"
      BY <1>4, <2>3 DEF RelTop
    <3>2. out["reliable"] = << >> /\ Len(<< >>) = 0
      BY <3>1 DEF SurfacedInv
    <3>3. asm.cursor <= Len(D) + 0 /\ asm.cursor \in Int /\ FinalSeq \in Int
      BY <1>0, <3>2, AssemblerAssumption DEF SurfacedInv, TypeOK, AsmType, SeqNum
    <3>4. Len(D) > FinalSeq
      BY <1>0, <1>2, <3>1, <3>3
    <3>5. Len(D) >= NumSeqs
      <4>1. CASE NumSeqs > 0
        BY <1>0, <3>3, <3>4, <4>1, FinalIs
      <4>2. CASE ~(NumSeqs > 0)
        BY <1>0, <4>2
      <4> QED BY <4>1, <4>2
    <3> QED BY <1>2, <2>1, <3>5 DEF AckMeansSurfaced
  <2> QED BY <2>2, <2>3
<1>5. CASE RelCommand
  <2>1. /\ pipeline # << >> /\ pendingEnd' = Head(pipeline)
        /\ pipeline' = Tail(pipeline) /\ UNCHANGED <<endAcks, acks>>
    BY <1>5 DEF RelCommand, taskVars
  <2>2. 1 \in DOMAIN pipeline /\ Head(pipeline) = pipeline[1]
    BY <1>0, <2>1
  <2>3. \A i \in DOMAIN pipeline' :
          i + 1 \in DOMAIN pipeline /\ pipeline'[i] = pipeline[i + 1]
    BY <1>0, <2>1
  <2>4. Waits'
    BY <1>2, <2>1, <2>2, <2>3
  <2> QED BY <1>3, <2>1, <2>4
<1>6. CASE TaskForward
  <2>1. pipeline' = << FinalSeq >> /\ UNCHANGED <<pendingEnd, endAcks, acks>>
    BY <1>6 DEF TaskForward
  <2>2. Waits'
    BY <1>2, <2>1
  <2> QED BY <1>3, <2>1, <2>2
<1>7. CASE TaskSendAck
  <2>1. /\ UNCHANGED <<pendingEnd, pipeline>>
        /\ endAcks > 0 /\ endAcks' = endAcks - 1 /\ acks' = acks + 1
    BY <1>7 DEF TaskSendAck, relVars
  <2>2. acks' + endAcks' = acks + endAcks
    BY <1>0, <2>1
  <2> QED BY <1>2, <1>3, <2>1, <2>2
<1>8. CASE TaskTransferEnd
  <2>1. UNCHANGED <<pendingEnd, pipeline, endAcks>>
    BY <1>8 DEF TaskTransferEnd, relVars
  <2>2. CASE acks' = acks
    BY <1>2, <1>3, <2>1, <2>2
  <2>3. CASE acks' # acks
    <3>1. SeqAdd(FinalSeq, 1) = InitialSeq \/ ~Dual
      BY <1>8, <2>3 DEF TaskTransferEnd
    <3>2. ~Dual \/ NumSeqs = 0
      BY <1>0, <3>1, FinalIs
    <3> QED BY <1>0, <1>2, <2>1, <3>2 DEF AckMeansSurfaced
  <2> QED BY <2>2, <2>3
<1>9. CASE \/ /\ taskPc' = "exited" /\ endAcks' = 0
              /\ UNCHANGED <<pipeline, pendingEnd, acks>>
           \/ /\ UNCHANGED <<endAcks, owed, taskPc, acks>>
              /\ \/ UNCHANGED <<pipeline, pendingEnd>>
                 \/ pipeline' = << >> /\ pendingEnd' = None
  <2>1. acks' = acks /\ endAcks' \in {endAcks, 0}
    BY <1>9
  <2>2. \/ UNCHANGED <<pipeline, pendingEnd>>
        \/ pipeline' = << >> /\ pendingEnd' = None
    BY <1>9
  <2>3. Waits'
    BY <1>2, <2>2
  <2>4. acks' + endAcks' > 0 => acks + endAcks > 0
    <3>1. endAcks \in Nat /\ acks \in Nat
      BY <1>0
    <3>2. CASE endAcks' = endAcks
      BY <2>1, <3>2
    <3>3. CASE endAcks' = 0
      BY ONLY <2>1, <3>1, <3>3
    <3> QED BY <2>1, <3>2, <3>3
  <2> QED BY <1>3, <2>3, <2>4
<1> QED BY <1>4, <1>5, <1>6, <1>7, <1>8, <1>9, AckFrame

LEMMA SurfacedInit == Init => SurfacedInv
<1> SUFFICES ASSUME Init PROVE SurfacedInv
  OBVIOUS
<1>1. /\ asm.cursor = 0 /\ pendingEnd = None /\ pipeline = << >>
      /\ delivered["reliable"] = << >> /\ out["reliable"] = << >>
      /\ acks = 0 /\ endAcks = 0
  BY DEF Init, NewAssembler, Sinks
<1>2. Len(<< >>) = 0 /\ DOMAIN << >> = {} /\ 0 <= 0 + 0 /\ ~(0 + 0 > 0)
  OBVIOUS
<1> QED BY ONLY <1>1, <1>2 DEF SurfacedInv, AckMeansSurfaced

\* A TransferEnd is acknowledged only after recv() returned every chunk that
\* was sent, however the peer repeats it and whatever the network does; a
\* cancelled recv() may take chunks down with it, and a final sequence number
\* beyond the last SequenceNumber would come out as a small one.
THEOREM AcksFollowDelivery ==
    ASSUME "reliable" \notin MayCancel, InitialSeq + NumSeqs <= SeqModulus
    PROVE  Spec => []AckMeansSurfaced
<1>1. TypeOK /\ SurfacedInv /\ [Next]_vars => SurfacedInv'
  BY SurfacedStep
<1>2. SurfacedInv => AckMeansSurfaced
  BY DEF SurfacedInv
<1> QED BY <1>1, <1>2, SurfacedInit, TypeCorrect, PTL DEF Spec
=============================================================================
