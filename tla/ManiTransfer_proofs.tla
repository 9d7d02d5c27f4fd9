------------------------ MODULE ManiTransfer_proofs ------------------------
(****************************************************************************)
(* Proofs about ManiTransfer, one transfer end to end, for every length,    *)
(* fragment count, window and buffer size, and for every loss, overtaking,  *)
(* retransmission, drop, cancellation and failure the model knows.          *)
(*                                                                          *)
(* What RecvStreams_proofs shows of the receiving half carries over: every  *)
(* step of the transfer is a step of it, or leaves it alone.                *)
(****************************************************************************)
EXTENDS ManiTransfer, RecvStreams_proofs, FiniteSetTheorems, FunctionTheorems

-----------------------------------------------------------------------------
(* Type correctness                                                         *)

OwnDatagram == [seq : Seqs, frag : 1 .. Frags]

\* The control messages either way.
ToReceiver ==
    [kind : {"transferEnd", "creditsRequest"}, seqs : {{}}, n : {0}] \cup
    [kind : {"retrans"}, seqs : {{s} : s \in Seqs}, n : 1 .. Frags]

ToSender ==
    [kind : {"nack", "endAck"}, seqs : SUBSET SeqNum, n : {0}] \cup
    [kind : {"credits"}, seqs : {{}}, n : Nat]

\* What the sink's commands carry besides their types.
OwnCommand ==
    [kind : {"nack"}, seqs : SUBSET SeqNum, credits : {0}] \cup
    [kind : {"credits"}, seqs : {{}}, credits : Nat]

SenderTypes ==
    /\ sPc \in {"idle", "crediting", "ending", "ended", "failed"}
    /\ need \in 0 .. Frags
    /\ sent \in 0 .. NumSeqs
    /\ nextSeq = SeqAdd(InitialSeq, sent)
    /\ sPc = "crediting" => sent < NumSeqs
    /\ bank \in Nat
    /\ bankOpen \in BOOLEAN
    /\ buf \subseteq Seqs
    /\ endCmd \in Nat
    /\ ackWanted \in BOOLEAN
    /\ endResult \in {"none", "ok", "timeout"}
    /\ requests \in 0 .. MaxRequests

WireTypes ==
    /\ toRecv \in Seq(ToReceiver)
    /\ toSend \in Seq(ToSender)
    /\ net \in Seq(OwnDatagram)
    /\ losses \in 0 .. MaxLosses

PipeTypes ==
    /\ dgCh \in Seq(OwnDatagram)
    /\ DOMAIN groups \subseteq Seqs
    /\ \A s \in DOMAIN groups : groups[s] \subseteq 1 .. Frags

\* The inductive form of TransferTypeOK: nothing is on the wire but what this
\* transfer sent.
TransferTypes ==
    /\ TypeOK
    /\ scCh \in Seq(OwnCommand)
    /\ SenderTypes
    /\ WireTypes
    /\ PipeTypes

-----------------------------------------------------------------------------
(* Sequences                                                                *)

LEMMA RemoveAtType ==
    ASSUME NEW S, NEW q \in Seq(S), NEW i \in DOMAIN q
    PROVE  RemoveAt(q, i) \in Seq(S) /\ q[i] \in S
<1>1. q[i] \in S /\ i \in 1 .. Len(q) /\ Len(q) \in Nat
  OBVIOUS
<1>2. SubSeq(q, 1, i - 1) \in Seq(S)
  BY <1>1
<1>3. SubSeq(q, i + 1, Len(q)) \in Seq(S)
  BY <1>1
<1> QED BY <1>1, <1>2, <1>3 DEF RemoveAt

LEMMA SeqTypes ==
    ASSUME NEW S, NEW q \in Seq(S)
    PROVE  /\ q # << >> => Head(q) \in S /\ Tail(q) \in Seq(S)
           /\ \A x \in S : Append(q, x) \in Seq(S)
           /\ \A r \in Seq(S) : q \o r \in Seq(S)
  OBVIOUS

LEMMA FragmentIndex ==
    ASSUME NEW n \in Nat, NEW i \in 1 .. n * Frags
    PROVE  /\ ((i - 1) \div Frags) + 1 \in 1 .. n
           /\ ((i - 1) % Frags) + 1 \in 1 .. Frags
<1>1. Frags \in Nat \ {0}
  BY TransferAssumption
<1>2. ((i - 1) \div Frags) + 1 \in 1 .. n
  BY <1>1
<1>3. i - 1 \in Nat
  BY <1>1
<1>4. ((i - 1) % Frags) + 1 \in 1 .. Frags
  BY <1>1, <1>3
<1> QED BY <1>2, <1>4

\* The answer to a NACK holds nothing but retransmissions of this transfer.
LEMMA RetransType ==
    ASSUME NEW wanted \in SUBSET Seqs, NEW n \in Nat,
           NEW chunks \in [1 .. n -> wanted]
    PROVE  /\ Retrans(chunks) \in Seq(ToReceiver)
           /\ \A i \in DOMAIN Retrans(chunks) : Retrans(chunks)[i].kind = "retrans"
<1>1. chunks \in Seq(Seqs) /\ Len(chunks) = n
  OBVIOUS
<1> DEFINE m == n * Frags
           msg(i) == Control("retrans", {chunks[((i - 1) \div Frags) + 1]},
                             ((i - 1) % Frags) + 1)
<1>2. m \in Nat
  BY TransferAssumption
<1>3. \A i \in 1 .. m : msg(i) \in ToReceiver /\ msg(i).kind = "retrans"
  <2> TAKE i \in 1 .. m
  <2>1. /\ ((i - 1) \div Frags) + 1 \in 1 .. n
        /\ ((i - 1) % Frags) + 1 \in 1 .. Frags
    BY FragmentIndex
  <2>2. chunks[((i - 1) \div Frags) + 1] \in Seqs
    BY <2>1
  <2> QED BY <2>1, <2>2 DEF Control, ToReceiver
<1>4. Retrans(chunks) = [i \in 1 .. m |-> msg(i)]
  BY <1>1 DEF Retrans
<1> HIDE DEF m, msg
<1> QED BY <1>2, <1>3, <1>4

-----------------------------------------------------------------------------
(* The receiving half                                                       *)

\* A step of the receiving half: one of RecvStreams, or the task's end.
HalfNext == Next \/ TaskExit

LEMMA HalfTypes ==
    ASSUME TypeOK, [HalfNext]_vars
    PROVE  TypeOK'
<1>1. CASE [Next]_vars
  BY <1>1, NextType
<1>2. CASE TaskExit
  <2>1. << >> \in Seq(CommandType)
    OBVIOUS
  <2> QED BY <1>2, <2>1 DEF TaskExit, TypeOK, sinkVars, relVars, netVars
<1> QED BY <1>1, <1>2 DEF HalfNext

LEMMA HalfCommands ==
    ASSUME TypeOK, scCh \in Seq(OwnCommand), [HalfNext]_vars
    PROVE  scCh' \in Seq(OwnCommand)
<1>1. << >> \in Seq(OwnCommand)
  OBVIOUS
<1>2. ASSUME NEW k \in Sinks PROVE Append(scCh, Credits(emission[k])) \in Seq(OwnCommand)
  BY DEF TypeOK, OwnCommand, Credits
<1>3. Append(scCh, Nack(MissingSeqs(asm))) \in Seq(OwnCommand)
  BY MissingType DEF TypeOK, OwnCommand, Nack
<1>4. CASE TaskExit
  BY <1>1, <1>4 DEF TaskExit
<1>5. ASSUME NEW k \in Sinks,
             Record(k) \/ RecordSend(k) \/ MarkClosed(k) \/ MarkClosedSend(k) \/ Cancel(k)
      PROVE  scCh' \in Seq(OwnCommand)
  BY <1>2, <1>5 DEF Record, RecordSend, MarkClosed, MarkClosedSend, Cancel, SendToTask
<1>6. CASE RelNack
  BY <1>3, <1>6 DEF RelNack, SendToTask
<1>7. CASE TaskSenderCommand
  BY <1>7, SeqTypes DEF TaskSenderCommand
<1>8. CASE QuietStep
  BY <1>8 DEF QuietStep
<1> QED BY <1>4, <1>5, <1>6, <1>7, <1>8, CreditFrame DEF HalfNext

\* A step of the receiving half that nothing outside it sees.
InsideStep == Inside([HalfNext]_vars /\ UNCHANGED <<granted, acks, chOpen>>)

LEMMA NoGrants ==
    /\ \A k \in Sinks :
         SinkStep(k) \/ AppDrop(k) \/ Cancel(k) => UNCHANGED <<granted, acks, chOpen>>
    /\ ReliableStep \/ UnreliableStep => UNCHANGED <<granted, acks, chOpen>>
    /\ Route \/ TaskForward \/ TaskForwardFails \/ TaskExit
         => UNCHANGED <<granted, acks, chOpen>>
    /\ \A s : Decode(s) => UNCHANGED <<granted, acks, chOpen>>
<1> USE DEF taskVars, netVars
<1>1. ASSUME NEW k \in Sinks, SinkStep(k) \/ AppDrop(k) \/ Cancel(k)
      PROVE  UNCHANGED <<granted, acks, chOpen>>
  BY <1>1 DEF SinkStep, Call, ChannelClosed, Record, RecordSend, MarkClosed,
     MarkClosedSend, DrainOne, DrainEnd, AppDrop, Cancel
<1>2. CASE ReliableStep \/ UnreliableStep
  BY <1>2 DEF ReliableStep, RelTop, RelNotified, RelCommand, RelPacket, RelNack,
     RelRead, UnreliableStep, UnrelTop, UnrelWait, UnrelNotified, UnrelPacket
<1>3. Route \/ TaskForward \/ TaskForwardFails \/ TaskExit
         => UNCHANGED <<granted, acks, chOpen>>
  BY DEF Route, TaskForward, TaskForwardFails, TaskExit
<1>4. \A s : Decode(s) => UNCHANGED <<granted, acks, chOpen>>
  BY DEF Decode
<1> QED BY <1>1, <1>2, <1>3, <1>4

LEMMA InsideSteps ==
    RTaskHandleDropped \/ RTaskPeerClosed \/ SinksNext
      \/ Inside(TaskForward) \/ Inside(TaskForwardFails) \/ Inside(Route)
      => InsideStep
<1> USE DEF Inside, InsideStep
<1>1. CASE RTaskHandleDropped
  BY <1>1, NoGrants DEF RTaskHandleDropped, HalfNext
<1>2. CASE RTaskPeerClosed
  BY <1>2, NoGrants DEF RTaskPeerClosed, PeerCloses, HalfNext
<1>3. CASE SinksNext
  BY <1>3, NoGrants DEF SinksNext, HalfNext, Next, Environment
<1>4. CASE Inside(TaskForward) \/ Inside(TaskForwardFails) \/ Inside(Route)
  BY <1>4, NoGrants DEF HalfNext, Next, TaskStep
<1> QED BY <1>1, <1>2, <1>3, <1>4

\* Every step of the transfer, the same for all that follows.
LEMMA TransferSteps ==
    ASSUME [TransferNext]_tvars
    PROVE  \/ SenderNext
           \/ STaskEndTransfer \/ STaskRequestTick \/ STaskNack
           \/ STaskCreditsUpdate \/ STaskEndAck \/ STaskExit
           \/ RTaskTransferEnd \/ RTaskRetrans \/ RTaskCreditsRequest
           \/ RTaskSendAck \/ RTaskSenderCommand
           \/ LoseDatagram \/ RouteDatagram \/ DecodeDatagram
           \/ InsideStep
<1>1. CASE UNCHANGED tvars
  BY <1>1 DEF tvars, InsideStep, Inside, vars, taskVars, netVars
<1>2. STaskPeerClosed \/ STaskHandleDropped => STaskExit
  BY DEF STaskPeerClosed, STaskHandleDropped
<1> QED BY <1>1, <1>2, InsideSteps
        DEF TransferNext, STaskNext, RTaskNext, PipeNext

-----------------------------------------------------------------------------
(* Every step keeps the types                                               *)

LEMMA TransferInitTypes == TransferInit => TransferTypes
<1> SUFFICES ASSUME TransferInit PROVE TransferTypes
  OBVIOUS
<1>1. TypeOK /\ scCh = << >>
  BY InitType DEF TransferInit, Init
<1>2. << >> \in Seq(OwnCommand) /\ << >> \in Seq(ToReceiver)
      /\ << >> \in Seq(ToSender) /\ << >> \in Seq(OwnDatagram)
  OBVIOUS
<1>3. SeqAdd(InitialSeq, 0) = InitialSeq
  <2>1. InitialSeq \in 0 .. (SeqModulus - 1) /\ SeqModulus \in Nat \ {0}
    BY RecvAssumption, AssemblerAssumption DEF SeqNum
  <2>2. InitialSeq % SeqModulus = InitialSeq
    BY <2>1, ModIdentity
  <2>3. InitialSeq + 0 = InitialSeq
    BY <2>1
  <2> QED BY <2>2, <2>3 DEF SeqAdd
<1>4. SenderTypes
  <2>1. /\ 0 \in 0 .. Frags /\ 0 \in 0 .. NumSeqs /\ 0 \in 0 .. MaxRequests
        /\ InitialCredits \in Nat
    BY TransferAssumption, RecvAssumption
  <2>2. /\ sPc = "idle" /\ need = 0 /\ nextSeq = InitialSeq /\ sent = 0
        /\ bank = InitialCredits /\ bankOpen = TRUE /\ buf = {} /\ endCmd = 0
        /\ ackWanted = FALSE /\ endResult = "none" /\ requests = 0
    BY DEF TransferInit
  <2> QED BY <1>3, <2>1, <2>2 DEF SenderTypes
<1>5. WireTypes
  BY <1>2, TransferAssumption DEF TransferInit, WireTypes
<1>6. PipeTypes
  BY <1>2 DEF TransferInit, PipeTypes
<1> QED BY <1>1, <1>2, <1>4, <1>5, <1>6 DEF TransferTypes

LEMMA ModRemainder ==
    ASSUME NEW m \in Nat \ {0}, NEW q \in Int, NEW y \in 0 .. (m - 1)
    PROVE  (m * q + y) % m = y
  OBVIOUS

LEMMA ModSuccessor ==
    ASSUME NEW m \in Nat \ {0}, NEW x \in Nat
    PROVE  ((x % m) + 1) % m = (x + 1) % m
<1> DEFINE r == x % m
           q == x \div m
<1>1. x = m * q + r /\ r \in 0 .. (m - 1) /\ q \in Int
  OBVIOUS
<1> HIDE DEF r, q
<1>2. CASE r + 1 < m
  <2>1. x + 1 = m * q + (r + 1) /\ r + 1 \in 0 .. (m - 1)
    BY <1>1, <1>2
  <2>2. (m * q + (r + 1)) % m = r + 1
    BY <1>1, <2>1, ModRemainder
  <2>3. (r + 1) % m = r + 1
    BY <2>1, ModIdentity
  <2> QED BY <2>1, <2>2, <2>3 DEF r
<1>3. CASE r + 1 = m
  <2>1. x + 1 = m * (q + 1) + 0 /\ 0 \in 0 .. (m - 1) /\ q + 1 \in Int
    BY <1>1, <1>3
  <2>2. (m * (q + 1) + 0) % m = 0
    BY <1>1, <2>1, ModRemainder
  <2>3. m % m = 0
    OBVIOUS
  <2> QED BY <1>3, <2>1, <2>2, <2>3 DEF r
<1> QED BY <1>1, <1>2, <1>3

\* The chunk a send() is about is one of the transfer.
LEMMA NextChunk ==
    ASSUME NEW i \in 0 .. (NumSeqs - 1)
    PROVE  /\ SeqAdd(InitialSeq, i) \in Seqs
           /\ SeqAdd(SeqAdd(InitialSeq, i), 1) = SeqAdd(InitialSeq, i + 1)
<1>1. SeqAdd(InitialSeq, i) \in Seqs
  BY DEF Seqs
<1>2. /\ InitialSeq \in Nat /\ i \in Nat /\ SeqModulus \in Nat \ {0}
  BY RecvAssumption, AssemblerAssumption DEF SeqNum
<1> DEFINE x == InitialSeq + i
<1>3. x \in Nat /\ InitialSeq + (i + 1) = x + 1
  BY <1>2
<1> HIDE DEF x
<1>4. ((x % SeqModulus) + 1) % SeqModulus = (x + 1) % SeqModulus
  BY <1>2, <1>3, ModSuccessor
<1> QED BY <1>1, <1>3, <1>4 DEF SeqAdd, x

LEMMA SenderKeepsTypes ==
    ASSUME TransferTypes, SenderNext
    PROVE  TransferTypes'
<1> USE DEF TransferTypes
<1>0. Frags \in Nat \ {0} /\ NumSeqs \in Nat
  BY TransferAssumption, RecvAssumption
<1>1. ASSUME UNCHANGED <<vars, wireVars, pipeVars>>, SenderTypes'
      PROVE  TransferTypes'
  <2>1. TypeOK' /\ scCh' = scCh
    BY <1>1, HalfTypes DEF vars
  <2> QED BY <1>1, <2>1 DEF WireTypes, PipeTypes, wireVars, pipeVars
<1>2. CASE SendCall
  BY <1>0, <1>1, <1>2 DEF SendCall, SenderTypes
<1>3. CASE TakeCredit
  BY <1>0, <1>1, <1>3 DEF TakeCredit, SenderTypes
<1>4. CASE SenderRefused
  BY <1>1, <1>4 DEF SenderRefused, SenderTypes
<1>5. CASE Transmit
  <2>1. sPc = "crediting" /\ sent < NumSeqs /\ sent \in 0 .. (NumSeqs - 1)
    BY <1>0, <1>5 DEF Transmit, SenderTypes
  <2>2. nextSeq \in Seqs /\ SeqAdd(nextSeq, 1) = SeqAdd(InitialSeq, sent + 1)
    BY <2>1, NextChunk DEF SenderTypes
  <2> DEFINE new == [f \in 1 .. Frags |-> Datagram(nextSeq, f)]
  <2>3. new \in Seq(OwnDatagram)
    BY <1>0, <2>2 DEF Datagram, OwnDatagram
  <2>4. WireTypes'
    <3>1. /\ net' = net \o new /\ UNCHANGED <<toRecv, toSend, losses>>
          /\ net \in Seq(OwnDatagram)
      BY <1>5 DEF Transmit, WireTypes
    <3> HIDE DEF new
    <3>2. net' \in Seq(OwnDatagram)
      BY <2>3, <3>1, SeqTypes
    <3> QED BY <3>1, <3>2 DEF WireTypes
  <2>5. buf' \subseteq Seqs
    BY <1>5, <2>2 DEF Transmit, Evicted, SenderTypes
  <2>6. SenderTypes'
    BY <1>0, <1>5, <2>1, <2>2, <2>5 DEF Transmit, SenderTypes
  <2>7. TypeOK' /\ scCh' = scCh /\ PipeTypes'
    BY <1>5, HalfTypes DEF Transmit, vars, pipeVars, PipeTypes
  <2> QED BY <2>4, <2>6, <2>7
<1>6. CASE EndCall
  BY <1>1, <1>6 DEF EndCall, SenderTypes
<1>7. CASE AckTimeout
  BY <1>1, <1>7 DEF AckTimeout, SenderTypes
<1> QED BY <1>2, <1>3, <1>4, <1>5, <1>6, <1>7 DEF SenderNext

LEMMA SeqsFinite == IsFiniteSet(Seqs)
<1>1. Seqs \subseteq 0 .. (SeqModulus - 1)
  BY SeqsType DEF SeqNum
<1>2. IsFiniteSet(0 .. (SeqModulus - 1))
  BY AssemblerAssumption, FS_Interval
<1> QED BY <1>1, <1>2, FS_Subset

\* The sending task's steps: they leave the receiving half alone.
LEMMA SendingTaskKeepsTypes ==
    ASSUME TransferTypes,
           \/ STaskEndTransfer \/ STaskRequestTick \/ STaskNack
           \/ STaskCreditsUpdate \/ STaskEndAck \/ STaskExit
    PROVE  TransferTypes'
<1> USE DEF TransferTypes
<1>0. MaxRequests \in Nat /\ toRecv \in Seq(ToReceiver) /\ toSend \in Seq(ToSender)
  BY TransferAssumption DEF WireTypes
<1>1. ASSUME UNCHANGED <<vars, pipeVars>>, SenderTypes', WireTypes'
      PROVE  TransferTypes'
  <2>1. TypeOK' /\ scCh' = scCh
    BY <1>1, HalfTypes DEF vars
  <2> QED BY <1>1, <2>1 DEF PipeTypes, pipeVars
<1>2. \A c \in {"transferEnd", "creditsRequest"} : Control(c, {}, 0) \in ToReceiver
  BY DEF Control, ToReceiver
<1>3. ASSUME toSend # << >>
      PROVE  Head(toSend) \in ToSender /\ Tail(toSend) \in Seq(ToSender)
  BY <1>0, <1>3, SeqTypes
<1>4. CASE STaskEndTransfer
  <2>1. toRecv' \in Seq(ToReceiver)
    BY <1>0, <1>2, <1>4, SeqTypes DEF STaskEndTransfer
  <2> QED BY <1>1, <1>4, <2>1 DEF STaskEndTransfer, SenderTypes, WireTypes
<1>5. CASE STaskRequestTick
  <2>1. toRecv' \in Seq(ToReceiver)
    BY <1>0, <1>2, <1>5, SeqTypes DEF STaskRequestTick
  <2>2. requests' \in 0 .. MaxRequests
    BY <1>0, <1>5 DEF STaskRequestTick, SenderTypes
  <2> QED BY <1>1, <1>5, <2>1, <2>2 DEF STaskRequestTick, SenderTypes, WireTypes
<1>6. CASE STaskNack
  <2> DEFINE wanted == Head(toSend).seqs \cap buf
  <2>1. toSend # << >> /\ toSend' = Tail(toSend)
    BY <1>6 DEF STaskNack, Received
  <2>2. PICK chunks \in [1 .. Cardinality(wanted) -> wanted] :
          toRecv' = toRecv \o Retrans(chunks)
    BY <1>6 DEF STaskNack
  <2>3. wanted \in SUBSET Seqs /\ IsFiniteSet(Seqs)
    BY SeqsFinite DEF SenderTypes
  <2>4. Cardinality(wanted) \in Nat
    BY <2>3, FS_Subset, FS_CardinalityType
  <2>5. Retrans(chunks) \in Seq(ToReceiver)
    <3> HIDE DEF wanted
    <3> QED BY <2>2, <2>3, <2>4, RetransType
  <2>6. toRecv' \in Seq(ToReceiver)
    BY <1>0, <2>2, <2>5, SeqTypes
  <2>7. toSend' \in Seq(ToSender)
    BY <1>3, <2>1
  <2> QED BY <1>1, <1>6, <2>6, <2>7 DEF STaskNack, sendVars, SenderTypes, WireTypes
<1>7. CASE STaskCreditsUpdate
  <2>1. toSend # << >> /\ toSend' = Tail(toSend)
    BY <1>7 DEF STaskCreditsUpdate, Received
  <2>2. Head(toSend).n \in Nat
    BY <1>3, <2>1 DEF ToSender
  <2> QED BY <1>1, <1>3, <1>7, <2>1, <2>2
          DEF STaskCreditsUpdate, SenderTypes, WireTypes
<1>8. CASE STaskEndAck
  BY <1>1, <1>3, <1>8 DEF STaskEndAck, Received, SenderTypes, WireTypes
<1>9. CASE STaskExit
  BY <1>1, <1>9 DEF STaskExit, wireVars, SenderTypes, WireTypes
<1> QED BY <1>4, <1>5, <1>6, <1>7, <1>8, <1>9

\* The receiving task's steps.
LEMMA ReceivingTaskKeepsTypes ==
    ASSUME TransferTypes,
           \/ RTaskTransferEnd \/ RTaskRetrans \/ RTaskCreditsRequest
           \/ RTaskSendAck \/ RTaskSenderCommand
    PROVE  TransferTypes'
<1> USE DEF TransferTypes
<1>0. /\ toRecv \in Seq(ToReceiver) /\ toSend \in Seq(ToSender)
      /\ Bulk \in Nat
  BY CoordinatorAssumption DEF WireTypes
<1>1. ASSUME [HalfNext]_vars, UNCHANGED sendVars, WireTypes', PipeTypes'
      PROVE  TransferTypes'
  <2>1. TypeOK' /\ scCh' \in Seq(OwnCommand)
    BY <1>1, HalfTypes, HalfCommands
  <2> QED BY <1>1, <2>1 DEF SenderTypes, sendVars
<1>2. ASSUME toRecv # << >>
      PROVE  Head(toRecv) \in ToReceiver /\ Tail(toRecv) \in Seq(ToReceiver)
  BY <1>0, <1>2, SeqTypes
<1>3. \A m \in ToSender : Append(toSend, m) \in Seq(ToSender)
  BY <1>0, SeqTypes
<1>4. Control("endAck", {}, 0) \in ToSender /\ Control("credits", {}, Bulk) \in ToSender
  BY <1>0 DEF Control, ToSender
<1>5. CASE RTaskTransferEnd
  <2>1. toSend' \in Seq(ToSender)
    BY <1>0, <1>3, <1>4, <1>5 DEF RTaskTransferEnd
  <2>2. WireTypes'
    BY <1>2, <1>5, <2>1 DEF RTaskTransferEnd, Incoming, WireTypes
  <2> QED BY <1>1, <1>5, <2>2
          DEF RTaskTransferEnd, HalfNext, Next, Environment, PipeTypes, pipeVars
<1>6. CASE RTaskRetrans
  <2>1. /\ toRecv # << >> /\ Head(toRecv).kind = "retrans"
        /\ toRecv' = Tail(toRecv) /\ UNCHANGED <<vars, sendVars, toSend, net, losses, groups>>
    BY <1>6 DEF RTaskRetrans, Incoming
  <2>2. PICK s \in Seqs : Head(toRecv).seqs = {s} /\ Head(toRecv).n \in 1 .. Frags
    BY <1>2, <2>1 DEF ToReceiver
  <2>3. (CHOOSE c \in Head(toRecv).seqs : TRUE) = s
    BY <2>2
  <2>4. dgCh' = dgCh \/ dgCh' = Append(dgCh, Datagram(s, Head(toRecv).n))
    BY <1>6, <2>3 DEF RTaskRetrans
  <2>5. Datagram(s, Head(toRecv).n) \in OwnDatagram
    BY <2>2 DEF Datagram, OwnDatagram
  <2>6. dgCh' \in Seq(OwnDatagram)
    BY <2>4, <2>5, SeqTypes DEF PipeTypes
  <2>7. WireTypes' /\ PipeTypes'
    BY <1>2, <2>1, <2>6 DEF WireTypes, PipeTypes
  <2> QED BY <1>1, <2>1, <2>7
<1>7. CASE RTaskCreditsRequest
  <2>1. WireTypes'
    BY <1>2, <1>3, <1>4, <1>7 DEF RTaskCreditsRequest, Incoming, WireTypes
  <2> QED BY <1>1, <1>7, <2>1 DEF RTaskCreditsRequest, PipeTypes, pipeVars
<1>8. CASE RTaskSendAck
  <2>1. WireTypes'
    BY <1>3, <1>4, <1>8 DEF RTaskSendAck, WireTypes
  <2> QED BY <1>1, <1>8, <2>1
          DEF RTaskSendAck, HalfNext, Next, TaskStep, PipeTypes, pipeVars
<1>9. CASE RTaskSenderCommand
  <2>1. scCh # << >>
    BY <1>9 DEF RTaskSenderCommand, TaskSenderCommand
  <2>2. Head(scCh) \in OwnCommand
    BY <2>1, SeqTypes
  <2>3. Control(Head(scCh).kind, Head(scCh).seqs, Head(scCh).credits) \in ToSender
    BY <2>2 DEF Control, OwnCommand, ToSender
  <2>4. WireTypes'
    BY <1>3, <1>9, <2>3 DEF RTaskSenderCommand, WireTypes
  <2> QED BY <1>1, <1>9, <2>4
          DEF RTaskSenderCommand, HalfNext, Next, TaskStep, PipeTypes, pipeVars
<1> QED BY <1>5, <1>6, <1>7, <1>8, <1>9

\* The network's steps, and those of the receiving half on its own.
LEMMA PipeKeepsTypes ==
    ASSUME TransferTypes,
           LoseDatagram \/ RouteDatagram \/ DecodeDatagram \/ InsideStep
    PROVE  TransferTypes'
<1> USE DEF TransferTypes
<1>0. /\ net \in Seq(OwnDatagram) /\ dgCh \in Seq(OwnDatagram)
      /\ MaxLosses \in Nat
  BY TransferAssumption DEF WireTypes, PipeTypes
<1>1. ASSUME [HalfNext]_vars, UNCHANGED sendVars, WireTypes', PipeTypes'
      PROVE  TransferTypes'
  <2>1. TypeOK' /\ scCh' \in Seq(OwnCommand)
    BY <1>1, HalfTypes, HalfCommands
  <2> QED BY <1>1, <2>1 DEF SenderTypes, sendVars
<1>2. CASE LoseDatagram
  <2>1. PICK i \in DOMAIN net : net' = RemoveAt(net, i)
    BY <1>2 DEF LoseDatagram
  <2>2. net' \in Seq(OwnDatagram)
    BY <1>0, <2>1, RemoveAtType
  <2>3. losses' \in 0 .. MaxLosses
    BY <1>0, <1>2 DEF LoseDatagram, WireTypes
  <2> QED BY <1>1, <1>2, <2>2, <2>3 DEF LoseDatagram, WireTypes, PipeTypes, pipeVars
<1>3. CASE RouteDatagram
  <2>1. PICK i \in DOMAIN net :
          net' = RemoveAt(net, i) /\ dgCh' = Append(dgCh, net[i])
    BY <1>3 DEF RouteDatagram
  <2>2. net' \in Seq(OwnDatagram) /\ net[i] \in OwnDatagram
    BY <1>0, <2>1, RemoveAtType
  <2>3. dgCh' \in Seq(OwnDatagram)
    BY <1>0, <2>1, <2>2, SeqTypes
  <2> QED BY <1>1, <1>3, <2>2, <2>3 DEF RouteDatagram, WireTypes, PipeTypes
<1>4. CASE DecodeDatagram
  <2> DEFINE d == Head(dgCh)
             with == GroupsWith(d.seq, d.frag)
  <2>1. /\ dgCh # << >> /\ dgCh' = Tail(dgCh)
        /\ UNCHANGED <<sendVars, wireVars>>
    BY <1>4 DEF DecodeDatagram
  <2>2. d \in OwnDatagram /\ dgCh' \in Seq(OwnDatagram)
    BY <1>0, <2>1, SeqTypes
  <2>3. d.seq \in Seqs /\ d.frag \in 1 .. Frags
    BY <2>2 DEF OwnDatagram
  <2>4. /\ DOMAIN with \subseteq Seqs
        /\ \A s \in DOMAIN with : with[s] \subseteq 1 .. Frags
    <3> DEFINE kept == IF d.seq \notin DOMAIN groups
                            /\ Cardinality(DOMAIN groups) >= MaxGroups
                            /\ DOMAIN groups # {}
                       THEN DOMAIN groups \ {Min(DOMAIN groups)}
                       ELSE DOMAIN groups
               after(g) == (IF g \in DOMAIN groups THEN groups[g] ELSE {}) \cup
                           (IF g = d.seq THEN {d.frag} ELSE {})
    <3>1. with = [g \in kept \cup {d.seq} |-> after(g)]
      BY DEF GroupsWith
    <3>2. kept \subseteq DOMAIN groups
      OBVIOUS
    <3>3. \A g : after(g) \subseteq 1 .. Frags
      BY <2>3 DEF PipeTypes
    <3>4. kept \cup {d.seq} \subseteq Seqs
      BY <2>3, <3>2 DEF PipeTypes
    <3> HIDE DEF kept, after, with, d
    <3> QED BY <3>1, <3>3, <3>4
  <2>5. \/ groups' = [g \in DOMAIN with \ {d.seq} |-> with[g]] /\ Decode(d.seq)
        \/ groups' = with /\ UNCHANGED vars
    BY <1>4 DEF DecodeDatagram
  <2>6. /\ DOMAIN groups' \subseteq Seqs
        /\ \A s \in DOMAIN groups' : groups'[s] \subseteq 1 .. Frags
    <3> HIDE DEF with
    <3> QED BY <2>4, <2>5
  <2>7. [HalfNext]_vars
    BY <2>3, <2>5 DEF HalfNext, Next, Environment
  <2>8. WireTypes' /\ PipeTypes'
    BY <2>1, <2>2, <2>6 DEF WireTypes, PipeTypes, wireVars
  <2> QED BY <1>1, <2>1, <2>7, <2>8
<1>5. CASE InsideStep
  BY <1>1, <1>5 DEF InsideStep, Inside, WireTypes, PipeTypes, wireVars, pipeVars
<1> QED BY <1>2, <1>3, <1>4, <1>5

LEMMA TransferStepTypes ==
    ASSUME TransferTypes, [TransferNext]_tvars
    PROVE  TransferTypes'
  BY SenderKeepsTypes, SendingTaskKeepsTypes, ReceivingTaskKeepsTypes,
     PipeKeepsTypes, TransferSteps

LEMMA TransferTypesMean == TransferTypes => TransferTypeOK
<1> SUFFICES ASSUME TransferTypes PROVE TransferTypeOK
  OBVIOUS
<1>1. Seqs \subseteq SeqNum
  BY SeqsType
<1>2. nextSeq \in SeqNum
  <2>1. InitialSeq \in Int /\ sent \in Int
    BY RecvAssumption, AssemblerAssumption DEF SeqNum, TransferTypes, SenderTypes
  <2> QED BY <2>1, SeqArith DEF TransferTypes, SenderTypes
<1>3. ToReceiver \subseteq ControlType
  <2>1. \A s \in Seqs : {s} \subseteq SeqNum
    BY <1>1
  <2>2. 1 .. Frags \subseteq Nat /\ 0 \in Nat
    BY TransferAssumption
  <2> QED BY <2>1, <2>2 DEF ToReceiver, ControlType
<1>4. ToSender \subseteq ControlType
  BY DEF ToSender, ControlType
<1>5. OwnDatagram \subseteq DatagramType
  BY <1>1 DEF OwnDatagram, DatagramType
<1>6. toRecv \in Seq(ControlType) /\ toSend \in Seq(ControlType)
  BY <1>3, <1>4 DEF TransferTypes, WireTypes
<1>7. net \in Seq(DatagramType) /\ dgCh \in Seq(DatagramType)
  BY <1>5 DEF TransferTypes, WireTypes, PipeTypes
<1> QED BY <1>1, <1>2, <1>6, <1>7
        DEF TransferTypes, TransferTypeOK, SenderTypes, WireTypes, PipeTypes

\* Every variable of a transfer keeps its type, and every datagram and every
\* retransmission on the wire carries a chunk the sender was asked to send.
THEOREM TransferTypeCorrect == TransferSpec => []TransferTypeOK
  BY TransferInitTypes, TransferStepTypes, TransferTypesMean, PTL DEF TransferSpec
-----------------------------------------------------------------------------
(* The receiving half keeps its invariants                                  *)

LEMMA HalfOfTransfer ==
    ASSUME TransferTypes, [TransferNext]_tvars
    PROVE  [HalfNext]_vars
<1>1. CASE DecodeDatagram
  <2> DEFINE d == Head(dgCh)
  <2>1. dgCh # << >> /\ dgCh \in Seq(OwnDatagram)
    BY <1>1 DEF DecodeDatagram, TransferTypes, PipeTypes
  <2>2. d \in OwnDatagram
    BY <2>1, SeqTypes
  <2>3. d.seq \in Seqs
    BY <2>2 DEF OwnDatagram
  <2>4. Decode(d.seq) \/ UNCHANGED vars
    BY <1>1 DEF DecodeDatagram
  <2> QED BY <2>3, <2>4 DEF HalfNext, Next, Environment
<1>2. CASE RTaskTransferEnd \/ RTaskRetrans \/ RTaskCreditsRequest
             \/ RTaskSendAck \/ RTaskSenderCommand
  BY <1>2 DEF RTaskTransferEnd, RTaskRetrans, RTaskCreditsRequest, RTaskSendAck,
     RTaskSenderCommand, HalfNext, Next, Environment, TaskStep
<1>3. CASE SenderNext
  BY <1>3 DEF SenderNext, SendCall, TakeCredit, SenderRefused, Transmit, EndCall,
     AckTimeout
<1>4. CASE STaskEndTransfer \/ STaskRequestTick \/ STaskNack
             \/ STaskCreditsUpdate \/ STaskEndAck \/ STaskExit
  BY <1>4 DEF STaskEndTransfer, STaskRequestTick, STaskNack, STaskCreditsUpdate,
     STaskEndAck, STaskExit
<1>5. CASE LoseDatagram \/ RouteDatagram \/ InsideStep
  BY <1>5 DEF LoseDatagram, RouteDatagram, InsideStep, Inside
<1> QED BY <1>1, <1>2, <1>3, <1>4, <1>5, TransferSteps

LEMMA HalfCover ==
    ASSUME TypeOK, CreditsFollowDrain, NoBatchWithheld, [HalfNext]_vars
    PROVE  CreditsFollowDrain' /\ NoBatchWithheld'
<1>1. TaskExit => CreditsFollowDrain' /\ NoBatchWithheld'
  BY DEF TaskExit, CreditsFollowDrain, NoBatchWithheld
<1> QED BY <1>1, CoverStep DEF HalfNext

LEMMA HalfCredits ==
    ASSUME TypeOK, CreditInv, [HalfNext]_vars
    PROVE  CreditInv'
  BY ExitKeepsCredits, CreditStep DEF HalfNext

LEMMA HalfSurfaced ==
    ASSUME TypeOK, SurfacedInv, [HalfNext]_vars, "reliable" \notin MayCancel,
           InitialSeq + NumSeqs <= SeqModulus
    PROVE  SurfacedInv'
<1>1. ASSUME TaskExit PROVE SurfacedInv'
  <2>1. /\ UNCHANGED <<asm, pendingEnd, pipeline, pc, out, delivered, acks>>
        /\ endAcks' = 0
    BY <1>1 DEF TaskExit, sinkVars, relVars
  <2>2. acks' + endAcks' > 0 => acks + endAcks > 0
    BY <2>1 DEF TypeOK
  <2> QED BY <2>1, <2>2 DEF SurfacedInv, AckMeansSurfaced
<1> QED BY <1>1, SurfacedStep DEF HalfNext

\* What holds of the coordinator and the credits in every transfer.
HalfInv == CreditsFollowDrain /\ NoBatchWithheld /\ CreditInv

LEMMA HalfStep ==
    ASSUME TransferTypes, HalfInv, [TransferNext]_tvars
    PROVE  HalfInv'
  BY HalfOfTransfer, HalfCover, HalfCredits DEF HalfInv, TransferTypes

LEMMA HalfInit == TransferInit => HalfInv
<1> SUFFICES ASSUME Init PROVE HalfInv
  BY DEF TransferInit
  <1> QED BY CoverInit, CreditInit DEF HalfInv
-----------------------------------------------------------------------------
(* No credit is lost or forged on the way to the bank                       *)

Asked(q) == {i \in DOMAIN q : q[i].kind = "creditsRequest"}

\* Moving a set of indices down by one keeps its size.
LEMMA ShiftedIndices ==
    ASSUME NEW I \in SUBSET Int, IsFiniteSet(I),
           NEW J \in SUBSET Int, \A j : j \in J <=> j \in Int /\ j + 1 \in I
    PROVE  IsFiniteSet(J) /\ Cardinality(J) = Cardinality(I)
<1> DEFINE f == [i \in I |-> i - 1]
<1>1. f \in [I -> J]
  OBVIOUS
<1>2. \A a, b \in I : f[a] = f[b] => a = b
  OBVIOUS
<1>3. \A j \in J : \E i \in I : f[i] = j
  <2> TAKE j \in J
  <2>1. j + 1 \in I /\ (j + 1) - 1 = j
    OBVIOUS
  <2> QED BY <2>1
<1>4. f \in Bijection(I, J)
  BY <1>1, <1>2, <1>3, Fun_IsBij
<1>5. ExistsBijection(I, J)
  BY <1>4 DEF ExistsBijection
<1> QED BY <1>5, FS_Bijection

\* The credits requests in the channel, message by message.
LEMMA AskedIs ==
    /\ Cardinality(Asked(<< >>)) = 0
    /\ \A q \in Seq(ToReceiver) :
         /\ Cardinality(Asked(q)) \in Nat
         /\ \A m \in ToReceiver :
              Cardinality(Asked(Append(q, m))) =
                Cardinality(Asked(q)) + IF m.kind = "creditsRequest" THEN 1 ELSE 0
         /\ \A r \in Seq(ToReceiver) :
              (\A i \in DOMAIN r : r[i].kind # "creditsRequest") =>
                Asked(q \o r) = Asked(q)
         /\ q # << >> =>
              Cardinality(Asked(q)) = Cardinality(Asked(Tail(q)))
                + IF Head(q).kind = "creditsRequest" THEN 1 ELSE 0
<1>1. Cardinality(Asked(<< >>)) = 0
  <2>1. Asked(<< >>) = {}
    BY DEF Asked
  <2> QED BY <2>1, FS_EmptySet
<1>2. ASSUME NEW q \in Seq(ToReceiver)
      PROVE  IsFiniteSet(Asked(q)) /\ Cardinality(Asked(q)) \in Nat
  <2>1. Asked(q) \subseteq 1 .. Len(q) /\ Len(q) \in Nat
    BY DEF Asked
  <2>2. IsFiniteSet(1 .. Len(q))
    BY <2>1, FS_Interval
  <2>3. IsFiniteSet(Asked(q))
    BY <2>1, <2>2, FS_Subset
  <2> QED BY <2>3, FS_CardinalityType
<1>3. ASSUME NEW q \in Seq(ToReceiver), NEW m \in ToReceiver
      PROVE  Cardinality(Asked(Append(q, m))) =
               Cardinality(Asked(q)) + IF m.kind = "creditsRequest" THEN 1 ELSE 0
  <2> DEFINE n == Len(q) + 1
  <2>1. /\ DOMAIN Append(q, m) = 1 .. n /\ DOMAIN q = 1 .. n - 1 /\ n \in Nat
        /\ Append(q, m)[n] = m /\ \A i \in 1 .. n - 1 : Append(q, m)[i] = q[i]
    OBVIOUS
  <2>2. n \notin Asked(q)
    BY <2>1 DEF Asked
  <2>3. Asked(Append(q, m)) =
          IF m.kind = "creditsRequest" THEN Asked(q) \cup {n} ELSE Asked(q)
    <3> HIDE DEF n
    <3>1. 1 .. n = (1 .. n - 1) \cup {n}
      BY <2>1
    <3> QED BY <2>1, <3>1 DEF Asked
  <2> HIDE DEF n
  <2>4. Cardinality(Asked(q) \cup {n}) = Cardinality(Asked(q)) + 1
    BY <1>2, <2>2, FS_AddElement
  <2> QED BY <1>2, <2>3, <2>4
<1>4. ASSUME NEW q \in Seq(ToReceiver), NEW r \in Seq(ToReceiver),
             \A i \in DOMAIN r : r[i].kind # "creditsRequest"
      PROVE  Asked(q \o r) = Asked(q)
  <2>1. /\ DOMAIN (q \o r) = 1 .. Len(q) + Len(r) /\ DOMAIN q = 1 .. Len(q)
        /\ Len(q) \in Nat /\ Len(r) \in Nat /\ DOMAIN r = 1 .. Len(r)
    OBVIOUS
  <2>2. \A i \in 1 .. Len(q) : (q \o r)[i] = q[i]
    OBVIOUS
  <2>3. ASSUME NEW i \in 1 .. Len(q) + Len(r), i \notin 1 .. Len(q)
        PROVE  (q \o r)[i] = r[i - Len(q)] /\ i - Len(q) \in DOMAIN r
    BY <2>1, <2>3
  <2>4. \A i \in 1 .. Len(q) + Len(r) :
          (q \o r)[i].kind = "creditsRequest" <=>
            i \in 1 .. Len(q) /\ q[i].kind = "creditsRequest"
    BY <1>4, <2>2, <2>3
  <2>5. 1 .. Len(q) \subseteq 1 .. Len(q) + Len(r)
    BY <2>1
  <2> QED BY <2>1, <2>4, <2>5 DEF Asked
<1>5. ASSUME NEW q \in Seq(ToReceiver), q # << >>
      PROVE  Cardinality(Asked(q)) = Cardinality(Asked(Tail(q)))
               + IF Head(q).kind = "creditsRequest" THEN 1 ELSE 0
  <2> DEFINE I == Asked(q) \ {1}
             J == Asked(Tail(q))
  <2>1. /\ Tail(q) \in Seq(ToReceiver) /\ Head(q) = q[1] /\ 1 \in DOMAIN q
        /\ \A i \in DOMAIN Tail(q) : Tail(q)[i] = q[i + 1]
        /\ \A i \in Int : i \in DOMAIN Tail(q) <=> i # 0 /\ i + 1 \in DOMAIN q
        /\ DOMAIN q \subseteq Int /\ DOMAIN Tail(q) \subseteq Int
    BY <1>5
  <2>2. I \in SUBSET Int /\ J \in SUBSET Int
    BY <2>1 DEF Asked
  <2>3. ASSUME NEW j PROVE j \in J <=> j \in Int /\ j + 1 \in I
    <3>1. CASE j \in Int
      <4>1. j \in J <=> j \in DOMAIN Tail(q) /\ q[j + 1].kind = "creditsRequest"
        BY <2>1 DEF Asked
      <4>2. j + 1 # 1 <=> j # 0
        BY <3>1
      <4> QED BY <2>1, <3>1, <4>1, <4>2 DEF Asked
    <3>2. CASE j \notin Int
      BY <2>2, <3>2
    <3> QED BY <3>1, <3>2
  <2>4. IsFiniteSet(I)
    BY <1>2, FS_RemoveElement
  <2>5. Cardinality(J) = Cardinality(I)
    <3> HIDE DEF I, J
    <3> QED BY <2>2, <2>3, <2>4, ShiftedIndices
  <2>6. 1 \in Asked(q) <=> Head(q).kind = "creditsRequest"
    BY <2>1 DEF Asked
  <2>7. Cardinality(I) = IF 1 \in Asked(q) THEN Cardinality(Asked(q)) - 1
                                           ELSE Cardinality(Asked(q))
    BY <1>2, FS_RemoveElement
  <2> HIDE DEF I, J
  <2>8. Cardinality(Asked(q)) \in Nat
    BY <1>2
  <2> QED BY <2>5, <2>6, <2>7, <2>8 DEF J
<1> QED BY <1>1, <1>2, <1>3, <1>4, <1>5

\* The credits on their way to the bank, message by message.
LEMMA ControlCreditsIs ==
    /\ ControlCredits(<< >>) = 0
    /\ \A q \in Seq(ToSender) :
         /\ ControlCredits(q) \in Nat
         /\ \A m \in ToSender :
              ControlCredits(Append(q, m)) = ControlCredits(q) + m.n
         /\ q # << >> =>
              ControlCredits(Tail(q)) + Head(q).n = ControlCredits(q)
<1> DEFINE cr(q) == [i \in DOMAIN q |-> q[i].n]
<1>1. ControlCredits(<< >>) = 0
  <2>1. cr(<< >>) = << >>
    OBVIOUS
  <2> QED BY <2>1, TotalEmpty DEF ControlCredits
<1>2. ASSUME NEW q \in Seq(ToSender)
      PROVE  /\ ControlCredits(q) \in Nat
             /\ \A m \in ToSender :
                  ControlCredits(Append(q, m)) = ControlCredits(q) + m.n
             /\ q # << >> =>
                  ControlCredits(Tail(q)) + Head(q).n = ControlCredits(q)
  <2>0. \A m \in ToSender : m.n \in Nat
    BY DEF ToSender
  <2>1. cr(q) \in Seq(Nat)
    BY <2>0
  <2>2. ControlCredits(q) \in Nat
    BY <2>1, TotalType DEF ControlCredits
  <2>3. ASSUME NEW m \in ToSender
        PROVE  ControlCredits(Append(q, m)) = ControlCredits(q) + m.n
    <3>1. cr(Append(q, m)) = Append(cr(q), m.n)
      OBVIOUS
    <3>2. Total(Append(cr(q), m.n)) = Total(cr(q)) + m.n
      <4> HIDE DEF cr
      <4> QED BY <2>0, <2>1, TotalAppend
    <3> QED BY <3>1, <3>2 DEF ControlCredits
  <2>4. ASSUME q # << >>
        PROVE  ControlCredits(Tail(q)) + Head(q).n = ControlCredits(q)
    <3>1. /\ cr(Tail(q)) = Tail(cr(q)) /\ Head(cr(q)) = Head(q).n
          /\ cr(q) # << >>
      BY <2>4
    <3>2. Total(Tail(cr(q))) + Head(cr(q)) = Total(cr(q))
      <4> HIDE DEF cr
      <4> QED BY <2>1, <3>1, TotalTail
    <3> QED BY <3>1, <3>2 DEF ControlCredits
  <2> QED BY <2>2, <2>3, <2>4
<1> QED BY <1>1, <1>2

\* Where a credit is: taken by the sender or in its bank, or on the wire.
Taken == CreditsSpent + bank

\* Every credit the sender has or will have was there from the start, was
\* sent by the coordinator, or answers a request; those a failing send() has
\* already taken are the only ones that get lost.
LedgerInv ==
    LET budget == InitialCredits + granted + Bulk * RequestsAnswered
    IN  /\ Taken + CreditsOnWire <= budget
        /\ sPc # "failed" => Taken + CreditsOnWire = budget

LEMMA LedgerNumbers ==
    ASSUME TransferTypes
    PROVE  /\ Taken \in Int /\ CreditsSpent \in Int /\ CreditsOnWire \in Nat
           /\ RequestsAnswered \in Int /\ RequestsAnswered <= requests
           /\ granted \in Nat /\ Bulk \in Nat /\ InitialCredits \in Nat
           /\ requests \in Nat
<1>1. /\ sent \in Nat /\ need \in Int /\ bank \in Nat /\ requests \in Nat
      /\ Frags \in Nat
  BY TransferAssumption DEF TransferTypes, SenderTypes
<1>2. CreditsSpent \in Int
  <2>1. sent * Frags \in Int
    BY <1>1
  <2> DEFINE p == sent * Frags
  <2> HIDE DEF p
  <2>2. p + (IF sPc = "crediting" THEN Frags - need ELSE 0) \in Int
    BY <1>1, <2>1 DEF p
  <2> QED BY <2>2 DEF CreditsSpent, p
<1>3. CreditsOnWire \in Nat
  BY ControlCreditsIs DEF CreditsOnWire, TransferTypes, WireTypes
<1>4. RequestsAnswered \in Int /\ RequestsAnswered <= requests
  <2>1. Cardinality(Asked(toRecv)) \in Nat
    BY AskedIs DEF TransferTypes, WireTypes
  <2>2. RequestsAnswered = requests - Cardinality(Asked(toRecv))
    BY DEF RequestsAnswered, Asked
  <2> QED BY <1>1, <2>1, <2>2
<1> QED BY <1>1, <1>2, <1>3, <1>4, CoordinatorAssumption, TransferAssumption
        DEF Taken, TransferTypes, TypeOK

\* What the sending side's own steps do with its credits.
LEMMA SpendingSteps ==
    ASSUME TransferTypes, SenderNext
    PROVE  /\ Taken' <= Taken
           /\ sPc' # "failed" => sPc # "failed" /\ Taken' = Taken
<1>1. /\ sent \in Nat /\ need \in Int /\ bank \in Int /\ Frags \in Nat
  BY TransferAssumption DEF TransferTypes, SenderTypes
<1> DEFINE p == sent * Frags
<1>2. p \in Int /\ Taken \in Int
  BY <1>1, LedgerNumbers
<1>3. /\ sPc = "crediting" => Taken = p + (Frags - need) + bank
      /\ sPc # "crediting" => Taken = p + bank
  BY <1>1 DEF Taken, CreditsSpent
<1>4. /\ sPc' = "crediting" => Taken' = p' + (Frags - need') + bank'
      /\ sPc' # "crediting" => Taken' = p' + 0 + bank'
  BY DEF Taken, CreditsSpent
<1>5. CASE SendCall
  <2>1. UNCHANGED <<p, bank>> /\ sPc = "idle" /\ sPc' = "crediting" /\ need' = Frags
    BY <1>5 DEF SendCall
  <2> HIDE DEF p
  <2> QED BY <1>1, <1>2, <1>3, <1>4, <2>1
<1>6. CASE TakeCredit
  <2>1. /\ p' = p /\ bank' = bank - 1 /\ need' = need - 1
        /\ sPc = "crediting" /\ sPc' = "crediting"
    BY <1>6 DEF TakeCredit
  <2> HIDE DEF p
  <2> QED BY <1>1, <1>2, <1>3, <1>4, <2>1
<1>7. CASE SenderRefused
  <2>1. UNCHANGED <<p, bank>> /\ sPc' = "failed"
    BY <1>7 DEF SenderRefused
  <2>2. need <= Frags
    BY DEF TransferTypes, SenderTypes
  <2> HIDE DEF p
  <2> QED BY <1>1, <1>2, <1>3, <1>4, <2>1, <2>2
<1>8. CASE Transmit
  <2>1. /\ sent' = sent + 1 /\ need = 0 /\ UNCHANGED bank
        /\ sPc = "crediting" /\ sPc' = "idle"
    BY <1>8 DEF Transmit
  <2>2. p' = p + Frags
    BY <1>1, <2>1
  <2> HIDE DEF p
  <2> QED BY <1>1, <1>2, <1>3, <1>4, <2>1, <2>2
<1>9. CASE EndCall \/ AckTimeout
  <2>1. UNCHANGED <<p, bank>> /\ sPc \in {"idle", "ending"}
        /\ sPc' \in {"ending", "ended"}
    BY <1>9 DEF EndCall, AckTimeout
  <2> HIDE DEF p
  <2> QED BY <1>1, <1>2, <1>3, <1>4, <2>1
<1> QED BY <1>5, <1>6, <1>7, <1>8, <1>9 DEF SenderNext

\* What a step moves: nothing, credits into the bank, credits onto the wire
\* from a sink, or a batch onto the wire for a request.
LedgerMoves ==
    \/ /\ Taken' <= Taken /\ (sPc' # "failed" => Taken' = Taken)
       /\ UNCHANGED <<CreditsOnWire, granted, RequestsAnswered>>
    \/ /\ \E n \in Nat : Taken' = Taken + n /\ CreditsOnWire = CreditsOnWire' + n
       /\ UNCHANGED <<granted, RequestsAnswered>>
    \/ /\ \E n \in Nat : CreditsOnWire' = CreditsOnWire + n /\ granted' = granted + n
       /\ UNCHANGED <<Taken, RequestsAnswered>>
    \/ /\ CreditsOnWire' = CreditsOnWire + Bulk
       /\ RequestsAnswered' = RequestsAnswered + 1
       /\ UNCHANGED <<Taken, granted>>

LEMMA LedgerFrame ==
    ASSUME TransferTypes, [TransferNext]_tvars
    PROVE  LedgerMoves /\ (sPc' # "failed" => sPc # "failed")
<1>0. /\ toRecv \in Seq(ToReceiver) /\ toSend \in Seq(ToSender)
      /\ Taken \in Int /\ CreditsOnWire \in Nat /\ RequestsAnswered \in Int
      /\ requests \in Nat /\ granted \in Nat /\ bank \in Nat
  BY LedgerNumbers DEF TransferTypes, SenderTypes, WireTypes
<1>1. ASSUME UNCHANGED <<sent, need, bank>>, sPc' = "crediting" <=> sPc = "crediting"
      PROVE  Taken' = Taken
  BY <1>1 DEF Taken, CreditsSpent
<1>2. toSend' = toSend => CreditsOnWire' = CreditsOnWire
  BY DEF CreditsOnWire
<1>3. UNCHANGED <<toRecv, requests>> => RequestsAnswered' = RequestsAnswered
  BY DEF RequestsAnswered
<1>4. RequestsAnswered = requests - Cardinality(Asked(toRecv))
      /\ RequestsAnswered' = requests' - Cardinality(Asked(toRecv'))
  BY DEF RequestsAnswered, Asked
<1>5. Cardinality(Asked(toRecv)) \in Nat
  BY <1>0, AskedIs
\* A message read or written that carries no credits and asks for none.
<1>6. ASSUME toSend # << >>, toSend' = Tail(toSend)
      PROVE  /\ Head(toSend) \in ToSender /\ Head(toSend).n \in Nat
             /\ CreditsOnWire = CreditsOnWire' + Head(toSend).n
             /\ CreditsOnWire' \in Nat
  <2>1. Head(toSend) \in ToSender /\ toSend' \in Seq(ToSender)
    BY <1>0, <1>6, SeqTypes
  <2>2. Head(toSend).n \in Nat
    BY <2>1 DEF ToSender
  <2>3. ControlCredits(Tail(toSend)) + Head(toSend).n = ControlCredits(toSend)
        /\ ControlCredits(toSend') \in Nat
    BY <1>0, <1>6, <2>1, ControlCreditsIs
  <2> QED BY <1>6, <2>1, <2>2, <2>3 DEF CreditsOnWire
<1>7. ASSUME NEW m \in ToSender, toSend' = Append(toSend, m)
      PROVE  CreditsOnWire' = CreditsOnWire + m.n
  BY <1>0, <1>7, ControlCreditsIs DEF CreditsOnWire
<1>8. ASSUME toRecv # << >>, toRecv' = Tail(toRecv), requests' = requests
      PROVE  RequestsAnswered' = RequestsAnswered +
               IF Head(toRecv).kind = "creditsRequest" THEN 1 ELSE 0
  <2>1. Cardinality(Asked(toRecv)) = Cardinality(Asked(Tail(toRecv)))
          + IF Head(toRecv).kind = "creditsRequest" THEN 1 ELSE 0
    BY <1>0, <1>8, AskedIs
  <2>2. Cardinality(Asked(Tail(toRecv))) \in Nat
    BY <1>0, <1>8, SeqTypes, AskedIs
  <2> DEFINE a == Cardinality(Asked(toRecv))
             b == Cardinality(Asked(Tail(toRecv)))
  <2>3. RequestsAnswered = requests - a /\ RequestsAnswered' = requests - b
    BY <1>4, <1>8
  <2> HIDE DEF a, b
  <2> QED BY <1>0, <1>5, <2>1, <2>2, <2>3 DEF a, b
<1>9. Control("endAck", {}, 0) \in ToSender /\ Control("credits", {}, Bulk) \in ToSender
      /\ Control("endAck", {}, 0).n = 0 /\ Control("credits", {}, Bulk).n = Bulk
  BY LedgerNumbers DEF Control, ToSender
<1>10. CASE SenderNext
  <2>1. UNCHANGED <<toSend, toRecv, requests, granted>>
    BY <1>10 DEF SenderNext, SendCall, TakeCredit, SenderRefused, Transmit, EndCall,
       AckTimeout, vars, taskVars, wireVars
  <2> QED BY <1>2, <1>3, <1>10, <2>1, SpendingSteps DEF LedgerMoves
<1>11. CASE STaskEndTransfer \/ STaskRequestTick
  <2>1. PICK m \in ToReceiver :
          /\ toRecv' = Append(toRecv, m)
          /\ \/ m.kind = "creditsRequest" /\ requests' = requests + 1
             \/ m.kind # "creditsRequest" /\ requests' = requests
    <3>1. \A c \in {"transferEnd", "creditsRequest"} :
            Control(c, {}, 0) \in ToReceiver /\ Control(c, {}, 0).kind = c
      BY DEF Control, ToReceiver
    <3> QED BY <1>11, <3>1 DEF STaskEndTransfer, STaskRequestTick
  <2>2. RequestsAnswered' = RequestsAnswered
    <3>1. Cardinality(Asked(toRecv')) = Cardinality(Asked(toRecv))
            + IF m.kind = "creditsRequest" THEN 1 ELSE 0
      BY <1>0, <2>1, AskedIs
    <3> DEFINE a == Cardinality(Asked(toRecv))
               b == Cardinality(Asked(toRecv'))
    <3> HIDE DEF a, b
    <3>2. a \in Nat /\ RequestsAnswered = requests - a
          /\ RequestsAnswered' = requests' - b
      BY <1>4, <1>5 DEF a, b
    <3>3. b = a + IF m.kind = "creditsRequest" THEN 1 ELSE 0
      BY <3>1 DEF a, b
    <3> QED BY <1>0, <2>1, <3>2, <3>3
  <2>3. UNCHANGED <<toSend, granted, sPc, sent, need, bank>>
    BY <1>11 DEF STaskEndTransfer, STaskRequestTick, vars, taskVars
  <2> QED BY <1>0, <1>1, <1>2, <2>2, <2>3 DEF LedgerMoves
<1>12. CASE STaskNack
  <2>1. toSend # << >> /\ toSend' = Tail(toSend) /\ Head(toSend).kind = "nack"
    BY <1>12 DEF STaskNack, Received
  <2>2. CreditsOnWire' = CreditsOnWire
    <3>1. Head(toSend).n = 0
      BY <1>6, <2>1 DEF ToSender
    <3> QED BY <1>6, <2>1, <3>1
  <2> DEFINE wanted == Head(toSend).seqs \cap buf
  <2>3. PICK chunks \in [1 .. Cardinality(wanted) -> wanted] :
          toRecv' = toRecv \o Retrans(chunks)
    BY <1>12 DEF STaskNack
  <2>4. wanted \in SUBSET Seqs /\ IsFiniteSet(Seqs)
    BY SeqsFinite DEF TransferTypes, SenderTypes
  <2>5. Cardinality(wanted) \in Nat
    BY <2>4, FS_Subset, FS_CardinalityType
  <2>6. /\ Retrans(chunks) \in Seq(ToReceiver)
        /\ \A i \in DOMAIN Retrans(chunks) : Retrans(chunks)[i].kind = "retrans"
    <3> HIDE DEF wanted
    <3> QED BY <2>3, <2>4, <2>5, RetransType
  <2>7. Asked(toRecv') = Asked(toRecv)
    <3> DEFINE r == Retrans(chunks)
    <3>1. r \in Seq(ToReceiver) /\ toRecv' = toRecv \o r
          /\ \A i \in DOMAIN r : r[i].kind # "creditsRequest"
      BY <2>3, <2>6
    <3> HIDE DEF r
    <3> QED BY <1>0, <3>1, AskedIs
  <2>8. UNCHANGED <<granted, sPc, sent, need, bank, requests>>
    BY <1>12 DEF STaskNack, vars, taskVars, sendVars
  <2>9. RequestsAnswered' = RequestsAnswered
    BY <1>4, <2>7, <2>8
  <2> QED BY <1>0, <1>1, <2>2, <2>8, <2>9 DEF LedgerMoves
<1>13. CASE STaskCreditsUpdate
  <2>1. toSend # << >> /\ toSend' = Tail(toSend)
    BY <1>13 DEF STaskCreditsUpdate, Received
  <2>2. /\ bank' = bank + Head(toSend).n
        /\ UNCHANGED <<granted, sPc, sent, need, requests, toRecv>>
    BY <1>13 DEF STaskCreditsUpdate, vars, taskVars
  <2>3. Taken = CreditsSpent + bank /\ Taken' = CreditsSpent + bank'
        /\ CreditsSpent \in Int
    BY <2>2, LedgerNumbers DEF Taken, CreditsSpent
  <2>4. Taken' = Taken + Head(toSend).n /\ Head(toSend).n \in Nat
    BY <1>0, <1>6, <2>1, <2>2, <2>3
  <2> QED BY <1>3, <1>6, <2>1, <2>2, <2>4 DEF LedgerMoves
<1>14. CASE STaskEndAck
  <2>1. toSend # << >> /\ toSend' = Tail(toSend) /\ Head(toSend).kind = "endAck"
    BY <1>14 DEF STaskEndAck, Received
  <2>2. CreditsOnWire' = CreditsOnWire
    <3>1. Head(toSend).n = 0
      BY <1>6, <2>1 DEF ToSender
    <3> QED BY <1>6, <2>1, <3>1
  <2>3. UNCHANGED <<granted, sent, need, bank, requests, toRecv>>
    BY <1>14 DEF STaskEndAck, vars, taskVars
  <2>4. sPc' = sPc \/ (sPc = "ending" /\ sPc' = "ended")
    BY <1>14 DEF STaskEndAck
  <2> QED BY <1>0, <1>1, <1>3, <2>2, <2>3, <2>4 DEF LedgerMoves
<1>15. CASE STaskExit
  <2>1. /\ UNCHANGED <<granted, sent, need, bank, requests, toRecv, toSend>>
        /\ sPc' = IF sPc = "ending" THEN "failed" ELSE sPc
    BY <1>15 DEF STaskExit, vars, taskVars, wireVars
  <2> QED BY <1>0, <1>1, <1>2, <1>3, <2>1 DEF LedgerMoves
<1>16. CASE RTaskTransferEnd \/ RTaskRetrans
  <2>1. /\ toRecv # << >> /\ toRecv' = Tail(toRecv)
        /\ Head(toRecv).kind # "creditsRequest"
    BY <1>16 DEF RTaskTransferEnd, RTaskRetrans, Incoming
  <2>2. UNCHANGED <<granted, sPc, sent, need, bank, requests>>
    BY <1>16 DEF RTaskTransferEnd, RTaskRetrans, TaskTransferEnd, vars, taskVars, sendVars
  <2>3. toSend' = toSend \/ toSend' = Append(toSend, Control("endAck", {}, 0))
    BY <1>16 DEF RTaskTransferEnd, RTaskRetrans
  <2>4. CreditsOnWire' = CreditsOnWire
    BY <1>0, <1>2, <1>7, <1>9, <2>3
  <2>5. RequestsAnswered' = RequestsAnswered
    BY <1>0, <1>8, <2>1, <2>2
  <2> QED BY <1>0, <1>1, <2>2, <2>4, <2>5 DEF LedgerMoves
<1>17. CASE RTaskCreditsRequest
  <2>1. /\ toRecv # << >> /\ toRecv' = Tail(toRecv)
        /\ Head(toRecv).kind = "creditsRequest"
        /\ toSend' = Append(toSend, Control("credits", {}, Bulk))
        /\ UNCHANGED <<granted, sPc, sent, need, bank, requests>>
    BY <1>17 DEF RTaskCreditsRequest, Incoming, vars, taskVars, sendVars
  <2> QED BY <1>0, <1>1, <1>7, <1>8, <1>9, <2>1 DEF LedgerMoves
<1>18. CASE RTaskSendAck
  <2>1. /\ toSend' = Append(toSend, Control("endAck", {}, 0))
        /\ UNCHANGED <<granted, sPc, sent, need, bank, requests, toRecv>>
    BY <1>18 DEF RTaskSendAck, TaskSendAck, sendVars
  <2>2. CreditsOnWire' = CreditsOnWire
    BY <1>0, <1>7, <1>9, <2>1
  <2> QED BY <1>0, <1>1, <1>3, <2>1, <2>2 DEF LedgerMoves
<1>19. CASE RTaskSenderCommand
  <2> DEFINE c == Head(scCh)
             m == Control(c.kind, c.seqs, c.credits)
  <2>1. /\ scCh # << >> /\ granted' = granted + c.credits
        /\ toSend' = Append(toSend, m)
        /\ UNCHANGED <<sPc, sent, need, bank, requests, toRecv>>
    BY <1>19 DEF RTaskSenderCommand, TaskSenderCommand, sendVars
  <2>2. c \in OwnCommand
    BY <2>1, SeqTypes DEF TransferTypes
  <2>3. m \in ToSender /\ m.n = c.credits /\ c.credits \in Nat
    BY <2>2 DEF Control, OwnCommand, ToSender
  <2>4. CreditsOnWire' = CreditsOnWire + c.credits
    <3> HIDE DEF c, m
    <3> QED BY <1>7, <2>1, <2>3
  <2> QED BY <1>1, <1>3, <2>1, <2>3, <2>4 DEF LedgerMoves
<1>20. CASE LoseDatagram \/ RouteDatagram \/ DecodeDatagram \/ InsideStep
  <2>1. UNCHANGED <<sPc, sent, need, bank, requests, toRecv, toSend>>
    BY <1>20 DEF LoseDatagram, RouteDatagram, DecodeDatagram, InsideStep, Inside,
       sendVars, wireVars
  <2>2. UNCHANGED granted
    BY <1>20, NoGrants DEF LoseDatagram, RouteDatagram, DecodeDatagram, InsideStep,
       Inside, vars, taskVars
  <2> QED BY <1>0, <1>1, <1>2, <1>3, <2>1, <2>2 DEF LedgerMoves
<1> QED BY <1>10, <1>11, <1>12, <1>13, <1>14, <1>15, <1>16, <1>17, <1>18, <1>19,
           <1>20, TransferSteps

LEMMA LedgerNumbersNext ==
    TransferTypes' => (/\ Taken \in Int /\ CreditsOnWire \in Nat
                       /\ RequestsAnswered \in Int /\ granted \in Nat)'
<1>1. TransferTypes => /\ Taken \in Int /\ CreditsOnWire \in Nat
                       /\ RequestsAnswered \in Int /\ granted \in Nat
  BY LedgerNumbers
<1> QED BY <1>1, PTL

LEMMA LedgerStep ==
    ASSUME TransferTypes, LedgerInv, [TransferNext]_tvars
    PROVE  LedgerInv'
<1> DEFINE R == RequestsAnswered
           W == CreditsOnWire
           G == InitialCredits + granted + Bulk * R
<1>0. /\ Taken \in Int /\ W \in Nat /\ R \in Int /\ granted \in Nat /\ Bulk \in Nat
      /\ InitialCredits \in Nat
      /\ Taken' \in Int /\ W' \in Nat /\ R' \in Int /\ granted' \in Nat
  BY TransferStepTypes, LedgerNumbers, LedgerNumbersNext
<1>1. sPc' # "failed" => sPc # "failed"
  BY LedgerFrame
<1>2. Taken + W <= G /\ (sPc # "failed" => Taken + W = G)
  BY DEF LedgerInv
<1>3. G \in Int /\ G' \in Int
  <2>1. Bulk * R \in Int /\ Bulk * R' \in Int
    BY <1>0
  <2> QED BY <1>0, <2>1
<1>8. G' = InitialCredits + granted' + Bulk * R'
  OBVIOUS
<1> SUFFICES Taken' + W' <= G' /\ (sPc' # "failed" => Taken' + W' = G')
  BY DEF LedgerInv
<1>4. CASE /\ Taken' <= Taken /\ (sPc' # "failed" => Taken' = Taken)
           /\ UNCHANGED <<CreditsOnWire, granted, RequestsAnswered>>
  <2>1. W' = W /\ G' = G
    BY <1>4
  <2>2. Taken' <= Taken /\ (sPc' # "failed" => Taken' = Taken)
    BY <1>4
  <2>3. PICK t \in Int, u \in Int : t = Taken /\ u = Taken'
    BY <1>0
  <2> HIDE DEF W, G, R
  <2>4. sPc' # "failed" => Taken' + W' = G'
    BY <1>1, <1>2, <2>1, <2>2
  <2>5. u <= t /\ t + W <= G
    BY <1>2, <2>2, <2>3
  <2>6. u + W <= G
    BY <1>0, <1>3, <2>5
  <2> QED BY <2>1, <2>3, <2>4, <2>6
<1>5. CASE /\ \E n \in Nat : Taken' = Taken + n /\ CreditsOnWire = CreditsOnWire' + n
           /\ UNCHANGED <<granted, RequestsAnswered>>
  <2>1. G' = G
    BY <1>5
  <2>2. PICK n \in Nat : Taken' = Taken + n /\ W = W' + n
    BY <1>5
  <2> HIDE DEF W, G, R
  <2>3. Taken' + W' = Taken + W
    BY <1>0, <2>2
  <2> QED BY <1>1, <1>2, <2>1, <2>3
<1>6. CASE /\ \E n \in Nat : CreditsOnWire' = CreditsOnWire + n /\ granted' = granted + n
           /\ UNCHANGED <<Taken, RequestsAnswered>>
  <2>1. PICK n \in Nat : W' = W + n /\ granted' = granted + n
    BY <1>6
  <2>2. G' = G + n
    <3> DEFINE b == Bulk * R
    <3>1. b' = b /\ b \in Int
      BY <1>0, <1>6
    <3>2. G = InitialCredits + granted + b /\ G' = InitialCredits + granted' + b'
      BY <1>8
    <3> HIDE DEF b, G
    <3> QED BY <1>0, <2>1, <3>1, <3>2
  <2>3. Taken' = Taken
    BY <1>6
  <2> HIDE DEF W, G, R
  <2> QED BY <1>0, <1>1, <1>2, <1>3, <2>1, <2>2, <2>3
<1>7. CASE /\ CreditsOnWire' = CreditsOnWire + Bulk
           /\ RequestsAnswered' = RequestsAnswered + 1
           /\ UNCHANGED <<Taken, granted>>
  <2>1. Bulk * (R + 1) = Bulk * R + Bulk
    BY <1>0
  <2>2. G' = G + Bulk
    <3> DEFINE b == Bulk * R
    <3>1. Bulk * R' = b + Bulk /\ b \in Int
      BY <1>0, <1>7, <2>1
    <3>2. G = InitialCredits + granted + b /\ G' = InitialCredits + granted' + Bulk * R'
      BY <1>8
    <3> HIDE DEF b, G
    <3> QED BY <1>0, <1>7, <3>1, <3>2
  <2>3. W' = W + Bulk /\ Taken' = Taken
    BY <1>7
  <2> HIDE DEF W, G, R
  <2> QED BY <1>0, <1>1, <1>2, <1>3, <2>2, <2>3
<1> QED BY <1>4, <1>5, <1>6, <1>7, LedgerFrame DEF LedgerMoves

LEMMA LedgerInit == TransferInit => LedgerInv
<1> SUFFICES ASSUME TransferInit PROVE LedgerInv
  OBVIOUS
<1>1. /\ sPc = "idle" /\ sent = 0 /\ bank = InitialCredits /\ requests = 0
      /\ toSend = << >> /\ toRecv = << >> /\ granted = 0
  BY DEF TransferInit, Init
<1>2. CreditsOnWire = 0
  BY <1>1, ControlCreditsIs DEF CreditsOnWire
<1>3. RequestsAnswered = 0
  <2>1. RequestsAnswered = requests - Cardinality(Asked(toRecv))
    BY DEF RequestsAnswered, Asked
  <2>2. Cardinality(Asked(toRecv)) = 0
    BY <1>1, AskedIs
  <2> QED BY <1>1, <2>1, <2>2
<1>4. Taken = InitialCredits
  <2>1. 0 * Frags = 0 /\ InitialCredits \in Nat
    BY TransferAssumption
  <2>2. Taken = (0 * Frags + 0) + InitialCredits
    BY <1>1 DEF Taken, CreditsSpent
  <2> QED BY <2>1, <2>2
<1>5. Bulk * 0 = 0 /\ InitialCredits \in Nat
  BY CoordinatorAssumption, TransferAssumption
<1> QED BY <1>1, <1>2, <1>3, <1>4, <1>5 DEF LedgerInv

\* The inductive invariant of the credit theorems.
CreditLedger == TransferTypes /\ HalfInv /\ LedgerInv

LEMMA CreditLedgerHolds == TransferSpec => []CreditLedger
<1>1. TransferInit => CreditLedger
  BY TransferInitTypes, HalfInit, LedgerInit DEF CreditLedger
<1>2. CreditLedger /\ [TransferNext]_tvars => CreditLedger'
  BY TransferStepTypes, HalfStep, LedgerStep DEF CreditLedger
<1> QED BY <1>1, <1>2, PTL DEF TransferSpec

\* The credits anywhere between the coordinator and the sender, and those due.
Credited == CreditsSpent + bank + CreditsOnWire + InFlight
Due      == InitialCredits + coord.emitted + Bulk * RequestsAnswered

\* No credit is ever forged, whatever fails, is dropped or cancelled: those
\* spent, banked, on the wire and in the sinks' hands are initial ones, were
\* emitted for drained packets or answer a request.
NoCreditForged == Credited <= Due

LEMMA LedgerMeans ==
    ASSUME CreditLedger
    PROVE  /\ NoCreditForged
           /\ taskPc # "exited" /\ sPc # "failed" /\ Uncut => Credited = Due
<1> DEFINE x == Taken + CreditsOnWire
           b == InitialCredits + Bulk * RequestsAnswered
<1>1. /\ CreditsSpent \in Int /\ bank \in Int /\ CreditsOnWire \in Int
      /\ InFlight \in Int /\ granted \in Int /\ coord.emitted \in Int
      /\ Taken \in Int /\ InitialCredits \in Int
      /\ Bulk * RequestsAnswered \in Int
  <2>1. Bulk * RequestsAnswered \in Int
    BY LedgerNumbers DEF CreditLedger
  <2> QED BY <2>1, LedgerNumbers, CreditNumbers
          DEF CreditLedger, TransferTypes, SenderTypes
<1>2. x \in Int /\ b \in Int
  BY <1>1
<1>3. Credited = x + InFlight /\ Due = b + coord.emitted
  BY <1>1 DEF Credited, Due, Taken
<1>4. /\ x <= b + granted
      /\ sPc # "failed" => x = b + granted
  BY <1>1 DEF CreditLedger, LedgerInv
<1>5. /\ granted + InFlight <= coord.emitted
      /\ taskPc # "exited" /\ Uncut => granted + InFlight = coord.emitted
  BY DEF CreditLedger, HalfInv, CreditInv, CreditsKept
<1> HIDE DEF x, b
<1>6. Credited <= Due
  BY <1>1, <1>2, <1>3, <1>4, <1>5
<1>7. ASSUME taskPc # "exited", sPc # "failed", Uncut PROVE Credited = Due
  BY <1>1, <1>2, <1>3, <1>4, <1>5, <1>7
<1> QED BY <1>6, <1>7 DEF NoCreditForged

\* Between the coordinator and the sender's bank no credit is lost or counted
\* twice, however commands, answers to requests and the loss of datagrams
\* interleave; only a cancelled recv(), the end of the task or a send() that
\* fails midway can lose some.
THEOREM CreditsConserved ==
    ASSUME MayCancel = {}
    PROVE  TransferSpec => []CreditConservation
<1>1. CreditLedger => CreditConservation
  BY LedgerMeans DEF CreditConservation, Credited, Due, Uncut
<1> QED BY <1>1, CreditLedgerHolds, PTL

\* Whatever is cancelled, dropped or fails, none is ever forged.
THEOREM CreditsNotForged == TransferSpec => []NoCreditForged
<1>1. CreditLedger => NoCreditForged
  BY LedgerMeans
<1> QED BY <1>1, CreditLedgerHolds, PTL

\* The flow control in datagrams: those sent, of chunks sent, never exceed what
\* any sink still open has had drained by more than the initial window and a
\* batch per TransferCreditsRequest.
WindowBound ==
    \A k \in Sinks :
        Gating(coord, k) =>
            sent * Frags <= InitialCredits + coord.drained[k] + Bulk * requests

LEMMA WindowMeans ==
    ASSUME CreditLedger
    PROVE  WindowBound
<1> SUFFICES ASSUME NEW k \in Sinks, Gating(coord, k)
             PROVE  sent * Frags <= InitialCredits + coord.drained[k] + Bulk * requests
  BY DEF WindowBound
<1> DEFINE p == sent * Frags
           d == coord.drained[k]
           b == Bulk * RequestsAnswered
           c == Bulk * requests
<1>1. /\ sent \in Nat /\ need \in Int /\ need <= Frags /\ Frags \in Nat
      /\ bank \in Nat /\ CreditsOnWire \in Nat /\ InitialCredits \in Nat
      /\ granted \in Nat /\ coord.emitted \in Nat /\ d \in Nat /\ InFlight \in Nat
  <2>1. coord \in CoordType
    BY DEF CreditLedger, TransferTypes, TypeOK
  <2>2. d \in Nat
    BY <2>1 DEF CoordType
  <2> QED BY <2>2, LedgerNumbers, CreditNumbers, TransferAssumption
          DEF CreditLedger, TransferTypes, SenderTypes
<1>2. p \in Int
  BY <1>1
<1>3. b <= c /\ b \in Int /\ c \in Int
  BY LedgerNumbers DEF CreditLedger
<1>4. p <= Taken /\ Taken \in Int
  <2>1. Taken = p + (IF sPc = "crediting" THEN Frags - need ELSE 0) + bank
    BY DEF Taken, CreditsSpent
  <2> HIDE DEF p
  <2> QED BY <1>1, <1>2, <2>1
<1>5. Taken + CreditsOnWire <= InitialCredits + granted + b
  BY DEF CreditLedger, LedgerInv
<1>6. granted + InFlight <= coord.emitted
  BY DEF CreditLedger, HalfInv, CreditInv, CreditsKept
<1>7. coord.emitted <= d
  BY DEF CreditLedger, HalfInv, CreditsFollowDrain, CoveredByDrains
<1> HIDE DEF p, d, b, c
<1>8. p <= InitialCredits + d + c
  BY <1>1, <1>2, <1>3, <1>4, <1>5, <1>6, <1>7
<1> QED BY <1>8 DEF p, d, c

\* The sender is never further ahead of the slowest open sink's application
\* than its credit window, whatever the network and the sinks do.
THEOREM SenderStaysInWindow == TransferSpec => []WindowBound
<1>1. CreditLedger => WindowBound
  BY WindowMeans
<1> QED BY <1>1, CreditLedgerHolds, PTL

LEMMA WindowInChunks ==
    ASSUME CreditLedger, MaxRequests = 0
    PROVE  WithinCreditWindow
<1> SUFFICES ASSUME NEW k \in Sinks, Gating(coord, k)
             PROVE  sent - coord.drained[k] <= InitialCredits
  BY DEF WithinCreditWindow
<1> DEFINE d == coord.drained[k]
<1>1. sent * Frags <= InitialCredits + d + Bulk * requests
  BY WindowMeans DEF WindowBound
<1>2. requests = 0 /\ sent \in Nat /\ Frags \in Nat \ {0} /\ InitialCredits \in Nat
  BY TransferAssumption DEF CreditLedger, TransferTypes, SenderTypes
<1>3. d \in Nat
  BY DEF CreditLedger, TransferTypes, TypeOK, CoordType
<1>4. Bulk * 0 = 0
  BY CoordinatorAssumption
<1>5. sent <= sent * Frags /\ sent * Frags \in Nat
  BY <1>2
<1> HIDE DEF d
<1>6. sent * Frags <= InitialCredits + d
  BY <1>1, <1>2, <1>3, <1>4
<1>7. sent <= InitialCredits + d
  BY <1>2, <1>3, <1>5, <1>6
<1> QED BY <1>2, <1>3, <1>7 DEF d

\* The window in chunks, of a transfer whose sender asks for no extra batch.
THEOREM SenderWithinWindow ==
    ASSUME MaxRequests = 0
    PROVE  TransferSpec => []WithinCreditWindow
<1>1. CreditLedger => WithinCreditWindow
  BY WindowInChunks
<1> QED BY <1>1, CreditLedgerHolds, PTL
-----------------------------------------------------------------------------
(* end() returns Ok only for a transfer that was returned to the reader     *)

EndAcked(q) == \E i \in DOMAIN q : q[i].kind = "endAck"

\* No acknowledgement reaches the sender that the receiving task did not send.
AnswerInv == endResult = "ok" \/ EndAcked(toSend) => acks > 0

LEMMA EndAckedIs ==
    ASSUME NEW q \in Seq(ToSender)
    PROVE  /\ \A m \in ToSender : EndAcked(Append(q, m)) => EndAcked(q) \/ m.kind = "endAck"
           /\ q # << >> => /\ EndAcked(Tail(q)) => EndAcked(q)
                           /\ Head(q).kind = "endAck" => EndAcked(q)
<1>1. ASSUME NEW m \in ToSender, EndAcked(Append(q, m)), ~EndAcked(q)
      PROVE  m.kind = "endAck"
  <2>1. PICK i \in DOMAIN Append(q, m) : Append(q, m)[i].kind = "endAck"
    BY <1>1 DEF EndAcked
  <2>2. i \in 1 .. Len(q) + 1 /\ Len(q) \in Nat /\ DOMAIN q = 1 .. Len(q)
    BY <2>1
  <2>3. CASE i = Len(q) + 1
    <3>1. Append(q, m)[i] = m
      BY <2>3
    <3> QED BY <2>1, <3>1
  <2>4. CASE i # Len(q) + 1
    <3>1. i \in DOMAIN q /\ Append(q, m)[i] = q[i]
      BY <2>2, <2>4
    <3> QED BY <1>1, <2>1, <3>1 DEF EndAcked
  <2> QED BY <2>3, <2>4
<1>2. ASSUME q # << >>
      PROVE  /\ EndAcked(Tail(q)) => EndAcked(q)
             /\ Head(q).kind = "endAck" => EndAcked(q)
  <2>1. /\ Head(q) = q[1] /\ 1 \in DOMAIN q
        /\ \A i \in DOMAIN Tail(q) : i + 1 \in DOMAIN q /\ Tail(q)[i] = q[i + 1]
    BY <1>2
  <2> QED BY <2>1 DEF EndAcked
<1> QED BY <1>1, <1>2

LEMMA AnswerStep ==
    ASSUME TransferTypes, AnswerInv, [TransferNext]_tvars
    PROVE  AnswerInv'
<1>0. toSend \in Seq(ToSender) /\ acks \in Nat
  BY DEF TransferTypes, WireTypes, TypeOK
<1>1. ASSUME acks' = acks, endResult' = "ok" => endResult = "ok",
             EndAcked(toSend') => EndAcked(toSend)
      PROVE  AnswerInv'
  BY <1>1 DEF AnswerInv, EndAcked
<1>2. CASE SenderNext
  <2>1. /\ UNCHANGED <<acks, toSend>>
        /\ endResult' = endResult \/ endResult' = "timeout"
    BY <1>2 DEF SenderNext, SendCall, TakeCredit, SenderRefused, Transmit, EndCall,
       AckTimeout, vars, taskVars, wireVars
  <2> QED BY <1>1, <2>1
<1>3. CASE STaskEndTransfer \/ STaskRequestTick \/ STaskExit
  <2>1. UNCHANGED <<acks, toSend, endResult>>
    BY <1>3 DEF STaskEndTransfer, STaskRequestTick, STaskExit, vars, taskVars, wireVars
  <2> QED BY <1>1, <2>1
<1>4. CASE STaskNack \/ STaskCreditsUpdate
  <2>1. /\ UNCHANGED <<acks, endResult>>
        /\ toSend # << >> /\ toSend' = Tail(toSend)
    BY <1>4 DEF STaskNack, STaskCreditsUpdate, Received, vars, taskVars, sendVars
  <2> QED BY <1>0, <1>1, <2>1, EndAckedIs
<1>5. CASE STaskEndAck
  <2>1. acks' = acks /\ toSend # << >> /\ Head(toSend).kind = "endAck"
    BY <1>5 DEF STaskEndAck, Received, vars, taskVars
  <2>2. EndAcked(toSend)
    BY <1>0, <2>1, EndAckedIs
  <2> QED BY <2>1, <2>2 DEF AnswerInv
<1>6. CASE RTaskTransferEnd
  <2>1. /\ endResult' = endResult /\ acks' \in {acks, acks + 1}
        /\ acks' = acks => toSend' = toSend
    BY <1>6 DEF RTaskTransferEnd, TaskTransferEnd, sendVars
  <2>2. CASE acks' = acks
    BY <1>1, <2>1, <2>2
  <2>3. CASE acks' = acks + 1
    BY <1>0, <2>3 DEF AnswerInv
  <2> QED BY <2>1, <2>2, <2>3
<1>7. CASE RTaskSendAck
  <2>1. acks' = acks + 1
    BY <1>7 DEF RTaskSendAck, TaskSendAck
  <2> QED BY <1>0, <2>1 DEF AnswerInv
<1>8. CASE RTaskRetrans
  <2>1. UNCHANGED <<acks, endResult, toSend>>
    BY <1>8 DEF RTaskRetrans, vars, taskVars, sendVars
  <2> QED BY <1>1, <2>1
<1>9. CASE RTaskCreditsRequest \/ RTaskSenderCommand
  <2>1. UNCHANGED <<acks, endResult>>
    BY <1>9 DEF RTaskCreditsRequest, RTaskSenderCommand, TaskSenderCommand,
       vars, taskVars, sendVars
  <2>2. PICK m \in ToSender : toSend' = Append(toSend, m) /\ m.kind # "endAck"
    <3>1. CASE RTaskCreditsRequest
      <4>1. Control("credits", {}, Bulk) \in ToSender
            /\ Control("credits", {}, Bulk).kind # "endAck"
        BY CoordinatorAssumption DEF Control, ToSender
      <4> QED BY <3>1, <4>1 DEF RTaskCreditsRequest
    <3>2. CASE RTaskSenderCommand
      <4> DEFINE c == Head(scCh)
                 m == Control(c.kind, c.seqs, c.credits)
      <4>1. scCh # << >> /\ toSend' = Append(toSend, m)
        BY <3>2 DEF RTaskSenderCommand, TaskSenderCommand
      <4>2. c \in OwnCommand
        BY <4>1, SeqTypes DEF TransferTypes
      <4>3. m \in ToSender /\ m.kind # "endAck"
        BY <4>2 DEF Control, OwnCommand, ToSender
      <4> QED BY <4>1, <4>3
    <3> QED BY <1>9, <3>1, <3>2
  <2>3. EndAcked(toSend') => EndAcked(toSend)
    BY <1>0, <2>2, EndAckedIs
  <2> QED BY <1>1, <2>1, <2>3
<1>10. CASE LoseDatagram \/ RouteDatagram \/ DecodeDatagram \/ InsideStep
  <2>1. UNCHANGED <<endResult, toSend>>
    BY <1>10 DEF LoseDatagram, RouteDatagram, DecodeDatagram, InsideStep, Inside,
       sendVars, wireVars
  <2>2. acks' = acks
    BY <1>10, NoGrants DEF LoseDatagram, RouteDatagram, DecodeDatagram, InsideStep,
       Inside, vars, taskVars
  <2> QED BY <1>1, <2>1, <2>2
<1> QED BY <1>2, <1>3, <1>4, <1>5, <1>6, <1>7, <1>8, <1>9, <1>10, TransferSteps

\* end() of a transfer in Dual mode returns Ok only after the application has
\* been handed as many chunks by the reliable sink as were sent, whatever is
\* lost, repeated or dropped: unless a recv() is cancelled with chunks in its
\* hands, or the numbers run past the last SequenceNumber.
THEOREM EndFollowsDelivery ==
    ASSUME "reliable" \notin MayCancel, InitialSeq + NumSeqs <= SeqModulus
    PROVE  TransferSpec => []EndMeansSurfaced
<1> DEFINE Inv == TransferTypes /\ SurfacedInv /\ AnswerInv
<1>1. TransferInit => Inv
  <2>1. TransferInit => AnswerInv
    BY DEF TransferInit, AnswerInv, EndAcked
  <2> QED BY <2>1, TransferInitTypes, SurfacedInit DEF TransferInit
<1>2. Inv /\ [TransferNext]_tvars => Inv'
  <2> SUFFICES ASSUME Inv, [TransferNext]_tvars PROVE Inv'
    OBVIOUS
  <2>1. SurfacedInv'
    BY HalfOfTransfer, HalfSurfaced DEF TransferTypes
  <2> QED BY <2>1, TransferStepTypes, AnswerStep
<1>3. Inv => EndMeansSurfaced
  <2> SUFFICES ASSUME Inv, endResult = "ok", Dual
               PROVE  Len(delivered["reliable"]) >= NumSeqs
    BY DEF EndMeansSurfaced
  <2>1. acks > 0 /\ acks \in Nat /\ endAcks \in Nat
    BY DEF AnswerInv, TransferTypes, TypeOK
  <2>2. acks + endAcks > 0
    BY <2>1
  <2> QED BY <2>2 DEF SurfacedInv, AckMeansSurfaced
<1> QED BY <1>1, <1>2, <1>3, PTL DEF TransferSpec
-----------------------------------------------------------------------------
(* What the reliable sink still waits for can be sent again                 *)

Recorded == coord.drained["reliable"]
              + IF pc["reliable"] = "record" THEN Len(out["reliable"]) ELSE 0

\* The cursor counts every chunk drained, and no hole of the buffer has a
\* number past the last.
FrontInv ==
    /\ Recorded <= asm.cursor
    /\ ~ReliableDropped => ~MissingPanics(asm)
    /\ ~Dual => ReliableDropped

\* A dropped sink stays dropped.
LEMMA DropStays ==
    ASSUME TypeOK, [HalfNext]_vars, ReliableDropped
    PROVE  ReliableDropped'
<1> USE DEF sinkVars, ReliableDropped
<1>0. pc \in [Sinks -> SinkPc] /\ "reliable" \in Sinks
  BY DEF TypeOK, Sinks
<1>1. CASE UNCHANGED vars
  BY <1>1 DEF vars
<1>2. ASSUME NEW k \in Sinks, SinkStep(k) \/ AppDrop(k) \/ Cancel(k)
      PROVE  ReliableDropped'
  <2>1. CASE k # "reliable"
    BY <1>0, <1>2, <2>1 DEF SinkStep, Call, ChannelClosed, SignalEof, Record,
       RecordSend, MarkClosed, MarkClosedSend, DrainOne, DrainEnd, AppDrop,
       DropSink, Cancel
  <2>2. CASE k = "reliable"
    BY <1>0, <1>2, <2>2 DEF SinkStep, Call, ChannelClosed, Record, RecordSend,
       MarkClosed, MarkClosedSend, DrainOne, DrainEnd, AppDrop, DropSink, Cancel
  <2> QED BY <2>1, <2>2
<1>3. CASE ReliableStep
  BY <1>3 DEF ReliableStep, RelTop, RelNotified, RelCommand, RelPacket, RelNack,
     RelRead
<1>4. CASE UnreliableStep
  BY <1>0, <1>4 DEF UnreliableStep, UnrelTop, UnrelWait, UnrelNotified,
     UnrelPacket, SignalEof, EnterSelect
<1>5. CASE Route \/ TaskStep \/ TaskExit
  BY <1>5 DEF Route, TaskStep, TaskForward, TaskForwardFails, TaskSendAck,
     TaskSenderCommand, TaskExit
<1>6. CASE CloseChannels \/ TaskTransferEnd \/ PeerCloses \/ \E s \in Seqs : Decode(s)
  BY <1>6 DEF Decode, CloseChannels, TaskTransferEnd, PeerCloses, TaskExit
<1> QED BY <1>1, <1>2, <1>3, <1>4, <1>5, <1>6 DEF HalfNext, Next, Environment

\* Reading keeps the holes that are left, and counts what it took.
LEMMA ReadKeepsHoles ==
    ASSUME OverflowChecks, NEW a \in AsmType, ~MissingPanics(a),
           NEW n \in ReadableCounts(a), ~ReadPanics(a, n)
    PROVE  /\ ~MissingPanics(AfterRead(a, n))
           /\ AfterRead(a, n).cursor = a.cursor + n
           /\ Len(Readable(a, n)) = n
<1>1. /\ a.cursor \in SeqNum /\ a.cursor \in Nat
      /\ a.packets \in Seq(SeqNum \cup {Missing})
  BY DEF AsmType, SeqNum
<1>2. n \in 0 .. Len(a.packets) /\ Len(a.packets) \in Nat
  BY <1>1 DEF ReadableCounts
<1>3. SeqAdd(a.cursor, n) = a.cursor + n
  <2>1. a.cursor + n \in 0 .. (SeqModulus - 1) /\ SeqModulus \in Nat \ {0}
    BY <1>1, <1>2, AssemblerAssumption DEF ReadPanics, AddPanics, SeqNum
  <2> QED BY <2>1, ModIdentity DEF SeqAdd
<1> DEFINE rest == SubSeq(a.packets, n + 1, Len(a.packets))
<1>4. ASSUME NEW i \in DOMAIN rest
      PROVE  n + i \in DOMAIN a.packets /\ rest[i] = a.packets[n + i] /\ i \in Int
  <2> DEFINE q == a.packets
  <2>1. q \in Seq(SeqNum \cup {Missing}) /\ n \in 0 .. Len(q) /\ Len(q) \in Nat
    BY <1>1, <1>2
  <2>2. i \in DOMAIN SubSeq(q, n + 1, Len(q))
    OBVIOUS
  <2> HIDE DEF q
  <2>3. n + i \in DOMAIN q /\ SubSeq(q, n + 1, Len(q))[i] = q[n + i] /\ i \in Int
    BY ONLY <2>1, <2>2
  <2> QED BY <2>3 DEF q
<1>5. ASSUME NEW i \in DOMAIN rest, rest[i] = Missing
      PROVE  ~AddPanics(a.cursor + n, i - 1)
  <2>1. ~AddPanics(a.cursor, (n + i) - 1)
    BY <1>4, <1>5 DEF MissingPanics
  <2>2. i \in Int /\ n \in Int
    BY <1>2, <1>4
  <2>3. a.cursor + ((n + i) - 1) = (a.cursor + n) + (i - 1)
    BY <1>1, <2>2
  <2> QED BY <2>1, <2>3 DEF AddPanics
<1>6. Len(Readable(a, n)) = n
  BY <1>1, <1>2 DEF Readable
<1> QED BY <1>3, <1>5, <1>6 DEF AfterRead, MissingPanics

LEMMA FrontStep ==
    ASSUME TypeOK, OverflowChecks, FrontInv, [Next]_vars
    PROVE  FrontInv' /\ asm.cursor <= asm'.cursor
<1> DEFINE d == coord.drained["reliable"]
           O == out["reliable"]
<1>0. /\ "reliable" \in Sinks /\ pc \in [Sinks -> SinkPc]
      /\ out \in [Sinks -> Seq(SeqNum)] /\ O \in Seq(SeqNum) /\ Len(O) \in Nat
      /\ asm \in AsmType /\ asm.cursor \in Nat
      /\ coord.drained \in [Sinks -> Nat] /\ d \in Nat
  <2>1. "reliable" \in Sinks
    BY DEF Sinks
  <2>2. /\ pc \in [Sinks -> SinkPc] /\ out \in [Sinks -> Seq(SeqNum)]
        /\ asm \in AsmType /\ coord \in CoordType
    BY DEF TypeOK
  <2>3. asm.cursor \in Nat
    BY <2>2 DEF AsmType, SeqNum
  <2>4. coord.drained \in [Sinks -> Nat]
    BY <2>2 DEF CoordType
  <2>5. O \in Seq(SeqNum)
    BY <2>1, <2>2
  <2>6. Len(O) \in Nat
    BY <2>5
  <2> QED BY <2>1, <2>2, <2>3, <2>4, <2>5, <2>6
<1>1. /\ ~Dual => ReliableDropped'
      /\ ReliableDropped => ReliableDropped'
  BY DropStays DEF FrontInv, HalfNext
<1>a. d <= asm.cursor /\ (pc["reliable"] = "record" => d + Len(O) <= asm.cursor)
  BY <1>0 DEF FrontInv, Recorded
\* The steps that leave the buffer alone.
<1>2. ASSUME asm' = asm, coord'.drained["reliable"] = d,
             pc'["reliable"] = "record" => pc["reliable"] = "record" /\ out'["reliable"] = O
      PROVE  FrontInv' /\ asm.cursor <= asm'.cursor
  <2>1. Recorded' <= asm'.cursor
    BY <1>0, <1>2, <1>a DEF Recorded
  <2>2. ~ReliableDropped' => ~MissingPanics(asm)
    BY <1>1 DEF FrontInv
  <2> QED BY <1>0, <1>1, <1>2, <2>1, <2>2 DEF FrontInv
<1>3. CASE RelPacket
  <2>1. /\ pc["reliable"] = "select" /\ coord' = coord /\ out' = out
    BY <1>3 DEF RelPacket
  <2>2. CASE asm' = asm /\ pc'["reliable"] # "record"
    BY <1>2, <2>1, <2>2
  <2>3. CASE asm' # asm
    <3> DEFINE a == Push(asm, Head(ch["reliable"]))
    <3>1. asm' = a /\ ~MissingPanics(a)
      BY <1>3, <2>3 DEF RelPacket
    <3>2. asm'.cursor = asm.cursor
      BY <1>0, <3>1, PushKeepsCursor
    <3>3. pc'["reliable"] # "record"
      BY <1>0, <1>3 DEF RelPacket, Panic, DropSink
    <3>4. Recorded' = d + 0
      BY <2>1, <3>3 DEF Recorded
    <3>5. Recorded' <= asm'.cursor /\ asm.cursor <= asm'.cursor
      BY <1>0, <1>a, <3>2, <3>4
    <3> QED BY <1>1, <3>1, <3>5 DEF FrontInv
  <2>4. pc'["reliable"] # "record"
    BY <1>0, <1>3 DEF RelPacket, Panic, DropSink
  <2> QED BY <2>2, <2>3, <2>4
<1>4. CASE RelRead
  <2>1. coord' = coord /\ pc["reliable"] = "read" /\ ~ReliableDropped
    BY <1>4 DEF RelRead, ReliableDropped
  <2>2. PICK n \in ReadableCounts(asm) :
          IF ReadPanics(asm, n)
          THEN Panic /\ UNCHANGED <<asm, out>>
          ELSE /\ asm' = AfterRead(asm, n)
               /\ out' = [out EXCEPT !["reliable"] = Readable(asm, n)]
               /\ pc' = [pc EXCEPT !["reliable"] = IF n = 0 THEN "top" ELSE "record"]
    BY <1>4 DEF RelRead
  <2>3. CASE ReadPanics(asm, n)
    <3>1. asm' = asm /\ pc'["reliable"] = "draining"
      BY <1>0, <2>2, <2>3 DEF Panic, DropSink
    <3> QED BY <1>2, <2>1, <3>1
  <2>4. CASE ~ReadPanics(asm, n)
    <3>1. /\ asm' = AfterRead(asm, n) /\ out'["reliable"] = Readable(asm, n)
      BY <1>0, <2>2, <2>4
    <3>2. ~MissingPanics(asm)
      BY <2>1 DEF FrontInv
    <3>3. /\ ~MissingPanics(asm') /\ asm'.cursor = asm.cursor + n
          /\ Len(out'["reliable"]) = n
      BY <1>0, <2>4, <3>1, <3>2, ReadKeepsHoles
    <3>4. n \in Nat
      BY <1>0 DEF ReadableCounts
    <3>5. Recorded' = d + n \/ Recorded' = d + 0
      BY <2>1, <3>3 DEF Recorded
    <3>6. Recorded' <= asm'.cursor /\ asm.cursor <= asm'.cursor
      BY <1>0, <1>a, <3>3, <3>4, <3>5
    <3> QED BY <1>1, <3>3, <3>6 DEF FrontInv
  <2> QED BY <2>3, <2>4
<1>5. CASE Record("reliable")
  <2>1. asm' = asm /\ pc["reliable"] = "record" /\ ~ReliableDropped
    BY <1>5 DEF Record, relVars, ReliableDropped
  <2>2. /\ coord'.drained["reliable"] = d + Len(O)
        /\ pc'["reliable"] # "record"
    <3>1. PICK e \in Nat :
             /\ coord'.drained = [coord.drained EXCEPT !["reliable"] = d + Len(O)]
             /\ pc' = [pc EXCEPT !["reliable"] = IF e = 0 THEN "idle" ELSE "recording"]
      <4>1. "reliable" \in Sinks
        BY <1>0
      <4> QED BY <1>5, <4>1, RecordChanges
    <3>2. coord'.drained["reliable"] = d + Len(O)
      BY ONLY <1>0, <3>1
    <3>3. pc'["reliable"] # "record"
      BY ONLY <1>0, <3>1
    <3> QED BY <3>2, <3>3
  <2>3. Recorded' = d + Len(O) + 0
    BY <2>2 DEF Recorded
  <2>4. Recorded' <= asm'.cursor
    BY <1>0, <1>a, <2>1, <2>3
  <2>5. ~MissingPanics(asm')
    BY <2>1 DEF FrontInv
  <2> QED BY <1>0, <1>1, <2>1, <2>4, <2>5 DEF FrontInv
<1>6. CASE RecordSend("reliable") \/ Cancel("reliable")
  <2>1. asm' = asm /\ coord' = coord /\ pc'["reliable"] = "idle"
    BY <1>0, <1>6 DEF RecordSend, Cancel, relVars
  <2> QED BY <1>2, <2>1
<1>7. CASE /\ UNCHANGED OrderVars
           /\ \/ pc'["reliable"] = pc["reliable"]
              \/ /\ pc["reliable"] \notin {"record", "recording"}
                 /\ pc'["reliable"] \notin {"record", "recording"}
           /\ ~Record("reliable") /\ ~RecordSend("reliable") /\ ~Cancel("reliable")
  <2>1. asm' = asm /\ out'["reliable"] = O
    BY <1>7 DEF OrderVars
  <2>2. coord'.drained["reliable"] = d
    <3>1. MarkClosed("reliable") \/ coord'.drained["reliable"] = d
      BY <1>0, <1>7, DrainFrame
    <3>2. MarkClosed("reliable") => coord'.drained = coord.drained
      BY <1>0, CloseChanges
    <3> QED BY <3>1, <3>2
  <2> QED BY <1>2, <1>7, <2>1, <2>2
<1> QED BY <1>3, <1>4, <1>5, <1>6, <1>7, OrderFrame

\* recv() of the reliable sink has seen the end of the transfer.
RelOver == \/ signaled["reliable"] \/ coord.closed["reliable"]
           \/ pc["reliable"] \in {"closing", "closingSend", "eof"}

\* The reliable sink ends no transfer whose chunks it has not all read, as
\* long as its channel's sender lives.
FinishInv ==
    /\ chOpen
    /\ pendingEnd \in {None, FinalSeq}
    /\ \A i \in DOMAIN pipeline : pipeline[i] = FinalSeq
    /\ notified["reliable"] => isEnded
    /\ Dual /\ (endAcks > 0 \/ isEnded) => NumSeqs <= asm.cursor
    /\ Dual /\ ~ReliableDropped /\ RelOver => NumSeqs <= asm.cursor

\* The only reasons for recv() of the reliable sink to see an end.
LEMMA OverFrame ==
    ASSUME TypeOK, chOpen, [Next]_vars, ~ReliableDropped', RelOver'
    PROVE  \/ RelOver /\ ~ReliableDropped
           \/ notified["reliable"]
           \/ pendingEnd # None /\ asm.cursor > pendingEnd
<1> USE DEF sinkVars, RelOver, ReliableDropped
<1>0. /\ pc \in [Sinks -> SinkPc] /\ signaled \in [Sinks -> BOOLEAN]
      /\ "reliable" \in Sinks /\ coord \in CoordType
  BY DEF TypeOK, Sinks
<1>a. ~ReliableDropped
  BY DropStays DEF HalfNext
<1>b. ASSUME coord'.closed["reliable"] = coord.closed["reliable"],
             signaled'["reliable"] = signaled["reliable"],
             pc'["reliable"] = pc["reliable"]
                \/ pc'["reliable"] \notin {"closing", "closingSend", "eof"}
      PROVE  RelOver
  BY <1>b
<1>1. CASE UNCHANGED vars
  BY <1>a, <1>b, <1>1 DEF vars
<1>2. ASSUME NEW k \in Sinks, Record(k)
      PROVE  RelOver
  <2>1. coord'.closed = coord.closed
    <3> DEFINE c == Drained(coord, k, Len(out[k]))
    <3>1. coord' = Emitted(c, FALSE)
      BY <1>2 DEF Record
    <3>2. c.closed = coord.closed /\ c \in CoordType
      <4>1. Len(out[k]) \in Nat
        BY DEF TypeOK
      <4>2. c \in CoordType
        BY <1>0, <4>1, DrainedType
      <4>3. c.closed = coord.closed
        BY <1>0 DEF Drained, CoordType
      <4> QED BY <4>2, <4>3
    <3> HIDE DEF c
    <3>3. Emitted(c, FALSE).closed = c.closed
      BY <3>2 DEF Emitted, CoordType
    <3> QED BY <3>1, <3>2, <3>3
  <2>2. signaled' = signaled
    BY <1>2 DEF Record
  <2>3. pc'["reliable"] = pc["reliable"] \/ pc'["reliable"] \in {"idle", "recording"}
    BY <1>0, <1>2 DEF Record
  <2> QED BY <1>a, <1>b, <2>1, <2>2, <2>3
<1>3. ASSUME NEW k \in Sinks, MarkClosed(k)
      PROVE  RelOver
  <2>1. CASE k = "reliable"
    <3>1. pc["reliable"] = "closing" \/ pc'["reliable"] \in {"gone", "drainSend"}
      BY <1>0, <1>3, <2>1 DEF MarkClosed
    <3> QED BY <1>a, <3>1
  <2>2. CASE k # "reliable"
    <3> DEFINE c == Closed(coord, k)
    <3>1. coord' = coord \/ coord' = Emitted(c, TRUE)
      BY <1>3 DEF MarkClosed
    <3>2. c.closed["reliable"] = coord.closed["reliable"] /\ c \in CoordType
      <4>1. c \in CoordType
        BY <1>0, DrainedType
      <4>2. c.closed = [coord.closed EXCEPT ![k] = TRUE]
        BY <1>0 DEF Closed, CoordType
      <4>3. coord.closed \in [Sinks -> BOOLEAN]
        BY <1>0 DEF CoordType
      <4> QED BY <1>0, <2>2, <4>1, <4>2, <4>3
    <3> HIDE DEF c
    <3>3. Emitted(c, TRUE).closed = c.closed
      BY <3>2 DEF Emitted, CoordType
    <3>4. coord'.closed["reliable"] = coord.closed["reliable"]
      BY <3>1, <3>2, <3>3
    <3>5. signaled' = signaled /\ pc'["reliable"] = pc["reliable"]
      BY <1>0, <1>3, <2>2 DEF MarkClosed
    <3> QED BY <1>a, <1>b, <3>4, <3>5
  <2> QED BY <2>1, <2>2
<1>4. ASSUME NEW k \in Sinks, Call(k) \/ RecordSend(k) \/ DrainOne(k) \/ DrainEnd(k)
                              \/ AppDrop(k) \/ Cancel(k)
      PROVE  RelOver
  <2>1. UNCHANGED <<coord, signaled>>
    BY <1>4 DEF Call, RecordSend, DrainOne, DrainEnd, AppDrop, Cancel
  <2>2. pc'["reliable"] = pc["reliable"]
          \/ pc'["reliable"] \notin {"closing", "closingSend", "eof"}
    BY <1>0, <1>4 DEF Call, RecordSend, DrainOne, DrainEnd, AppDrop, DropSink, Cancel
  <2> QED BY <1>a, <1>b, <2>1, <2>2
<1>5. ASSUME NEW k \in Sinks, MarkClosedSend(k)
      PROVE  RelOver
  <2>1. UNCHANGED <<coord, signaled>>
    BY <1>5 DEF MarkClosedSend
  <2>2. \/ pc'["reliable"] = pc["reliable"]
        \/ pc["reliable"] \in {"closingSend", "drainSend"}
    BY <1>0, <1>5 DEF MarkClosedSend
  <2> QED BY <1>a, <1>b, <2>1, <2>2
<1>6. \A k \in Sinks : ~ChannelClosed(k)
  BY DEF ChannelClosed
<1>7. CASE RelTop
  <2>1. CASE pendingEnd # None /\ asm.cursor > pendingEnd
    BY <2>1
  <2>2. CASE ~(pendingEnd # None /\ asm.cursor > pendingEnd)
    <3>1. UNCHANGED <<coord, signaled>> /\ pc'["reliable"] = "select"
      BY <1>0, <1>7, <2>2 DEF RelTop, EnterSelect
    <3> QED BY <1>a, <1>b, <3>1
  <2> QED BY <2>1, <2>2
<1>8. CASE RelNotified
  BY <1>8 DEF RelNotified
<1>9. CASE RelCommand \/ RelPacket \/ RelNack \/ RelRead
  <2>1. UNCHANGED <<coord, signaled>>
    BY <1>9 DEF RelCommand, RelPacket, RelNack, RelRead
  <2>2. pc'["reliable"] \in {"top", "nack", "read", "record", "draining"}
    BY <1>0, <1>9 DEF RelCommand, RelPacket, RelNack, RelRead, Panic, DropSink
  <2> QED BY <1>a, <1>b, <2>1, <2>2
<1>10. CASE UnreliableStep
  <2>1. /\ coord' = coord /\ signaled'["reliable"] = signaled["reliable"]
        /\ pc'["reliable"] = pc["reliable"]
    BY <1>0, <1>10 DEF UnreliableStep, UnrelTop, UnrelWait, UnrelNotified,
       UnrelPacket, SignalEof, EnterSelect
  <2> QED BY <1>a, <1>b, <2>1
<1>11. CASE Route \/ TaskStep
  <2>1. UNCHANGED <<coord, signaled, pc>>
    BY <1>11 DEF Route, TaskStep, TaskForward, TaskForwardFails, TaskSendAck,
       TaskSenderCommand, TaskExit
  <2> QED BY <1>a, <1>b, <2>1
<1>12. CASE CloseChannels \/ TaskTransferEnd \/ PeerCloses \/ \E s \in Seqs : Decode(s)
  <2>1. UNCHANGED <<coord, signaled, pc>>
    BY <1>12 DEF Decode, CloseChannels, TaskTransferEnd, PeerCloses, TaskExit
  <2> QED BY <1>a, <1>b, <2>1
<1> QED BY <1>a, <1>1, <1>2, <1>3, <1>4, <1>5, <1>6, <1>7, <1>8, <1>9, <1>10, <1>11,
           <1>12 DEF Next, SinkStep, ReliableStep, Environment

\* Only the task's answer to a TransferEnd ends a transfer and wakes the sinks.
LEMMA EndedFrame ==
    ASSUME TypeOK, [Next]_vars
    PROVE  \/ TaskSendAck \/ TaskTransferEnd
           \/ /\ isEnded' = isEnded
              /\ notified'["reliable"] => notified["reliable"]
<1> USE DEF sinkVars, taskVars
<1>0. notified \in [Sinks -> BOOLEAN] /\ "reliable" \in Sinks
  BY DEF TypeOK, Sinks
<1>1. CASE UNCHANGED vars
  BY <1>1 DEF vars
<1>2. ASSUME NEW k \in Sinks, SinkStep(k) \/ AppDrop(k) \/ Cancel(k)
      PROVE  UNCHANGED <<isEnded, notified>>
  BY <1>2 DEF SinkStep, Call, ChannelClosed, Record, RecordSend, MarkClosed,
     MarkClosedSend, DrainOne, DrainEnd, AppDrop, Cancel
<1>3. CASE ReliableStep
  BY <1>0, <1>3 DEF ReliableStep, RelTop, RelNotified, RelCommand, RelPacket,
     RelNack, RelRead, EnterSelect
<1>4. CASE UnreliableStep
  BY <1>0, <1>4 DEF UnreliableStep, UnrelTop, UnrelWait, UnrelNotified,
     UnrelPacket, EnterSelect
<1>5. CASE Route \/ TaskForward \/ TaskForwardFails \/ TaskSenderCommand
           \/ CloseChannels \/ PeerCloses \/ \E s \in Seqs : Decode(s)
  BY <1>5 DEF Route, TaskForward, TaskForwardFails, TaskSenderCommand, TaskExit,
     Decode, CloseChannels, PeerCloses
<1> QED BY <1>1, <1>2, <1>3, <1>4, <1>5 DEF Next, TaskStep, Environment

\* The reader's last chunk is the last one sent.
LEMMA PastTheEnd ==
    ASSUME TypeOK, InitialSeq = 0, asm.cursor > FinalSeq
    PROVE  NumSeqs <= asm.cursor
<1>1. NumSeqs \in Nat /\ NumSeqs <= SeqModulus - 1 /\ SeqModulus \in Nat \ {0}
  BY RecvAssumption, AssemblerAssumption
<1>2. asm.cursor \in Nat
  BY DEF TypeOK, AsmType, SeqNum
<1>3. CASE NumSeqs > 0
  <2>1. FinalSeq = InitialSeq + NumSeqs - 1
    BY <1>1, <1>3, FinalIs
  <2> QED BY <1>1, <1>2, <2>1
<1>4. CASE NumSeqs = 0
  BY <1>2, <1>4
<1> QED BY <1>1, <1>3, <1>4

LEMMA FinishStep ==
    ASSUME TypeOK, InitialSeq = 0, FinishInv, [Next]_vars, chOpen',
           asm.cursor <= asm'.cursor
    PROVE  FinishInv'
<1>0. /\ asm.cursor \in Nat /\ asm'.cursor \in Nat /\ NumSeqs \in Nat
      /\ endAcks \in Nat /\ pipeline \in Seq(SeqNum)
      /\ FinalSeq \in SeqNum /\ None \notin SeqNum
  <2>1. TypeOK'
    BY NextType
  <2>2. asm.cursor \in Nat /\ asm'.cursor \in Nat
    BY <2>1 DEF TypeOK, AsmType, SeqNum
  <2>3. FinalSeq \in SeqNum /\ None \notin SeqNum /\ NumSeqs \in Nat
    BY RecvAssumption, SeqsType DEF SeqNum
  <2> QED BY <2>2, <2>3 DEF TypeOK
<1> DEFINE Reached == Dual => NumSeqs <= asm.cursor
           Waits   == /\ pendingEnd \in {None, FinalSeq}
                      /\ \A i \in DOMAIN pipeline : pipeline[i] = FinalSeq
<1>1. /\ chOpen /\ Waits /\ (notified["reliable"] => isEnded)
      /\ endAcks > 0 \/ isEnded => Reached
      /\ ~ReliableDropped /\ RelOver => Reached
  BY DEF FinishInv
<1>2. pendingEnd # None /\ asm.cursor > pendingEnd => Reached
  BY <1>1, PastTheEnd
<1>3. TaskSendAck => Reached
  BY <1>0, <1>1 DEF TaskSendAck
<1>4. TaskTransferEnd => Reached \/ UNCHANGED <<isEnded, notified>>
  <2> SUFFICES ASSUME TaskTransferEnd, SeqAdd(FinalSeq, 1) = InitialSeq \/ ~Dual
               PROVE  Reached
    BY DEF TaskTransferEnd
  <2>1. CASE NumSeqs > 0
    <3>1. InitialSeq + NumSeqs <= SeqModulus
      BY RecvAssumption, AssemblerAssumption
    <3> QED BY <2>1, <3>1, FinalIs
  <2>2. CASE ~(NumSeqs > 0)
    BY <1>0, <2>2
  <2> QED BY <2>1, <2>2
<1>5. notified'["reliable"] => isEnded'
  <2>1. TaskSendAck => isEnded'
    BY DEF TaskSendAck, End
  <2>2. TaskTransferEnd => isEnded' \/ UNCHANGED <<isEnded, notified>>
    BY DEF TaskTransferEnd, End
  <2> QED BY <1>1, <2>1, <2>2, EndedFrame
<1>6. isEnded' => Reached
  <2>1. isEnded => Reached
    BY <1>1
  <2> HIDE DEF Reached
  <2> QED BY <1>3, <1>4, <2>1, EndedFrame
<1>7. ~ReliableDropped' /\ RelOver' => Reached
  <2>1. notified["reliable"] => Reached
    BY <1>1
  <2> HIDE DEF Reached
  <2> QED BY <1>1, <1>2, <2>1, OverFrame
<1>8. Waits' /\ (endAcks' > 0 => Reached)
  <2>1. CASE RelTop
    <3>1. pendingEnd' \in {None, pendingEnd} /\ pipeline' = pipeline
      BY <2>1 DEF RelTop
    <3>2. endAcks' = endAcks \/ (pendingEnd # None /\ asm.cursor > pendingEnd)
      BY <2>1 DEF RelTop
    <3>3. Waits'
      BY <1>1, <3>1
    <3> QED BY <1>1, <1>2, <3>2, <3>3
  <2>2. CASE RelCommand
    <3>1. /\ pipeline # << >> /\ pendingEnd' = Head(pipeline)
          /\ pipeline' = Tail(pipeline) /\ endAcks' = endAcks
      BY <2>2 DEF RelCommand, taskVars
    <3>2. 1 \in DOMAIN pipeline /\ Head(pipeline) = pipeline[1]
      BY <1>0, <3>1
    <3>3. \A i \in DOMAIN pipeline' :
            i + 1 \in DOMAIN pipeline /\ pipeline'[i] = pipeline[i + 1]
      BY <1>0, <3>1
    <3>4. Waits'
      BY <1>1, <3>1, <3>2, <3>3
    <3> QED BY <1>1, <3>1, <3>4
  <2>3. CASE TaskForward
    <3>1. pipeline' = << FinalSeq >> /\ UNCHANGED <<pendingEnd, endAcks>>
      BY <2>3 DEF TaskForward
    <3>2. Waits'
      BY <1>1, <3>1
    <3> QED BY <1>1, <3>1, <3>2
  <2>4. CASE TaskSendAck
    <3>1. UNCHANGED <<pendingEnd, pipeline>>
      BY <2>4 DEF TaskSendAck, relVars
    <3> QED BY <1>1, <1>3, <2>4, <3>1
  <2>5. CASE TaskTransferEnd
    <3>1. UNCHANGED <<pendingEnd, pipeline, endAcks>>
      BY <2>5 DEF TaskTransferEnd, relVars
    <3> QED BY <1>1, <3>1
  <2>6. CASE \/ /\ taskPc' = "exited" /\ endAcks' = 0
                /\ UNCHANGED <<pipeline, pendingEnd, acks>>
             \/ /\ UNCHANGED <<endAcks, owed, taskPc, acks>>
                /\ \/ UNCHANGED <<pipeline, pendingEnd>>
                   \/ pipeline' = << >> /\ pendingEnd' = None
    <3>1. endAcks' = endAcks \/ endAcks' = 0
      BY <2>6
    <3>2. \/ UNCHANGED <<pipeline, pendingEnd>>
          \/ pipeline' = << >> /\ pendingEnd' = None
      BY <2>6
    <3>3. Waits'
      BY <1>1, <3>2
    <3> QED BY <1>1, <3>1, <3>3
  <2> QED BY <2>1, <2>2, <2>3, <2>4, <2>5, <2>6, AckFrame
<1>9. Reached => (Dual => NumSeqs <= asm'.cursor)
  BY <1>0
<1> QED BY <1>5, <1>6, <1>7, <1>8, <1>9 DEF FinishInv

\* The decoding task outlives the transfer.
LEMMA ChannelsStayOpen ==
    ASSUME [TransferNext]_tvars
    PROVE  chOpen' = chOpen
<1> USE DEF netVars
<1>1. CASE SenderNext
  BY <1>1 DEF SenderNext, SendCall, TakeCredit, SenderRefused, Transmit, EndCall,
     AckTimeout, vars
<1>2. CASE STaskEndTransfer \/ STaskRequestTick \/ STaskNack
             \/ STaskCreditsUpdate \/ STaskEndAck \/ STaskExit
  BY <1>2 DEF STaskEndTransfer, STaskRequestTick, STaskNack, STaskCreditsUpdate,
     STaskEndAck, STaskExit, vars
<1>3. CASE RTaskTransferEnd \/ RTaskRetrans \/ RTaskCreditsRequest
             \/ RTaskSendAck \/ RTaskSenderCommand
  BY <1>3 DEF RTaskTransferEnd, RTaskRetrans, RTaskCreditsRequest, RTaskSendAck,
     RTaskSenderCommand, TaskTransferEnd, TaskSendAck, TaskSenderCommand, vars
<1>4. CASE LoseDatagram \/ RouteDatagram \/ DecodeDatagram
  BY <1>4, NoGrants DEF LoseDatagram, RouteDatagram, DecodeDatagram, vars
<1>5. CASE InsideStep
  BY <1>5 DEF InsideStep, Inside
<1> QED BY <1>1, <1>2, <1>3, <1>4, <1>5, TransferSteps

LEMMA FrontKept ==
    ASSUME TransferTypes, OverflowChecks, InitialSeq = 0, FrontInv, FinishInv,
           [TransferNext]_tvars
    PROVE  FrontInv' /\ FinishInv'
<1>1. TypeOK /\ [HalfNext]_vars
  BY HalfOfTransfer DEF TransferTypes
<1>2. chOpen' /\ chOpen
  BY ChannelsStayOpen DEF FinishInv
<1>3. CASE TaskExit
  <2>1. /\ UNCHANGED <<asm, pc, coord, out, signaled, notified, isEnded,
                       pendingEnd, pipeline>>
        /\ endAcks' = 0
    BY <1>3 DEF TaskExit, sinkVars, relVars
  <2>2. FrontInv'
    BY <2>1 DEF FrontInv, Recorded, ReliableDropped
  <2>3. FinishInv'
    BY <1>2, <2>1 DEF FinishInv, ReliableDropped, RelOver
  <2> QED BY <2>2, <2>3
<1>4. CASE [Next]_vars
  <2>1. FrontInv' /\ asm.cursor <= asm'.cursor
    BY <1>1, <1>4, FrontStep
  <2>2. FinishInv'
    BY <1>1, <1>2, <1>4, <2>1, FinishStep
  <2> QED BY <2>1, <2>2
<1> QED BY <1>1, <1>3, <1>4 DEF HalfNext

\* The sender's buffer holds the last SenderBuffer chunks it sent.
BufInv ==
    /\ buf \subseteq 0 .. (sent - 1)
    /\ Dual => \A i \in 0 .. (sent - 1) : i >= sent - SenderBuffer => i \in buf

LEMMA NumberOfChunk ==
    ASSUME InitialSeq = 0, NEW i \in 0 .. NumSeqs
    PROVE  SeqAdd(InitialSeq, i) = i
<1>1. NumSeqs \in 0 .. (SeqModulus - 1) /\ SeqModulus \in Nat \ {0}
  BY RecvAssumption, AssemblerAssumption
<1>2. i \in 0 .. (SeqModulus - 1) /\ 0 + i = i
  BY <1>1
<1> QED BY <1>1, <1>2, ModIdentity DEF SeqAdd

\* Only a buffer that is full evicts, and only what is SenderBuffer back.
LEMMA EvictsTheOldest ==
    ASSUME TransferTypes, InitialSeq = 0, BufInv, sent < NumSeqs,
           NEW i \in buf, i > sent - SenderBuffer
    PROVE  i \in Evicted(sent)
<1>1. /\ sent \in Nat /\ SenderBuffer \in Nat /\ NumSeqs \in 0 .. (SeqModulus - 1)
      /\ SeqModulus \in Nat \ {0}
  BY TransferAssumption, RecvAssumption, AssemblerAssumption
     DEF TransferTypes, SenderTypes
<1>2. i \in Int
  BY DEF BufInv
<1> SUFFICES ASSUME Cardinality(buf) >= SenderBuffer
             PROVE  i # SeqSub(sent, SenderBuffer)
  BY DEF Evicted
<1>3. /\ IsFiniteSet(0 .. (sent - 1)) /\ Cardinality(0 .. (sent - 1)) = sent
  <2>1. sent - 1 \in Int /\ 0 \in Int
    BY <1>1
  <2>2. /\ IsFiniteSet(0 .. (sent - 1))
        /\ Cardinality(0 .. (sent - 1))
             = IF 0 > sent - 1 THEN 0 ELSE (sent - 1) - 0 + 1
    BY <2>1, FS_Interval
  <2> QED BY <1>1, <2>2
<1>4. Cardinality(buf) \in Nat /\ Cardinality(buf) <= sent
  <2>1. buf \subseteq 0 .. (sent - 1)
    BY DEF BufInv
  <2>2. IsFiniteSet(buf) /\ Cardinality(buf) <= Cardinality(0 .. (sent - 1))
    BY <1>3, <2>1, FS_Subset
  <2>3. Cardinality(buf) \in Nat
    BY <2>2, FS_CardinalityType
  <2> QED BY <1>3, <2>2, <2>3
<1>5. SenderBuffer <= sent
  BY <1>1, <1>4
<1>6. sent - SenderBuffer \in 0 .. (SeqModulus - 1)
  BY <1>1, <1>5
<1>7. SeqSub(sent, SenderBuffer) = sent - SenderBuffer
  BY <1>1, <1>6, ModIdentity DEF SeqSub
<1> QED BY <1>1, <1>2, <1>7

LEMMA BufStep ==
    ASSUME TransferTypes, InitialSeq = 0, BufInv, [TransferNext]_tvars
    PROVE  BufInv'
<1>1. ASSUME UNCHANGED <<buf, sent>> PROVE BufInv'
  BY <1>1 DEF BufInv
<1>2. CASE Transmit
  <2>1. /\ sent \in Nat /\ sent < NumSeqs /\ SenderBuffer \in Nat /\ NumSeqs \in Nat
        /\ sent' = sent + 1
        /\ buf' = IF Dual THEN Evicted(nextSeq) \cup {nextSeq} ELSE buf
    BY <1>2, TransferAssumption, RecvAssumption DEF Transmit, TransferTypes, SenderTypes
  <2>2. nextSeq = sent
    <3>1. nextSeq = SeqAdd(InitialSeq, sent) /\ sent \in 0 .. NumSeqs
      BY <2>1 DEF TransferTypes, SenderTypes
    <3> QED BY <3>1, NumberOfChunk
  <2>3. buf' \subseteq buf \cup {sent}
    BY <2>1, <2>2 DEF Evicted
  <2>4. buf' \subseteq 0 .. (sent' - 1)
    <3> SUFFICES ASSUME NEW i \in buf' PROVE i \in 0 .. (sent' - 1)
      OBVIOUS
    <3>1. CASE i = sent
      BY <2>1, <3>1
    <3>2. CASE i \in buf
      BY <2>1, <3>2 DEF BufInv
    <3> QED BY <2>3, <3>1, <3>2
  <2>5. ASSUME Dual, NEW i \in 0 .. (sent' - 1), i >= sent' - SenderBuffer
        PROVE  i \in buf'
    <3>1. CASE i = sent
      BY <2>1, <2>2, <2>5, <3>1
    <3>2. CASE i # sent
      <4>1. i \in 0 .. (sent - 1) /\ i > sent - SenderBuffer
        BY <2>1, <2>5, <3>2
      <4>2. i \in buf
        BY <2>1, <2>5, <4>1 DEF BufInv
      <4>3. i \in Evicted(sent)
        BY <2>1, <4>1, <4>2, EvictsTheOldest
      <4> QED BY <2>1, <2>2, <2>5, <4>3
    <3> QED BY <3>1, <3>2
  <2> QED BY <2>4, <2>5 DEF BufInv
<1>3. CASE SenderNext /\ ~Transmit
  BY <1>1, <1>3 DEF SenderNext, SendCall, TakeCredit, SenderRefused, EndCall, AckTimeout
<1>4. CASE STaskEndTransfer \/ STaskRequestTick \/ STaskNack
             \/ STaskCreditsUpdate \/ STaskEndAck \/ STaskExit
  BY <1>1, <1>4 DEF STaskEndTransfer, STaskRequestTick, STaskNack, STaskCreditsUpdate,
     STaskEndAck, STaskExit, sendVars
<1>5. CASE RTaskTransferEnd \/ RTaskRetrans \/ RTaskCreditsRequest
             \/ RTaskSendAck \/ RTaskSenderCommand
  BY <1>1, <1>5 DEF RTaskTransferEnd, RTaskRetrans, RTaskCreditsRequest, RTaskSendAck,
     RTaskSenderCommand, sendVars
<1>6. CASE LoseDatagram \/ RouteDatagram \/ DecodeDatagram \/ InsideStep
  BY <1>1, <1>6 DEF LoseDatagram, RouteDatagram, DecodeDatagram, InsideStep, Inside,
     sendVars
<1> QED BY <1>2, <1>3, <1>4, <1>5, <1>6, TransferSteps

\* A window of datagrams is no more than the buffer holds of chunks.
LEMMA WindowFitsBuffer ==
    ASSUME NEW n \in Nat, NEW c \in Nat, NEW b \in Nat, NEW f \in Nat \ {0},
           n * f <= b * f + c
    PROVE  n <= b + c
<1> SUFFICES ASSUME n >= b + c + 1 PROVE FALSE
  OBVIOUS
<1>1. n * f >= (b + c + 1) * f
  BY <1>1
<1>2. (b + c + 1) * f = b * f + c * f + f
  OBVIOUS
<1>3. c * f >= c
  OBVIOUS
<1>4. /\ n * f \in Int /\ (b + c + 1) * f \in Int /\ b * f \in Int /\ c * f \in Int
  OBVIOUS
<1> QED BY <1>1, <1>2, <1>3, <1>4

LEMMA HolesAreBuffered ==
    ASSUME CreditLedger, FrontInv, FinishInv, BufInv, OverflowChecks, InitialSeq = 0,
           InitialCredits + Bulk * MaxRequests <= SenderBuffer * Frags
    PROVE  HolesCanBeFilled
<1> SUFFICES ASSUME ~ReliableDropped, NEW s \in MissingSeqs(asm),
                    s \in {SeqAdd(InitialSeq, i) : i \in 0 .. (sent - 1)}
             PROVE  s \in buf
  BY DEF HolesCanBeFilled, ReliableDropped
<1>1. /\ asm.cursor \in Nat /\ asm.packets \in Seq(SeqNum \cup {Missing})
      /\ SeqModulus \in Nat \ {0} /\ "reliable" \in Sinks
      /\ coord.drained["reliable"] \in Nat /\ out["reliable"] \in Seq(SeqNum)
  BY AssemblerAssumption
     DEF CreditLedger, TransferTypes, TypeOK, AsmType, CoordType, SeqNum, Sinks
<1>2. /\ sent \in Nat /\ sent <= NumSeqs /\ NumSeqs \in Nat /\ requests \in Nat
      /\ requests <= MaxRequests
      /\ InitialCredits \in Nat /\ SenderBuffer \in Nat /\ Frags \in Nat \ {0}
      /\ MaxRequests \in Nat /\ Bulk \in Nat \ {0}
  BY TransferAssumption, RecvAssumption, CoordinatorAssumption
     DEF CreditLedger, TransferTypes, SenderTypes
\* The hole is at the cursor or behind it.
<1>3. s \in Nat /\ s >= asm.cursor
  <2>1. PICK i \in DOMAIN asm.packets :
          asm.packets[i] = Missing /\ s = SeqAdd(asm.cursor, i - 1)
    BY DEF MissingSeqs
  <2>2. i \in Nat /\ i >= 1
    BY <1>1
  <2>3. asm.cursor + (i - 1) < SeqModulus
    <3>1. ~AddPanics(asm.cursor, i - 1)
      BY <2>1 DEF FrontInv, MissingPanics
    <3> QED BY <1>1, <2>2, <3>1 DEF AddPanics
  <2>4. asm.cursor + (i - 1) \in 0 .. (SeqModulus - 1)
    BY <1>1, <2>2, <2>3
  <2>5. s = asm.cursor + (i - 1)
    BY <1>1, <2>1, <2>4, ModIdentity DEF SeqAdd
  <2> QED BY <1>1, <2>2, <2>5
\* It was sent.
<1>4. s \in 0 .. (sent - 1)
  <2>1. PICK i \in 0 .. (sent - 1) : s = SeqAdd(InitialSeq, i)
    OBVIOUS
  <2>2. i \in 0 .. NumSeqs
    BY <1>2
  <2> QED BY <2>1, <2>2, NumberOfChunk
<1>5. asm.cursor < NumSeqs
  BY <1>1, <1>2, <1>3, <1>4
\* So the sink is open and the credit window bounds how far ahead the sender is.
<1>6. Dual /\ Gating(coord, "reliable")
  <2>1. Dual
    BY DEF FrontInv
  <2>2. ~RelOver
    BY <1>1, <1>2, <1>5, <2>1 DEF FinishInv
  <2> QED BY <2>1, <2>2 DEF RelOver, Gating
<1>7. sent * Frags <= InitialCredits + coord.drained["reliable"] + Bulk * requests
  BY <1>1, <1>6, WindowMeans DEF WindowBound
<1>8. coord.drained["reliable"] <= asm.cursor
  BY <1>1 DEF FrontInv, Recorded
<1>9. Bulk * requests <= Bulk * MaxRequests
  BY <1>2
<1>10. sent * Frags <= SenderBuffer * Frags + asm.cursor
  <2>1. /\ sent * Frags \in Int /\ SenderBuffer * Frags \in Int
        /\ Bulk * requests \in Int /\ Bulk * MaxRequests \in Int
    BY <1>2
  <2>2. InitialCredits + Bulk * MaxRequests <= SenderBuffer * Frags
    OBVIOUS
  <2> DEFINE p == sent * Frags
             q == SenderBuffer * Frags
             r == Bulk * requests
             m == Bulk * MaxRequests
             d == coord.drained["reliable"]
  <2>3. /\ p \in Int /\ q \in Int /\ r \in Int /\ m \in Int
        /\ p <= InitialCredits + d + r /\ r <= m /\ InitialCredits + m <= q
        /\ d <= asm.cursor /\ d \in Int /\ asm.cursor \in Int /\ InitialCredits \in Int
    BY <1>1, <1>2, <1>7, <1>8, <1>9, <2>1, <2>2
  <2> HIDE DEF p, q, r, m, d
  <2>4. p <= q + asm.cursor
    BY ONLY <2>3
  <2> QED BY <2>4 DEF p, q
<1>11. sent <= SenderBuffer + asm.cursor
  BY ONLY <1>1, <1>2, <1>10, WindowFitsBuffer
<1>12. s >= sent - SenderBuffer
  BY ONLY <1>1, <1>2, <1>3, <1>11
<1> QED BY <1>4, <1>6, <1>12 DEF BufInv

\* Whatever the reliable sink still waits for can be sent again, as long as the
\* credits a sender can have open at once are no more datagrams than its
\* retransmission buffer holds: however chunks are lost, overtake each other,
\* are repeated or acknowledged late, and whichever sink is dropped, none has
\* left the buffer when a NACK asks for it.  Numbers start at 0, where the
\* receiver's cursor does, and the build checks overflow: without the checks a
\* late repetition makes holes out of numbers read long ago.
THEOREM HolesRefillable ==
    ASSUME OverflowChecks, InitialSeq = 0,
           InitialCredits + Bulk * MaxRequests <= SenderBuffer * Frags
    PROVE  TransferSpec => []HolesCanBeFilled
<1> DEFINE Inv == CreditLedger /\ FrontInv /\ FinishInv /\ BufInv
<1>1. TransferInit => Inv
  <2> SUFFICES ASSUME TransferInit PROVE Inv
    OBVIOUS
  <2>1. CreditLedger
    BY TransferInitTypes, HalfInit, LedgerInit DEF CreditLedger
  <2>2. /\ asm.cursor = 0 /\ asm.packets = << >> /\ pendingEnd = None /\ pipeline = << >>
        /\ chOpen /\ ~notified["reliable"] /\ ~signaled["reliable"] /\ ~isEnded
        /\ endAcks = 0 /\ coord.drained["reliable"] = 0 /\ ~coord.closed["reliable"]
        /\ pc["reliable"] = IF Dual THEN "idle" ELSE "gone"
    BY DEF TransferInit, Init, NewAssembler, NewCoord, Sinks
  <2>3. FrontInv
    BY <2>2 DEF FrontInv, Recorded, ReliableDropped, MissingPanics
  <2>4. FinishInv
    BY <2>2 DEF FinishInv, ReliableDropped, RelOver
  <2>5. BufInv
    <3>1. buf = {} /\ sent = 0
      BY DEF TransferInit
    <3> QED BY <3>1 DEF BufInv
  <2> QED BY <2>1, <2>3, <2>4, <2>5
<1>2. Inv /\ [TransferNext]_tvars => Inv'
  <2> SUFFICES ASSUME Inv, [TransferNext]_tvars PROVE Inv'
    OBVIOUS
  <2>1. CreditLedger'
    BY TransferStepTypes, HalfStep, LedgerStep DEF CreditLedger
  <2>2. TransferTypes
    BY DEF CreditLedger
  <2> QED BY <2>1, <2>2, FrontKept, BufStep
<1>3. Inv => HolesCanBeFilled
  BY HolesAreBuffered
<1> QED BY <1>1, <1>2, <1>3, PTL DEF TransferSpec
=============================================================================
