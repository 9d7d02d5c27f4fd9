---------------------------- MODULE ManiTransfer ----------------------------
(****************************************************************************)
(* One transfer end to end: TransferSendStream (mani/transfer/send.rs) with *)
(* its BackpressureBank, the sending peer's ManiStreamTask (mani/stream.rs, *)
(* Sender role), the QUIC stream that carries control messages in order     *)
(* both ways, the datagrams, which may be lost and overtaken, the decoding  *)
(* task with its fragment groups, and the receiving half of RecvStreams.    *)
(*                                                                          *)
(* The model starts when TransferStart has been handled and the datagram    *)
(* channel registered, and ends with the acknowledged TransferEnd.  The     *)
(* actions of RecvStreams are reused whole, each conjoined with the part of *)
(* the wire it reads or writes.                                             *)
(****************************************************************************)
EXTENDS RecvStreams, SequencesExt

CONSTANTS InitialCredits,  \* initial_backpressure_credits
          SenderBuffer,    \* max_retransmission_buffer_size of the sender
          Frags,           \* datagrams per logical chunk
          MaxGroups,       \* max_chunk_buffer_size, of fragment groups
          MaxLosses,       \* bound: datagrams the network loses
          MaxRequests,     \* bound: ticks of the credits request interval
          Reorder,         \* whether datagrams may overtake each other
          HandleDrops,     \* peers whose ManiStream handle may be dropped
          MayTimeout       \* whether the 5 s wait for the ack may run out

ASSUME TransferAssumption ==
    /\ InitialCredits \in Nat
    /\ SenderBuffer \in Nat
    /\ Frags \in Nat \ {0}
    /\ MaxGroups \in Nat
    /\ MaxLosses \in Nat
    /\ MaxRequests \in Nat
    /\ Reorder \in BOOLEAN
    /\ HandleDrops \subseteq {"sender", "receiver"}
    /\ MayTimeout \in BOOLEAN

VARIABLES
    sPc,        \* idle, crediting, ending, ended, failed
    need,       \* credits the current send() has still to take
    nextSeq,    \* sequence_counter
    sent,       \* history: logical chunks sent
    bank,       \* permits of the BackpressureBank
    bankOpen,   \* the semaphore is not closed
    buf,        \* sequence numbers in the retransmission buffer
    endCmd,     \* EndTransfer commands queued for the sending task
    ackWanted,  \* transfer_end_ack_sender is Some
    endResult,  \* what end() returned: none, ok, timeout
    toRecv,     \* control messages to the receiving task
    toSend,     \* control messages to the sending task
    net,        \* datagrams in flight
    dgCh,       \* the receiver's datagram channel
    groups,     \* FragmentBuffers: per sequence number, fragments present
    losses, requests

sendVars  == <<sPc, need, nextSeq, sent, bank, bankOpen, buf, endCmd,
               ackWanted, endResult, requests>>
wireVars  == <<toRecv, toSend, net, losses>>
pipeVars  == <<dgCh, groups>>
tvars == <<vars, sendVars, wireVars, pipeVars>>

Datagram(s, f) == [seq |-> s, frag |-> f]
Control(kind, seqs, n) == [kind |-> kind, seqs |-> seqs, n |-> n]

TransferInit ==
    /\ Init
    /\ sPc = "idle"
    /\ need = 0
    /\ nextSeq = InitialSeq
    /\ sent = 0
    /\ bank = InitialCredits
    /\ bankOpen = TRUE
    /\ buf = {}
    /\ endCmd = 0
    /\ ackWanted = FALSE
    /\ endResult = "none"
    /\ toRecv = << >>
    /\ toSend = << >>
    /\ net = << >>
    /\ dgCh = << >>
    /\ groups = [s \in {} |-> {}]
    /\ losses = 0
    /\ requests = 0

-----------------------------------------------------------------------------
(* The sending application and TransferSendStream                           *)

SendCall ==
    /\ sPc = "idle"
    /\ sent < NumSeqs
    /\ sPc' = "crediting"
    /\ need' = Frags
    /\ UNCHANGED <<vars, wireVars, pipeVars, nextSeq, sent, bank, bankOpen,
                   buf, endCmd, ackWanted, endResult, requests>>

\* wait_for_credit(): one permit is taken and forgotten per datagram.
TakeCredit ==
    /\ sPc = "crediting"
    /\ need > 0
    /\ bankOpen
    /\ bank > 0
    /\ bank' = bank - 1
    /\ need' = need - 1
    /\ UNCHANGED <<vars, wireVars, pipeVars, sPc, nextSeq, sent, bankOpen,
                   buf, endCmd, ackWanted, endResult, requests>>

\* The sending task is gone: wait_for_credit() returns false, end() finds the
\* command channel closed.
SenderRefused ==
    /\ ~bankOpen
    /\ \/ sPc = "crediting" /\ need > 0
       \/ sPc = "idle" /\ sent = NumSeqs
    /\ sPc' = "failed"
    /\ UNCHANGED <<vars, wireVars, pipeVars, need, nextSeq, sent, bank,
                   bankOpen, buf, endCmd, ackWanted, endResult, requests>>

\* Mutant: the entry after the oldest is dropped.
EvictedNewer(s) ==
    IF Cardinality(buf) >= SenderBuffer
    THEN buf \ {SeqSub(s, SenderBuffer - 1)}
    ELSE buf

\* The buffer makes room by dropping the entry SenderBuffer numbers back.
Evicted(s) ==
    IF Cardinality(buf) >= SenderBuffer
    THEN buf \ {SeqSub(s, SenderBuffer)}
    ELSE buf

Transmit ==
    /\ sPc = "crediting"
    /\ need = 0
    /\ net' = net \o [f \in 1 .. Frags |-> Datagram(nextSeq, f)]
    /\ buf' = IF Dual THEN Evicted(nextSeq) \cup {nextSeq} ELSE buf
    /\ nextSeq' = SeqAdd(nextSeq, 1)
    /\ sent' = sent + 1
    /\ sPc' = "idle"
    /\ UNCHANGED <<vars, pipeVars, toRecv, toSend, losses, need, bank,
                   bankOpen, endCmd, ackWanted, endResult, requests>>

\* end(): the command is queued and its response awaited.
EndCall ==
    /\ sPc = "idle"
    /\ sent = NumSeqs
    /\ bankOpen
    /\ sPc' = "ending"
    /\ endCmd' = endCmd + 1
    /\ UNCHANGED <<vars, wireVars, pipeVars, need, nextSeq, sent, bank,
                   bankOpen, buf, ackWanted, endResult, requests>>

\* The task waiting for the ack answers end() with an error after 5 s.
AckTimeout ==
    /\ MayTimeout
    /\ sPc = "ending"
    /\ endCmd = 0
    /\ sPc' = "ended"
    /\ endResult' = "timeout"
    /\ UNCHANGED <<vars, wireVars, pipeVars, need, nextSeq, sent, bank,
                   bankOpen, buf, endCmd, ackWanted, requests>>

-----------------------------------------------------------------------------
(* ManiStreamTask of the sending peer                                       *)

Received(kind) ==
    /\ bankOpen
    /\ toSend # << >>
    /\ Head(toSend).kind = kind
    /\ toSend' = Tail(toSend)

\* end_transfer_internal.  The CreditsUpdate it writes too goes to the other
\* peer's own bank, which this transfer does not use.
STaskEndTransfer ==
    /\ bankOpen
    /\ endCmd > 0
    /\ endCmd' = endCmd - 1
    /\ ackWanted' = TRUE
    /\ toRecv' = Append(toRecv, Control("transferEnd", {}, 0))
    /\ UNCHANGED <<vars, pipeVars, toSend, net, losses, sPc, need, nextSeq,
                   sent, bank, bankOpen, buf, endResult, requests>>

STaskRequestTick ==
    /\ bankOpen
    /\ requests < MaxRequests
    /\ requests' = requests + 1
    /\ toRecv' = Append(toRecv, Control("creditsRequest", {}, 0))
    /\ UNCHANGED <<vars, pipeVars, toSend, net, losses, sPc, need, nextSeq,
                   sent, bank, bankOpen, buf, endCmd, ackWanted, endResult>>

\* Every fragment of the chunks, one chunk after the other.
Retrans(chunks) ==
    [i \in 1 .. Len(chunks) * Frags |->
       Control("retrans", {chunks[((i - 1) \div Frags) + 1]},
               ((i - 1) % Frags) + 1)]

\* handle_nack: every fragment of every requested chunk still buffered, in
\* the order of the request, which is ascending.
STaskNack ==
    /\ Received("nack")
    /\ LET wanted == Head(toSend).seqs \cap buf
       IN  \E chunks \in [1 .. Cardinality(wanted) -> wanted] :
             /\ \A i, j \in DOMAIN chunks : i < j => chunks[i] < chunks[j]
             /\ toRecv' = toRecv \o Retrans(chunks)
    /\ UNCHANGED <<vars, sendVars, pipeVars, net, losses>>

STaskCreditsUpdate ==
    /\ Received("credits")
    /\ bank' = bank + Head(toSend).n
    /\ UNCHANGED <<vars, pipeVars, toRecv, net, losses, sPc, need, nextSeq,
                   sent, bankOpen, buf, endCmd, ackWanted, endResult,
                   requests>>

\* handle_transfer_end_ack: end() returns unless it timed out before.
STaskEndAck ==
    /\ Received("endAck")
    /\ ackWanted' = FALSE
    /\ IF ackWanted /\ sPc = "ending"
       THEN sPc' = "ended" /\ endResult' = "ok"
       ELSE UNCHANGED <<sPc, endResult>>
    /\ UNCHANGED <<vars, pipeVars, toRecv, net, losses, need, nextSeq, sent,
                   bank, bankOpen, buf, endCmd, requests>>

\* Mutant: a waiting end() is not told that the stream is gone.
STaskExitSilent ==
    /\ bankOpen
    /\ bankOpen' = FALSE
    /\ UNCHANGED <<vars, wireVars, pipeVars, sPc, need, nextSeq, sent, bank,
                   buf, endCmd, ackWanted, endResult, requests>>

\* The task ends: the bank is shut and a waiting end() fails.
STaskExit ==
    /\ bankOpen
    /\ bankOpen' = FALSE
    /\ sPc' = IF sPc = "ending" THEN "failed" ELSE sPc
    /\ UNCHANGED <<vars, wireVars, pipeVars, need, nextSeq, sent, bank, buf,
                   endCmd, ackWanted, endResult, requests>>

\* The other peer's task ended and with it the stream.
STaskPeerClosed ==
    /\ taskPc = "exited"
    /\ toSend = << >>
    /\ STaskExit

\* The application dropped its ManiStream: a Sender waits for nothing.
STaskHandleDropped ==
    /\ "sender" \in HandleDrops
    /\ STaskExit

-----------------------------------------------------------------------------
(* Datagrams: the network and DatagramPacketRouter::route                   *)

LoseDatagram ==
    /\ losses < MaxLosses
    /\ losses' = losses + 1
    /\ \E i \in DOMAIN net : net' = RemoveAt(net, i)
    /\ UNCHANGED <<vars, sendVars, pipeVars, toRecv, toSend>>

\* The router waits for room in the stream's channel.
RouteDatagram ==
    /\ Len(dgCh) < ChannelSize
    /\ \E i \in DOMAIN net :
         /\ i = 1 \/ Reorder
         /\ net' = RemoveAt(net, i)
         /\ dgCh' = Append(dgCh, net[i])
    /\ UNCHANGED <<vars, sendVars, toRecv, toSend, losses, groups>>

-----------------------------------------------------------------------------
(* CompressedPacketReceiver::run                                            *)

\* The groups after fragment f of chunk s: an incomplete group, that of the
\* smallest sequence number, makes room for a new one.
GroupsWith(s, f) ==
    LET known == DOMAIN groups
        kept  == IF s \notin known /\ Cardinality(known) >= MaxGroups
                    /\ known # {}
                 THEN known \ {Min(known)}
                 ELSE known
    IN  [g \in kept \cup {s} |->
           (IF g \in known THEN groups[g] ELSE {}) \cup
           (IF g = s THEN {f} ELSE {})]

DecodeDatagram ==
    /\ dgCh # << >>
    /\ LET d == Head(dgCh)
           with == GroupsWith(d.seq, d.frag)
       IN  IF Cardinality(with[d.seq]) = Frags
           THEN /\ Decode(d.seq)
                /\ groups' = [g \in DOMAIN with \ {d.seq} |-> with[g]]
           ELSE /\ chOpen
                /\ routing.to = "none"
                /\ groups' = with
                /\ UNCHANGED vars
    /\ dgCh' = Tail(dgCh)
    /\ UNCHANGED <<sendVars, wireVars>>

-----------------------------------------------------------------------------
(* ManiStreamTask of the receiving peer: RecvStreams' steps on the wire     *)

Incoming(kind) ==
    /\ taskPc = "running"
    /\ toRecv # << >>
    /\ Head(toRecv).kind = kind
    /\ toRecv' = Tail(toRecv)

RTaskTransferEnd ==
    /\ Incoming("transferEnd")
    /\ TaskTransferEnd
    /\ toSend' = IF acks' = acks THEN toSend
                 ELSE Append(toSend, Control("endAck", {}, 0))
    /\ UNCHANGED <<sendVars, net, losses, pipeVars>>

\* handle_retrans: try_send, so a full channel loses the retransmission.
RTaskRetrans ==
    /\ Incoming("retrans")
    /\ LET s == CHOOSE s \in Head(toRecv).seqs : TRUE
       IN  dgCh' = IF Len(dgCh) < ChannelSize
                   THEN Append(dgCh, Datagram(s, Head(toRecv).n))
                   ELSE dgCh
    /\ UNCHANGED <<vars, sendVars, toSend, net, losses, groups>>

RTaskCreditsRequest ==
    /\ Incoming("creditsRequest")
    /\ toSend' = Append(toSend, Control("credits", {}, Bulk))
    /\ UNCHANGED <<vars, sendVars, net, losses, pipeVars>>

RTaskSendAck ==
    /\ TaskSendAck
    /\ toSend' = Append(toSend, Control("endAck", {}, 0))
    /\ UNCHANGED <<sendVars, toRecv, net, losses, pipeVars>>

\* handle_sender_command writes the command to the peer.
RTaskSenderCommand ==
    /\ TaskSenderCommand
    /\ toSend' = Append(toSend, Control(Head(scCh).kind, Head(scCh).seqs,
                                        Head(scCh).credits))
    /\ UNCHANGED <<sendVars, toRecv, net, losses, pipeVars>>

\* Steps of the receiving half that stay inside it.
Inside(A) == A /\ UNCHANGED <<sendVars, wireVars, pipeVars>>

\* Mutant: the task does not wait for what it owes.
RTaskHandleDroppedEarly ==
    /\ "receiver" \in HandleDrops
    /\ taskPc = "running"
    /\ Inside(TaskExit)

\* The ManiStream is dropped: a Receiver first sees to every TransferEnd.
RTaskHandleDropped ==
    /\ "receiver" \in HandleDrops
    /\ taskPc = "running"
    /\ owed = 0
    /\ isEnded
    /\ Inside(TaskExit)

\* The sending task closed the stream and everything it wrote was read.
RTaskPeerClosed ==
    /\ ~bankOpen
    /\ toRecv = << >>
    /\ Inside(PeerCloses)

-----------------------------------------------------------------------------
SenderNext == SendCall \/ TakeCredit \/ SenderRefused \/ Transmit \/ EndCall
              \/ AckTimeout

STaskNext == STaskEndTransfer \/ STaskNack \/ STaskCreditsUpdate
             \/ STaskEndAck \/ STaskPeerClosed

RTaskNext == RTaskTransferEnd \/ RTaskRetrans \/ RTaskCreditsRequest
             \/ RTaskSendAck \/ RTaskSenderCommand
             \/ Inside(TaskForward) \/ Inside(TaskForwardFails)
             \/ RTaskPeerClosed

SinksNext == Inside((\E k \in Sinks : SinkStep(k) \/ AppDrop(k) \/ Cancel(k))
                    \/ ReliableStep \/ UnreliableStep)

PipeNext == DecodeDatagram \/ Inside(Route)

TransferNext ==
    \/ SenderNext
    \/ STaskNext
    \/ RTaskNext
    \/ SinksNext
    \/ PipeNext
    \/ LoseDatagram
    \/ RouteDatagram
    \/ STaskRequestTick
    \/ STaskHandleDropped
    \/ RTaskHandleDropped

TransferSpec == TransferInit /\ [][TransferNext]_tvars

\* The runtime runs every task that can run, the network delivers what it
\* does not lose, and the applications keep calling send(), end() and recv().
\* The 5 s wait for an ack ends, if MayTimeout; nothing makes a sink or a
\* handle be dropped, a datagram be lost or credits be requested.
Fairness ==
    /\ WF_tvars(AckTimeout)
    /\ WF_tvars(SendCall \/ TakeCredit \/ SenderRefused \/ Transmit \/ EndCall)
    /\ WF_tvars(STaskNext)
    /\ WF_tvars(RTaskNext)
    /\ \A k \in Sinks : WF_tvars(Inside(SinkStep(k)))
    /\ WF_tvars(Inside(ReliableStep))
    /\ WF_tvars(Inside(UnreliableStep))
    /\ WF_tvars(PipeNext)
    /\ WF_tvars(RouteDatagram)

FairTransferSpec == TransferSpec /\ Fairness

-----------------------------------------------------------------------------
(* Properties                                                               *)

ControlType == [kind : {"transferEnd", "retrans", "creditsRequest", "nack",
                        "credits", "endAck"},
                seqs : SUBSET SeqNum, n : Nat]
DatagramType == [seq : SeqNum, frag : 1 .. Frags]

\* Every variable has its type.
TransferTypeOK ==
    /\ TypeOK
    /\ sPc \in {"idle", "crediting", "ending", "ended", "failed"}
    /\ need \in 0 .. Frags
    /\ nextSeq \in SeqNum
    /\ sent \in 0 .. NumSeqs
    /\ bank \in Nat
    /\ bankOpen \in BOOLEAN
    /\ buf \subseteq SeqNum
    /\ endCmd \in Nat
    /\ ackWanted \in BOOLEAN
    /\ endResult \in {"none", "ok", "timeout"}
    /\ toRecv \in Seq(ControlType)
    /\ toSend \in Seq(ControlType)
    /\ net \in Seq(DatagramType)
    /\ dgCh \in Seq(DatagramType)
    /\ DOMAIN groups \subseteq SeqNum
    /\ \A s \in DOMAIN groups : groups[s] \subseteq 1 .. Frags
    /\ losses \in 0 .. MaxLosses
    /\ requests \in 0 .. MaxRequests

ControlCredits(q) == Total([i \in DOMAIN q |-> q[i].n])

CreditsOnWire == ControlCredits(toSend)

RequestsAnswered ==
    requests - Cardinality({i \in DOMAIN toRecv :
                              toRecv[i].kind = "creditsRequest"})

CreditsSpent == sent * Frags + IF sPc = "crediting" THEN Frags - need ELSE 0

\* Credits are neither lost nor forged between the coordinator and the bank:
\* those spent, banked and on their way are the initial ones, those emitted
\* and one batch per answered TransferCreditsRequest, as long as the task
\* lives and no send() fails with some of its credits taken.
CreditConservation ==
    taskPc # "exited" /\ sPc # "failed" =>
        CreditsSpent + bank + CreditsOnWire + InFlight =
            InitialCredits + coord.emitted + Bulk * RequestsAnswered

\* The sender is never further ahead of an open sink's application than the
\* initial credit window ("never flooded beyond the credit window").
WithinCreditWindow ==
    \A k \in Sinks :
        Gating(coord, k) => sent - coord.drained[k] <= InitialCredits

\* Whatever the reliable sink still waits for, the sender can send again:
\* no chunk sent and not yet surfaced has left the retransmission buffer.
HolesCanBeFilled ==
    pc["reliable"] \notin {"draining", "drainClosing", "drainSend", "gone"} =>
        \A s \in MissingSeqs(asm) :
            s \in {SeqAdd(InitialSeq, i) : i \in 0 .. (sent - 1)} => s \in buf

\* end() returns Ok only after the reliable sink returned as many chunks as
\* were sent.
EndMeansSurfaced ==
    endResult = "ok" /\ Dual => Len(delivered["reliable"]) >= NumSeqs

\* The reliable sink returns the chunks in order, each once.
InOrder ==
    \A k \in DOMAIN delivered["reliable"] :
        delivered["reliable"][k] = SeqAdd(InitialSeq, k - 1)

\* At EOF the unreliable sink of a transfer without loss has returned all.
UnreliableComplete ==
    pc["unreliable"] = "eof" /\ losses = 0 =>
        Len(delivered["unreliable"]) = NumSeqs

\* The reliable sink never aborts on an integer overflow.
NoPanic == cut["reliable"] # "panicked"

\* The transfer is what the applications were promised.
Promise == INSTANCE ReliableTransfer WITH
    First <- InitialSeq, Count <- NumSeqs, taken <- sent,
    received <- delivered["reliable"],
    ended <- sPc \in {"ending", "ended"},
    confirmed <- endResult = "ok"

KeepsPromise == Promise!ASpec

\* Every transfer gets through: end() returns Ok.
EndSucceeds == <>(endResult = "ok")

\* An end() under way succeeds: the task sees to the pending protocol work.
EndingSucceeds == (sPc = "ending") ~> (endResult = "ok")

\* end() returns: the ack comes, the stream fails, or the wait times out.
EndReturns == (sPc = "ending") ~> (sPc \in {"ended", "failed"})

\* The reliable sink reports the end of the transfer.
ReliableEof == <>(pc["reliable"] = "eof")

\* The unreliable sink reports the end of the transfer.
UnreliableEof == <>(pc["unreliable"] = "eof")

\* A dropped sink stops gating the credits of the other one.
DropUngates ==
    \A k \in Sinks : (pc[k] = "draining") ~> ~Gating(coord, k)
=============================================================================
