----------------------------- MODULE RecvStreams -----------------------------
(****************************************************************************)
(* The receiving half of one transfer: the two sinks an application reads   *)
(* (mani/transfer/recv.rs), the task that routes decoded packets to them    *)
(* (mani/transfer/compression.rs, route) and the part of ManiStreamTask     *)
(* (mani/stream.rs) that talks to them.                                     *)
(*                                                                          *)
(* Each sink is a process that runs inside the application's calls of       *)
(* recv(); a step of it is the code between two awaits or between two       *)
(* accesses of shared state.  pc[k] says where sink k is:                   *)
(*                                                                          *)
(*   idle        the application is between two calls of recv()             *)
(*   top         at the head of recv()'s loop                               *)
(*   checked     (unreliable) is_end was read, notified() not yet created   *)
(*   select      waiting in tokio::select!                                  *)
(*   nack        (reliable) sending a NACK to the task                      *)
(*   read        (reliable) about to call read_ordered()                    *)
(*   record      about to lock the CreditCoordinator and record a drain     *)
(*   recording   holding the lock, sending UpdateCredits                    *)
(*   closing     about to lock the coordinator and mark the sink closed     *)
(*   closingSend holding the lock, sending UpdateCredits                    *)
(*   eof         recv() returned None                                       *)
(*   draining, drainClosing, drainSend, gone                                *)
(*               the task spawned by Drop                                   *)
(*                                                                          *)
(* The environment is every order, repetition and loss of packets with      *)
(* sequence numbers in Seqs, and a task that handles its commands in any    *)
(* order it may.  A payload is named by its sequence number.                *)
(****************************************************************************)
EXTENDS Assembler, CreditCoordinator, FiniteSets, FiniteSetsExt

CONSTANTS InitialSeq,    \* initial_sequence_number of the transfer
          NumSeqs,       \* logical chunks the peer sends from there on
          ChannelSize,   \* max_datagram_channel_size, of each sink's channel
          CommandSize,   \* capacity of the sender_command channel
          MaxArrivals,   \* bound: packets the routing task decodes
          MaxEnds,       \* bound: TransferEnd messages
          MayDrop,       \* sinks the application may drop
          MayCancel,     \* sinks whose recv() future may be dropped midway
          MayClose,      \* whether the channels' senders may go away
          MayExit,       \* whether the peer may close the stream
          None           \* no pending TransferEnd

ASSUME RecvAssumption ==
    /\ InitialSeq \in SeqNum
    /\ NumSeqs \in 0 .. (SeqModulus - 1)
    /\ ChannelSize \in Nat \ {0}
    /\ CommandSize \in Nat \ {0}
    /\ MaxArrivals \in Nat
    /\ MaxEnds \in Nat
    /\ MayDrop \subseteq Sinks
    /\ MayCancel \subseteq Sinks
    /\ MayClose \in BOOLEAN
    /\ MayExit \in BOOLEAN
    /\ None \notin Int

VARIABLES
    asm,         \* the reliable sink's Assembler
    pendingEnd,  \* its pending_end: a final sequence number or None
    pipeline,    \* the RecvPipelineCommand channel, of capacity 1
    ch,          \* r1 and r2: the chunk channel of each sink
    routing,     \* the packet route() is handing out, and to which sink next
    chOpen,      \* the channels' senders exist (the decoding task runs)
    pc,
    notified,    \* the Notified future of a sink in select was woken
    signaled,    \* closed_signaled
    out,         \* packets recv() is about to return
    emission,    \* credits maybe_emit() is sending with the lock held
    coord,       \* CoordState
    lock,        \* who holds its mutex, or "free"
    scCh,        \* the RecvSenderCommand channel to the task
    taskPc,      \* running, forwarding (a TransferEnd to the pipeline), exited
    isEnded,     \* is_ended
    endAcks,     \* SendTransferEndAck commands on their way to the task
    owed,        \* pending_ack_count
    delivered,   \* history: what recv() of each sink returned
    granted,     \* history: credits sent to the peer as UpdateCredits
    acks,        \* history: TransferEndAck messages sent
    arrivals,    \* packets decoded
    ends,        \* TransferEnd messages handled
    cut          \* history: how a sink's recv() was cut short, if it was

sinkVars == <<pc, notified, signaled, out, emission>>
relVars  == <<asm, pendingEnd, pipeline>>
taskVars == <<taskPc, isEnded, endAcks, owed, granted, acks, ends>>
netVars  == <<routing, chOpen, arrivals>>
vars == <<sinkVars, relVars, taskVars, netVars, ch, coord, lock, scCh,
          delivered, cut>>

Seqs == {SeqAdd(InitialSeq, i) : i \in 0 .. (NumSeqs - 1)}

\* Mutants: off by one at either side of the last chunk.
FinalSeqShort == SeqSub(InitialSeq + NumSeqs, 2)
FinalSeqLong  == SeqAdd(InitialSeq, NumSeqs)

\* final_sequence_number(): one before the first when nothing was sent.
FinalSeq == SeqSub(InitialSeq + NumSeqs, 1)

Nack(seqs)   == [kind |-> "nack", seqs |-> seqs, credits |-> 0]
Credits(n)   == [kind |-> "credits", seqs |-> {}, credits |-> n]

FirstSink == IF Dual THEN "reliable" ELSE "unreliable"

Init ==
    /\ asm = NewAssembler
    /\ pendingEnd = None
    /\ pipeline = << >>
    /\ ch = [k \in Sinks |-> << >>]
    /\ routing = [to |-> "none", seq |-> 0]
    /\ chOpen = TRUE
    /\ pc = [k \in Sinks |->
               IF k = "reliable" /\ ~Dual THEN "gone" ELSE "idle"]
    /\ notified = [k \in Sinks |-> FALSE]
    /\ signaled = [k \in Sinks |-> FALSE]
    /\ out = [k \in Sinks |-> << >>]
    /\ emission = [k \in Sinks |-> 0]
    /\ coord = NewCoord
    /\ lock = "free"
    /\ scCh = << >>
    /\ taskPc = "running"
    /\ isEnded = FALSE
    /\ endAcks = 0
    /\ owed = 0
    /\ delivered = [k \in Sinks |-> << >>]
    /\ granted = 0
    /\ acks = 0
    /\ arrivals = 0
    /\ ends = 0
    /\ cut = [k \in Sinks |-> "no"]

-----------------------------------------------------------------------------
(* The decoding task: CompressedPacketReceiver::run and route.              *)

Decode(s) ==
    /\ chOpen
    /\ routing.to = "none"
    /\ arrivals < MaxArrivals
    /\ routing' = [to |-> FirstSink, seq |-> s]
    /\ arrivals' = arrivals + 1
    /\ UNCHANGED <<sinkVars, relVars, taskVars, chOpen, ch, coord, lock, scCh,
                   delivered, cut>>

\* One send().await of route(): a drain task keeps a dropped sink's channel
\* open, so the send fails only when the whole pipeline is gone.
Route ==
    /\ routing.to # "none"
    /\ Len(ch[routing.to]) < ChannelSize
    /\ ch' = [ch EXCEPT ![routing.to] = Append(@, routing.seq)]
    /\ routing' = [routing EXCEPT !.to =
                     IF @ = "reliable" THEN "unreliable" ELSE "none"]
    /\ UNCHANGED <<sinkVars, relVars, taskVars, chOpen, arrivals, coord, lock,
                   scCh, delivered, cut>>

\* Every sender of the datagram channel is gone and the decoding task ends:
\* the connection is gone, or a later TransferStart replaced the transfer.
CloseChannels ==
    /\ MayClose
    /\ taskPc # "forwarding"
    /\ chOpen
    /\ routing.to = "none"
    /\ chOpen' = FALSE
    /\ UNCHANGED <<sinkVars, relVars, taskVars, routing, arrivals, ch, coord,
                   lock, scCh, delivered, cut>>

-----------------------------------------------------------------------------
(* Steps both sinks share.                                                  *)

\* Mutant: try_send, which loses the command when the channel is full.
SendToTaskDropping(cmd) ==
    scCh' = IF taskPc = "exited" \/ Len(scCh) >= CommandSize
            THEN scCh
            ELSE Append(scCh, cmd)

\* A send().await on the sender_command channel; it fails, and is only
\* logged, once the task and its receiver are gone.
SendToTask(cmd) ==
    \/ /\ taskPc = "exited"
       /\ scCh' = scCh
    \/ /\ taskPc # "exited"
       /\ Len(scCh) < CommandSize
       /\ scCh' = Append(scCh, cmd)

Call(k) ==
    /\ pc[k] = "idle"
    /\ pc' = [pc EXCEPT ![k] = "top"]
    /\ UNCHANGED <<notified, signaled, out, emission, relVars, taskVars,
                   netVars, ch, coord, lock, scCh, delivered, cut>>

\* Creating the select! futures: from here on notify_waiters() is seen.
EnterSelect(k) ==
    /\ pc' = [pc EXCEPT ![k] = "select"]
    /\ notified' = [notified EXCEPT ![k] = FALSE]

\* signal_eof() up to the coordinator's lock.
SignalEof(k) ==
    /\ signaled' = [signaled EXCEPT ![k] = TRUE]
    /\ pc' = [pc EXCEPT ![k] = IF signaled[k] THEN "eof" ELSE "closing"]

ChannelClosed(k) ==
    /\ pc[k] = "select"
    /\ ch[k] = << >>
    /\ ~chOpen
    /\ SignalEof(k)
    /\ UNCHANGED <<notified, out, emission, relVars, taskVars, netVars, ch,
                   coord, lock, scCh, delivered, cut>>

\* record_reliable / record_unreliable, up to the send in maybe_emit.
Record(k) ==
    /\ pc[k] = "record"
    /\ lock = "free"
    /\ LET c == Drained(coord, k, Len(out[k]))
           e == Emission(c, FALSE)
       IN  /\ coord' = Emitted(c, FALSE)
           /\ emission' = [emission EXCEPT ![k] = e]
           /\ IF e = 0
              THEN /\ pc' = [pc EXCEPT ![k] = "idle"]
                   /\ delivered' = [delivered EXCEPT ![k] = @ \o out[k]]
                   /\ out' = [out EXCEPT ![k] = << >>]
                   /\ lock' = lock
              ELSE /\ pc' = [pc EXCEPT ![k] = "recording"]
                   /\ lock' = k
                   /\ UNCHANGED <<delivered, out>>
    /\ UNCHANGED <<notified, signaled, relVars, taskVars, netVars, ch, scCh,
                   cut>>

RecordSend(k) ==
    /\ pc[k] = "recording"
    /\ SendToTask(Credits(emission[k]))
    /\ emission' = [emission EXCEPT ![k] = 0]
    /\ lock' = "free"
    /\ pc' = [pc EXCEPT ![k] = "idle"]
    /\ delivered' = [delivered EXCEPT ![k] = @ \o out[k]]
    /\ out' = [out EXCEPT ![k] = << >>]
    /\ UNCHANGED <<notified, signaled, relVars, taskVars, netVars, ch, coord,
                   cut>>

\* mark_reliable_closed / mark_unreliable_closed, up to the send.
MarkClosed(k) ==
    /\ pc[k] \in {"closing", "drainClosing"}
    /\ lock = "free"
    /\ LET c == Closed(coord, k)
           e == IF coord.closed[k] THEN 0 ELSE Emission(c, TRUE)
           draining == pc[k] = "drainClosing"
       IN  /\ coord' = IF coord.closed[k] THEN coord ELSE Emitted(c, TRUE)
           /\ emission' = [emission EXCEPT ![k] = e]
           /\ lock' = IF e = 0 THEN lock ELSE k
           /\ pc' = [pc EXCEPT ![k] =
                       IF e = 0
                       THEN IF draining THEN "gone" ELSE "eof"
                       ELSE IF draining THEN "drainSend" ELSE "closingSend"]
    /\ UNCHANGED <<notified, signaled, out, relVars, taskVars, netVars, ch,
                   scCh, delivered, cut>>

MarkClosedSend(k) ==
    /\ pc[k] \in {"closingSend", "drainSend"}
    /\ SendToTask(Credits(emission[k]))
    /\ emission' = [emission EXCEPT ![k] = 0]
    /\ lock' = "free"
    /\ pc' = [pc EXCEPT ![k] = IF @ = "drainSend" THEN "gone" ELSE "eof"]
    /\ UNCHANGED <<notified, signaled, out, relVars, taskVars, netVars, ch,
                   coord, delivered, cut>>

\* Drop of a sink spawns a drain of its channel.  The reliable sink takes
\* its command receiver and any pending reply down with it.
DropSink(k) ==
    /\ pc' = [pc EXCEPT ![k] = "draining"]
    /\ IF k = "reliable"
       THEN pendingEnd' = None /\ pipeline' = << >>
       ELSE UNCHANGED <<pendingEnd, pipeline>>

AppDrop(k) ==
    /\ k \in MayDrop
    /\ pc[k] \in {"idle", "eof"}
    /\ DropSink(k)
    /\ UNCHANGED <<notified, signaled, out, emission, asm, taskVars, netVars,
                   ch, coord, lock, scCh, delivered, cut>>

DrainOne(k) ==
    /\ pc[k] = "draining"
    /\ ch[k] # << >>
    /\ ch' = [ch EXCEPT ![k] = Tail(@)]
    /\ UNCHANGED <<sinkVars, relVars, taskVars, netVars, coord, lock, scCh,
                   delivered, cut>>

\* The drain ends when the channel's senders are gone; only then is the sink
\* marked closed, unless it already signaled.
DrainEnd(k) ==
    /\ pc[k] = "draining"
    /\ ch[k] = << >>
    /\ ~chOpen
    /\ pc' = [pc EXCEPT ![k] = IF signaled[k] THEN "gone" ELSE "drainClosing"]
    /\ UNCHANGED <<notified, signaled, out, emission, relVars, taskVars,
                   netVars, ch, coord, lock, scCh, delivered, cut>>

\* The recv() future is dropped at an await (a timeout, another select!):
\* what its locals hold is lost, a lock it holds is released.
Cancel(k) ==
    /\ k \in MayCancel
    /\ pc[k] \in {"select", "nack", "record", "recording", "closing",
                  "closingSend"}
    /\ pc' = [pc EXCEPT ![k] = "idle"]
    /\ out' = [out EXCEPT ![k] = << >>]
    /\ emission' = [emission EXCEPT ![k] = 0]
    /\ lock' = IF lock = k THEN "free" ELSE lock
    /\ cut' = [cut EXCEPT ![k] = "cancelled"]
    /\ UNCHANGED <<notified, signaled, relVars, taskVars, netVars, ch, coord,
                   scCh, delivered>>

-----------------------------------------------------------------------------
(* TransferReliableRecvStream::recv                                         *)

RelTop ==
    /\ pc["reliable"] = "top"
    /\ IF pendingEnd # None /\ asm.cursor > pendingEnd
       THEN /\ endAcks' = IF taskPc = "exited" THEN endAcks ELSE endAcks + 1
            /\ pendingEnd' = None
            /\ SignalEof("reliable")
            /\ UNCHANGED notified
       ELSE /\ EnterSelect("reliable")
            /\ UNCHANGED <<endAcks, pendingEnd, signaled>>
    /\ UNCHANGED <<out, emission, asm, pipeline, taskPc, isEnded, owed,
                   granted, acks, ends, netVars, ch, coord, lock, scCh,
                   delivered, cut>>

RelNotified ==
    /\ pc["reliable"] = "select"
    /\ notified["reliable"]
    /\ SignalEof("reliable")
    /\ UNCHANGED <<notified, out, emission, relVars, taskVars, netVars, ch,
                   coord, lock, scCh, delivered, cut>>

\* A second EndTransfer overwrites the first and drops its reply.
RelCommand ==
    /\ pc["reliable"] = "select"
    /\ pipeline # << >>
    /\ pendingEnd' = Head(pipeline)
    /\ pipeline' = Tail(pipeline)
    /\ pc' = [pc EXCEPT !["reliable"] = "top"]
    /\ UNCHANGED <<notified, signaled, out, emission, asm, taskVars, netVars,
                   ch, coord, lock, scCh, delivered, cut>>

\* A panic unwinds the application's task, which drops the sink.
Panic ==
    /\ cut' = [cut EXCEPT !["reliable"] = "panicked"]
    /\ DropSink("reliable")

RelPacket ==
    /\ pc["reliable"] = "select"
    /\ ch["reliable"] # << >>
    /\ ch' = [ch EXCEPT !["reliable"] = Tail(@)]
    /\ LET s == Head(ch["reliable"])
           pushed == Push(asm, s)
       IN  IF PushPanics(asm, s) \/ MissingPanics(pushed)
           THEN Panic /\ UNCHANGED asm
           ELSE /\ asm' = pushed
                /\ pc' = [pc EXCEPT !["reliable"] =
                            IF MissingSeqs(pushed) = {} THEN "read" ELSE "nack"]
                /\ UNCHANGED <<pendingEnd, pipeline, cut>>
    /\ UNCHANGED <<notified, signaled, out, emission, taskVars, netVars,
                   coord, lock, scCh, delivered>>

RelNack ==
    /\ pc["reliable"] = "nack"
    /\ SendToTask(Nack(MissingSeqs(asm)))
    /\ pc' = [pc EXCEPT !["reliable"] = "read"]
    /\ UNCHANGED <<notified, signaled, out, emission, relVars, taskVars,
                   netVars, ch, coord, lock, delivered, cut>>

RelRead ==
    /\ pc["reliable"] = "read"
    /\ \E n \in ReadableCounts(asm) :
         IF ReadPanics(asm, n)
         THEN Panic /\ UNCHANGED <<asm, out>>
         ELSE /\ asm' = AfterRead(asm, n)
              /\ out' = [out EXCEPT !["reliable"] = Readable(asm, n)]
              /\ pc' = [pc EXCEPT !["reliable"] =
                          IF n = 0 THEN "top" ELSE "record"]
              /\ UNCHANGED <<pendingEnd, pipeline, cut>>
    /\ UNCHANGED <<notified, signaled, emission, taskVars, netVars, ch, coord,
                   lock, scCh, delivered>>

-----------------------------------------------------------------------------
(* TransferUnreliableRecvStream::recv                                       *)

UnrelFinished == isEnded /\ ch["unreliable"] = << >>

UnrelTop ==
    /\ pc["unreliable"] = "top"
    /\ IF UnrelFinished
       THEN SignalEof("unreliable")
       ELSE /\ pc' = [pc EXCEPT !["unreliable"] = "checked"]
            /\ UNCHANGED signaled
    /\ UNCHANGED <<notified, out, emission, relVars, taskVars, netVars, ch,
                   coord, lock, scCh, delivered, cut>>

UnrelWait ==
    /\ pc["unreliable"] = "checked"
    /\ EnterSelect("unreliable")
    /\ UNCHANGED <<signaled, out, emission, relVars, taskVars, netVars, ch,
                   coord, lock, scCh, delivered, cut>>

UnrelNotified ==
    /\ pc["unreliable"] = "select"
    /\ notified["unreliable"]
    /\ IF UnrelFinished
       THEN SignalEof("unreliable")
       ELSE /\ pc' = [pc EXCEPT !["unreliable"] = "top"]
            /\ UNCHANGED signaled
    /\ UNCHANGED <<notified, out, emission, relVars, taskVars, netVars, ch,
                   coord, lock, scCh, delivered, cut>>

UnrelPacket ==
    /\ pc["unreliable"] = "select"
    /\ ch["unreliable"] # << >>
    /\ out' = [out EXCEPT !["unreliable"] = << Head(ch["unreliable"]) >>]
    /\ ch' = [ch EXCEPT !["unreliable"] = Tail(@)]
    /\ pc' = [pc EXCEPT !["unreliable"] = "record"]
    /\ UNCHANGED <<notified, signaled, emission, relVars, taskVars, netVars,
                   coord, lock, scCh, delivered, cut>>

-----------------------------------------------------------------------------
(* ManiStreamTask in the Receiver role                                      *)

\* end(): notify_waiters() reaches the sinks that are in their select! now.
End ==
    /\ isEnded' = TRUE
    /\ notified' = [k \in Sinks |-> notified[k] \/ pc[k] = "select"]

\* handle_transfer_end: an empty or an UnreliableOnly transfer is ended and
\* acknowledged at once, another is forwarded to the reliable sink.
TaskTransferEnd ==
    /\ taskPc = "running"
    /\ chOpen
    /\ ends < MaxEnds
    /\ ends' = ends + 1
    /\ IF SeqAdd(FinalSeq, 1) = InitialSeq \/ ~Dual
       THEN /\ End
            /\ acks' = acks + 1
            /\ UNCHANGED taskPc
       ELSE /\ taskPc' = "forwarding"
            /\ UNCHANGED <<isEnded, notified, acks>>
    /\ UNCHANGED <<pc, signaled, out, emission, relVars, endAcks, owed,
                   granted, netVars, ch, coord, lock, scCh, delivered,
                   cut>>

ReliableDropped ==
    pc["reliable"] \in {"draining", "drainClosing", "drainSend", "gone"}

\* Mutant: the acknowledgement owed is not counted.
TaskForwardUncounted ==
    /\ taskPc = "forwarding"
    /\ ~ReliableDropped
    /\ pipeline = << >>
    /\ pipeline' = << FinalSeq >>
    /\ taskPc' = "running"
    /\ UNCHANGED <<sinkVars, asm, pendingEnd, isEnded, endAcks, owed, granted,
                   acks, ends, netVars, ch, coord, lock, scCh, delivered,
                   cut>>

\* The send().await into the pipeline channel, which blocks the whole task.
TaskForward ==
    /\ taskPc = "forwarding"
    /\ ~ReliableDropped
    /\ pipeline = << >>
    /\ pipeline' = << FinalSeq >>
    /\ owed' = owed + 1
    /\ taskPc' = "running"
    /\ UNCHANGED <<sinkVars, asm, pendingEnd, isEnded, endAcks, granted, acks,
                   ends, netVars, ch, coord, lock, scCh, delivered, cut>>

\* The task is gone, and with it the receivers of its channels.
TaskExit ==
    /\ taskPc' = "exited"
    /\ scCh' = << >>
    /\ endAcks' = 0
    /\ UNCHANGED <<sinkVars, relVars, isEnded, owed, granted, acks, ends,
                   netVars, ch, coord, lock, delivered, cut>>

TaskForwardFails ==
    /\ taskPc = "forwarding"
    /\ ReliableDropped
    /\ TaskExit

PeerCloses ==
    /\ MayExit
    /\ taskPc = "running"
    /\ TaskExit

TaskSendAck ==
    /\ taskPc = "running"
    /\ endAcks > 0
    /\ endAcks' = endAcks - 1
    /\ owed' = IF owed = 0 THEN 0 ELSE owed - 1
    /\ End
    /\ acks' = acks + 1
    /\ UNCHANGED <<pc, signaled, out, emission, relVars, taskPc, granted,
                   ends, netVars, ch, coord, lock, scCh, delivered, cut>>

TaskSenderCommand ==
    /\ taskPc = "running"
    /\ scCh # << >>
    /\ granted' = granted + Head(scCh).credits
    /\ scCh' = Tail(scCh)
    /\ UNCHANGED <<sinkVars, relVars, taskPc, isEnded, endAcks, owed, acks,
                   ends, netVars, ch, coord, lock, delivered, cut>>

-----------------------------------------------------------------------------
SinkStep(k) ==
    \/ Call(k) \/ ChannelClosed(k) \/ Record(k) \/ RecordSend(k)
    \/ MarkClosed(k) \/ MarkClosedSend(k) \/ DrainOne(k) \/ DrainEnd(k)

ReliableStep == RelTop \/ RelNotified \/ RelCommand \/ RelPacket \/ RelNack
                \/ RelRead

UnreliableStep == UnrelTop \/ UnrelWait \/ UnrelNotified \/ UnrelPacket

TaskStep == TaskForward \/ TaskForwardFails \/ TaskSendAck
            \/ TaskSenderCommand

Environment ==
    \/ \E s \in Seqs : Decode(s)
    \/ CloseChannels
    \/ TaskTransferEnd
    \/ PeerCloses
    \/ \E k \in Sinks : AppDrop(k) \/ Cancel(k)

Next ==
    \/ \E k \in Sinks : SinkStep(k)
    \/ ReliableStep
    \/ UnreliableStep
    \/ Route
    \/ TaskStep
    \/ Environment

Spec == Init /\ [][Next]_vars

-----------------------------------------------------------------------------
(* Properties                                                               *)

SinkPc == {"idle", "top", "checked", "select", "nack", "read", "record",
           "recording", "closing", "closingSend", "eof", "draining",
           "drainClosing", "drainSend", "gone"}

AsmType == [cursor : SeqNum, packets : Seq(SeqNum \cup {Missing})]

CoordType == [drained : [Sinks -> Nat], closed : [Sinks -> BOOLEAN],
              emitted : Nat]

CommandType == [kind : {"nack", "credits"}, seqs : SUBSET SeqNum, credits : Nat]

\* Every variable has its type.
TypeOK ==
    /\ asm \in AsmType
    /\ pendingEnd \in SeqNum \cup {None}
    /\ pipeline \in Seq(SeqNum)
    /\ ch \in [Sinks -> Seq(SeqNum)]
    /\ routing \in [to : Sinks \cup {"none"}, seq : SeqNum]
    /\ chOpen \in BOOLEAN
    /\ pc \in [Sinks -> SinkPc]
    /\ notified \in [Sinks -> BOOLEAN]
    /\ signaled \in [Sinks -> BOOLEAN]
    /\ out \in [Sinks -> Seq(SeqNum)]
    /\ emission \in [Sinks -> Nat]
    /\ coord \in CoordType
    /\ lock \in Sinks \cup {"free"}
    /\ scCh \in Seq(CommandType)
    /\ taskPc \in {"running", "forwarding", "exited"}
    /\ isEnded \in BOOLEAN
    /\ endAcks \in Nat
    /\ owed \in Nat
    /\ delivered \in [Sinks -> Seq(SeqNum)]
    /\ granted \in Nat
    /\ acks \in Nat
    /\ arrivals \in Nat
    /\ ends \in Nat
    /\ cut \in [Sinks -> {"no", "cancelled", "panicked"}]

\* No chunk is handed to the application ahead of its place: the k-th chunk
\* the reliable sink returns is one of the first k the peer sent, so a chunk
\* never overtakes the hole left by a lost one (push and read_ordered).  A
\* recv() that is cancelled may take chunks down with it, and then the count
\* is off.
NeverEarly ==
    cut["reliable"] = "no" =>
        \A k \in DOMAIN delivered["reliable"] : delivered["reliable"][k] < k

\* The inductive form of NeverEarly: cursor counts what was read, and neither
\* a slot of the buffer nor a chunk about to be returned holds a payload whose
\* own place is further on.
NoEarlySlot(a) ==
    \A i \in DOMAIN a.packets :
        a.packets[i] # Missing => a.packets[i] < a.cursor + i

OrderInv ==
    /\ NeverEarly
    /\ NoEarlySlot(asm)
    /\ cut["reliable"] = "no" =>
         /\ \A i \in DOMAIN out["reliable"] :
              out["reliable"][i] < Len(delivered["reliable"]) + i
         /\ asm.cursor = Len(delivered["reliable"]) + Len(out["reliable"])
    /\ pc["reliable"] \notin {"record", "recording"} => out["reliable"] = << >>

\* Credits follow the application: no more are emitted than packets drained
\* from any sink that is still open, and, when none is, from the fuller one.
CreditsFollowDrain == CoveredByDrains(coord)

\* Every packet recv() returned is a counted drain, and no other is counted
\* but those recv() is about to return or lost when it was cancelled.
DrainsAreReturned ==
    \A k \in Sinks :
        LET returned == Len(delivered[k])
                        + IF pc[k] = "recording" THEN Len(out[k]) ELSE 0
        IN  /\ returned <= coord.drained[k]
            /\ cut[k] = "no" => returned = coord.drained[k]

\* The coordinator never sits on a whole batch of credits: while a sink is
\* open, fewer than bulk of those drained are pending.
NoBatchWithheld == NothingWithheld(coord)

\* The sum of a sequence of numbers.
Total(q) ==
    LET upTo[i \in 0 .. Len(q)] == IF i = 0 THEN 0 ELSE upTo[i - 1] + q[i]
    IN  upTo[Len(q)]

CommandCredits(q) == Total([i \in DOMAIN q |-> q[i].credits])

InFlight ==
    emission["reliable"] + emission["unreliable"] + CommandCredits(scCh)

\* Every credit the coordinator counts as emitted is sent to the peer at most
\* once, and exactly once while the task lives and no recv() is cancelled.
EachCreditOnce ==
    /\ granted + InFlight <= coord.emitted
    /\ taskPc # "exited" /\ (\A k \in Sinks : cut[k] = "no") =>
         granted + InFlight = coord.emitted

\* While a TransferEnd is being answered the task counts it, so that it does
\* not close the stream under the answer (pending_ack_count).
AcksAreOwed == taskPc # "exited" => endAcks <= owed
=============================================================================
