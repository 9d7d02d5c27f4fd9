--------------------------- MODULE StreamLifecycle ---------------------------
(****************************************************************************)
(* The life of one MANI stream (mani/stream.rs): the ManiStream handle and  *)
(* the ManiStreamTask of each of its two sides, over several transfers in   *)
(* either direction, until the stream closes or the connection is lost.     *)
(*                                                                          *)
(* Chunks, credits and retransmissions are ManiTransfer's and RecvStreams'; *)
(* here a reliable sink is full once it has read every chunk.  A side's     *)
(* n-th transfer is known by n, and all start at one sequence number.       *)
(*                                                                          *)
(* Both sides run this code and know the compression of every TransferStart,*)
(* so TransferError is not here; neither is end_transfer() of the handle,   *)
(* which takes a final number of the application's choice.                  *)
(****************************************************************************)
EXTENDS Integers, Sequences, FiniteSets

CONSTANTS Turns,          \* bound: which side starts each transfer, in the
                          \* order the applications agree on
          MaxPayloads,    \* bound: payloads each side sends
          Kinds,          \* of transfers: [dual |-> , empty |-> ]
          MessageSize,    \* of the channel to the application, 100 in the code
          Polite,         \* whether they keep to it, and wait for one transfer
                          \* to end before they start the next
          MayDropSinks,   \* sides whose applications drop sinks
          MayLose         \* sides that may lose the connection first

Sides == {"a", "b"}
Other(s) == IF s = "a" THEN "b" ELSE "a"

ASSUME LifecycleAssumption ==
    /\ Turns \in Seq(Sides)
    /\ MaxPayloads \in [Sides -> Nat]
    /\ Kinds \subseteq [dual : BOOLEAN, empty : BOOLEAN]
    /\ MessageSize \in Nat \ {0}
    /\ Polite \in BOOLEAN
    /\ MayDropSinks \subseteq Sides
    /\ MayLose \subseteq Sides

VARIABLES
    handle,    \* sides whose application holds the ManiStream
    cmd,       \* the handle's command being answered: none, start, payload
    payloads,  \* payloads each side has sent
    out,       \* transfers each side has started, and its call on each
    sends,     \* transfer_send_command channel of each task, with those about
               \* to send to it
    role,      \* ManiStreamRole
    pending,   \* pending_ack_count
    ended,     \* sides whose is_ended is set
    closing,   \* sides whose command_receiver_closed is set
    blocked,   \* tasks that wait for room in a channel
    over,      \* tasks that have left run()
    lost,      \* sides whose connection is lost
    wire,      \* what each side has written and the other has yet to read
    messages,  \* channel to the application: a transfer, or 0 for a payload
    sinks,     \* what each side has of the transfers of the other
    acked      \* history: transfers each side has acknowledged

svars == <<handle, cmd, payloads, out, sends, role, pending, ended, closing,
           blocked, over, lost, wire, messages, sinks, acked>>

Unknown == [is |-> "unknown", n |-> 0, waiter |-> 0]
Sender(n, waiter) == [is |-> "sender", n |-> n, waiter |-> waiter]
Receiver(n) == [is |-> "receiver", n |-> n, waiter |-> 0]

Msg(kind, n) == [kind |-> kind, n |-> n]

\* Calls on a TransferSendStream that have yet to return.
InCall == {"starting", "ending", "awaiting"}

LifecycleInit ==
    /\ handle = Sides
    /\ cmd = [s \in Sides |-> "none"]
    /\ payloads = [s \in Sides |-> 0]
    /\ out = [s \in Sides |-> << >>]
    /\ sends = [s \in Sides |-> {}]
    /\ role = [s \in Sides |-> Unknown]
    /\ pending = [s \in Sides |-> 0]
    /\ ended = {}
    /\ closing = {}
    /\ blocked = {}
    /\ over = {}
    /\ lost = {}
    /\ wire = [s \in Sides |-> << >>]
    /\ messages = [s \in Sides |-> << >>]
    /\ sinks = [s \in Sides |-> << >>]
    /\ acked = [s \in Sides |-> {}]

-----------------------------------------------------------------------------
(* The task: what it shares between its handlers.                           *)

\* Mutant: a receiver does not wait for its TransferEnd.
SettledEarly(s) == pending[s] = 0

\* Mutant: the acks that are still to come are not counted.
SettledUncounted(s) == ~(role[s].is = "receiver" /\ s \notin ended)

\* Whether a task whose handle is gone has nothing left to do.
Settled(s) ==
    /\ pending[s] = 0
    /\ ~(role[s].is = "receiver" /\ s \notin ended)

Running(s) == s \notin over /\ s \notin blocked /\ ~(s \in closing /\ Settled(s))

\* Whether writes of s succeed: not once the connection is lost, and perhaps
\* not once the other has stopped reading.
Written(s) == IF s \in lost THEN {FALSE}
              ELSE IF Other(s) \in over THEN BOOLEAN ELSE {TRUE}

Put(q, s, m) == IF {s, Other(s)} \cap lost # {} \/ Other(s) \in over THEN q
                ELSE [q EXCEPT ![s] = Append(@, m)]

\* Mutant: a command still in its channel is forgotten.
FailedAwaiting(s, calls) ==
    [n \in DOMAIN out[s] |->
        IF out[s][n].call = "awaiting" THEN [out[s][n] EXCEPT !.call = "error"]
        ELSE out[s][n]]

\* Calls of s that return an error because what would answer them is dropped.
Failed(s, calls) ==
    [n \in DOMAIN out[s] |->
        IF out[s][n].call \in calls THEN [out[s][n] EXCEPT !.call = "error"]
        ELSE out[s][n]]

\* Mutant: what the task was waiting for is still awaited.
LeaveBlocked(s) ==
    /\ over' = over \cup {s}
    /\ wire' = [Put(wire, s, Msg("Fin", 0)) EXCEPT ![Other(s)] = << >>]
    /\ role' = [role EXCEPT ![s] = Unknown]
    /\ sends' = [sends EXCEPT ![s] = {}]
    /\ cmd' = [cmd EXCEPT ![s] = "none"]
    /\ out' = [out EXCEPT ![s] = Failed(s, InCall)]
    /\ UNCHANGED blocked

\* The task returns from run(): both halves of the stream, the role and the
\* receiving ends of its channels are dropped.
Leave(s) ==
    /\ over' = over \cup {s}
    /\ blocked' = blocked \ {s}
    /\ wire' = [Put(wire, s, Msg("Fin", 0)) EXCEPT ![Other(s)] = << >>]
    /\ role' = [role EXCEPT ![s] = Unknown]
    /\ sends' = [sends EXCEPT ![s] = {}]
    /\ cmd' = [cmd EXCEPT ![s] = "none"]
    /\ out' = [out EXCEPT ![s] = Failed(s, InCall)]

\* end(): sinks that wait are woken; the reliable one takes it for the end.
Woken(sink) ==
    [sink EXCEPT !.rel = IF @ = "waiting" THEN "ended" ELSE @,
                 !.unrel = IF @ = "waiting" THEN "idle" ELSE @]

End(s) ==
    /\ ended' = ended \cup {s}
    /\ sinks' = [sinks EXCEPT ![s] = [n \in DOMAIN @ |-> Woken(@[n])]]

\* TransferEndAck for transfer n is written, after end().  unread and queue:
\* the wire and the commands by then.
Acknowledge(s, n, unread, queue) ==
    /\ End(s)
    /\ \E ok \in Written(s) :
        IF ok THEN /\ wire' = Put(unread, s, Msg("Ack", n))
                   /\ sends' = queue
                   /\ acked' = [acked EXCEPT ![s] = @ \cup {n}]
                   /\ UNCHANGED <<over, blocked, role, cmd, out>>
              ELSE Leave(s) /\ UNCHANGED acked

-----------------------------------------------------------------------------
(* The task: commands.                                                      *)

\* start_transfer_internal(): a new role, whatever the old one was doing.
StartTransfer(s) ==
    /\ Running(s)
    /\ cmd[s] = "start"
    /\ cmd' = [cmd EXCEPT ![s] = "none"]
    /\ LET n == Len(out[s]) IN
       \E ok \in Written(s) :
        IF ok
        THEN /\ wire' = Put(wire, s, Msg("Start", n))
             /\ role' = [role EXCEPT ![s] = Sender(n, 0)]
             /\ out' = [out EXCEPT ![s] =
                          [Failed(s, {"awaiting"}) EXCEPT ![n].call = "held"]]
        ELSE /\ out' = [out EXCEPT ![s][n].call = "error"]
             /\ UNCHANGED <<wire, role>>
    /\ UNCHANGED <<handle, payloads, sends, pending, ended, closing, blocked,
                   over, lost, messages, sinks, acked>>

SendPayload(s) ==
    /\ Running(s)
    /\ cmd[s] = "payload"
    /\ cmd' = [cmd EXCEPT ![s] = "none"]
    /\ \E ok \in Written(s) :
        wire' = IF ok THEN Put(wire, s, Msg("Payload", 0)) ELSE wire
    /\ UNCHANGED <<handle, payloads, out, sends, role, pending, ended, closing,
                   blocked, over, lost, messages, sinks, acked>>

\* EndTransfer of transfer n, for whichever transfer the role is about: the
\* one that waited for an ack so far waits in vain.  The caller may have
\* dropped the stream instead of calling end().
EndTransfer(s, n) ==
    /\ Running(s)
    /\ Msg("End", n) \in sends[s]
    /\ sends' = [sends EXCEPT ![s] = @ \ {Msg("End", n)}]
    /\ IF role[s].is = "sender"
       THEN /\ role' = [role EXCEPT ![s].waiter = n]
            /\ \E ok \in Written(s) :
                /\ wire' = IF ok THEN Put(wire, s, Msg("End", n)) ELSE wire
                /\ out' = [out EXCEPT ![s] =
                            [m \in DOMAIN @ |->
                              LET c == Failed(s, {"awaiting"})[m] IN
                              IF m = n /\ c.call = "ending"
                              THEN [c EXCEPT !.call =
                                      IF ok THEN "awaiting" ELSE "error"]
                              ELSE c]]
       ELSE /\ out' = IF out[s][n].call = "ending"
                      THEN [out EXCEPT ![s][n].call = "error"] ELSE out
            /\ UNCHANGED <<role, wire>>
    /\ UNCHANGED <<handle, cmd, payloads, pending, ended, closing, blocked,
                   over, lost, messages, sinks, acked>>

\* SendTransferEndAck.
SendAck(s, n) ==
    /\ Running(s)
    /\ Msg("Ack", n) \in sends[s]
    /\ pending' = [pending EXCEPT ![s] = IF @ > 0 THEN @ - 1 ELSE 0]
    /\ Acknowledge(s, n, wire, [sends EXCEPT ![s] = @ \ {Msg("Ack", n)}])
    /\ UNCHANGED <<handle, payloads, closing, lost, messages>>

\* command_receiver is closed: the task goes on for what is still owed.
SeeDropped(s) ==
    /\ s \notin over \cup blocked \cup closing
    /\ s \notin handle
    /\ closing' = closing \cup {s}
    /\ UNCHANGED <<handle, cmd, payloads, out, sends, role, pending, ended,
                   blocked, over, lost, wire, messages, sinks, acked>>

\* The writer is closed and the task is over.
Close(s) ==
    /\ s \in closing \ over
    /\ s \notin blocked
    /\ Settled(s)
    /\ Leave(s)
    /\ UNCHANGED <<handle, payloads, pending, ended, closing, lost, messages,
                   sinks, acked>>

-----------------------------------------------------------------------------
(* The task: messages.                                                      *)

First(s) == Head(wire[Other(s)])

Reads(s, kind) ==
    /\ s \in blocked \/ (Running(s) /\ s \notin lost)
    /\ wire[Other(s)] # << >>
    /\ First(s).kind = kind

Rest(s) == [wire EXCEPT ![Other(s)] = Tail(@)]

\* Mutant: every TransferEnd is acknowledged at once.
ToPipelineNever(s) == FALSE

\* A TransferEnd that is for the reliable sink to answer.
ToPipeline(s) ==
    /\ role[s].is = "receiver"
    /\ out[Other(s)][role[s].n].dual
    /\ ~out[Other(s)][First(s).n].empty

\* Whether the message can be passed on without waiting.
Room(s) ==
    /\ First(s).kind \in {"Start", "Payload"} =>
            s \notin handle \/ Len(messages[s]) < MessageSize
    /\ First(s).kind = "End" /\ ToPipeline(s) => sinks[s][role[s].n].ask = 0

\* The task waits in a handler for room, and does nothing else.
Block(s) ==
    /\ Running(s)
    /\ s \notin lost
    /\ wire[Other(s)] # << >>
    /\ ~Room(s)
    /\ blocked' = blocked \cup {s}
    /\ UNCHANGED <<handle, cmd, payloads, out, sends, role, pending, ended,
                   closing, over, lost, wire, messages, sinks, acked>>

\* Sinks that go with the handle they were never taken from.
SinkState(s) == IF s \in handle THEN "queued" ELSE "dropped"

NewSink(s, kind) ==
    [rel |-> IF kind.dual THEN SinkState(s) ELSE "dropped",
     unrel |-> SinkState(s),
     ask |-> 0,      \* the TransferEnd in its pipeline channel
     final |-> 0,    \* pending_end
     full |-> FALSE]

\* message_sender.send(): fails when the application dropped its handle.
PassOn(s, m) ==
    IF s \in handle
    THEN /\ messages' = [messages EXCEPT ![s] = Append(@, m)]
         /\ wire' = Rest(s)
         /\ blocked' = blocked \ {s}
         /\ UNCHANGED <<over, sends, cmd>>
    ELSE Leave(s) /\ UNCHANGED messages

\* The role is new here too; is_ended is not.
HandleStart(s) ==
    /\ Reads(s, "Start")
    /\ Room(s)
    /\ LET n == First(s).n IN
        /\ sinks' = [sinks EXCEPT ![s] =
                        Append(@, NewSink(s, out[Other(s)][n]))]
        /\ PassOn(s, n)
        /\ s \in handle =>
            /\ role' = [role EXCEPT ![s] = Receiver(n)]
            /\ out' = [out EXCEPT ![s] = Failed(s, {"awaiting"})]
    /\ UNCHANGED <<handle, payloads, pending, ended, closing, lost, acked>>

HandlePayload(s) ==
    /\ Reads(s, "Payload")
    /\ Room(s)
    /\ PassOn(s, 0)
    /\ s \in handle => UNCHANGED <<role, out>>
    /\ UNCHANGED <<handle, payloads, pending, ended, closing, lost, sinks,
                   acked>>

\* Mutant: end() comes with the command, not with the answer.
AskAndEnd(s, r, n) ==
    [sinks EXCEPT ![s] = [m \in DOMAIN @ |->
        IF m = r THEN [Woken(@[m]) EXCEPT !.ask = n] ELSE Woken(@[m])]]

\* The sinks once r has the TransferEnd of n in its pipeline channel.
Ask(s, r, n) == [sinks EXCEPT ![s][r].ask = n]

\* TransferEnd, for whichever transfer the role is about: to its reliable
\* sink, or acknowledged at once when the transfer was empty or has none.
HandleEnd(s) ==
    /\ Reads(s, "End")
    /\ Room(s)
    /\ LET n == First(s).n
           r == role[s].n IN
       CASE ~(role[s].is = "receiver") ->
                /\ wire' = Rest(s)
                /\ UNCHANGED <<out, sends, role, pending, ended, over, blocked,
                               cmd, sinks, acked>>
         [] ToPipeline(s) /\ sinks[s][r].rel = "dropped" ->
                /\ Leave(s)
                /\ UNCHANGED <<pending, ended, sinks, acked>>
         [] ToPipeline(s) /\ sinks[s][r].rel # "dropped" ->
                /\ sinks' = Ask(s, r, n)
                /\ pending' = [pending EXCEPT ![s] = @ + 1]
                /\ wire' = Rest(s)
                /\ blocked' = blocked \ {s}
                /\ UNCHANGED <<out, sends, role, ended, over, cmd, acked>>
         [] OTHER ->
                /\ Acknowledge(s, n, Rest(s), sends)
                /\ UNCHANGED pending
    /\ UNCHANGED <<handle, payloads, closing, lost, messages>>

\* TransferEndAck names no transfer: it answers whoever waits.
HandleAck(s) ==
    /\ Reads(s, "Ack")
    /\ wire' = Rest(s)
    /\ LET w == role[s].waiter IN
        /\ role' = [role EXCEPT ![s].waiter = 0]
        /\ out' = IF w # 0 /\ out[s][w].call = "awaiting"
                  THEN [out EXCEPT ![s][w].call = "ok"] ELSE out
    /\ UNCHANGED <<handle, cmd, payloads, sends, pending, ended, closing,
                   blocked, over, lost, messages, sinks, acked>>

\* Mutant: a task whose handle is gone does not mind that the reader ended.
HandleEofOpen(s) ==
    /\ Running(s)
    /\ s \notin closing
    /\ s \in lost \/ Reads(s, "Fin")
    /\ Leave(s)
    /\ UNCHANGED <<handle, payloads, pending, ended, closing, lost, messages,
                   sinks, acked>>

\* The reader ends, with the peer's writer or with the connection.
HandleEof(s) ==
    /\ Running(s)
    /\ s \in lost \/ Reads(s, "Fin")
    /\ Leave(s)
    /\ UNCHANGED <<handle, payloads, pending, ended, closing, lost, messages,
                   sinks, acked>>

-----------------------------------------------------------------------------
(* The application: the handle and the stream it sends through.             *)

\* What s can see of the transfers is over.
Idle(s) ==
    /\ \A n \in DOMAIN out[s] : out[s][n].call = "ok"
    /\ \A n \in DOMAIN sinks[s] :
            {sinks[s][n].rel, sinks[s][n].unrel} \subseteq {"ended", "dropped"}

MyTurn(s) ==
    LET k == Len(out[s]) + Len(sinks[s]) + 1 IN
    k \in DOMAIN Turns /\ Turns[k] = s /\ Idle(s)

CallStart(s) ==
    /\ s \in handle \ over
    /\ cmd[s] = "none"
    /\ Len(out[s]) < Cardinality({k \in DOMAIN Turns : Turns[k] = s})
    /\ Polite => MyTurn(s)
    /\ \E k \in Kinds :
        out' = [out EXCEPT ![s] = Append(@, [dual |-> k.dual,
                                             empty |-> k.empty,
                                             call |-> "starting"])]
    /\ cmd' = [cmd EXCEPT ![s] = "start"]
    /\ UNCHANGED <<handle, payloads, sends, role, pending, ended, closing,
                   blocked, over, lost, wire, messages, sinks, acked>>

CallPayload(s) ==
    /\ s \in handle \ over
    /\ cmd[s] = "none"
    /\ payloads[s] < MaxPayloads[s]
    /\ Polite => Idle(s)
    /\ payloads' = [payloads EXCEPT ![s] = @ + 1]
    /\ cmd' = [cmd EXCEPT ![s] = "payload"]
    /\ UNCHANGED <<handle, out, sends, role, pending, ended, closing, blocked,
                   over, lost, wire, messages, sinks, acked>>

\* end(), or the best effort of a stream that is dropped without it.
GiveUpStream(s, n, call) ==
    /\ n \in DOMAIN out[s]
    /\ out[s][n].call = "held"
    /\ out' = [out EXCEPT ![s][n].call =
                  IF call = "ending" /\ s \in over THEN "error" ELSE call]
    /\ sends' = IF s \in over THEN sends
                ELSE [sends EXCEPT ![s] = @ \cup {Msg("End", n)}]
    /\ UNCHANGED <<handle, cmd, payloads, role, pending, ended, closing,
                   blocked, over, lost, wire, messages, sinks, acked>>

CallEnd(s, n) == GiveUpStream(s, n, "ending")
DropStream(s, n) == GiveUpStream(s, n, "gone")

\* The 5 s within which the ack must come.
Expire(s, n) ==
    /\ n \in DOMAIN out[s]
    /\ out[s][n].call = "awaiting"
    /\ out' = [out EXCEPT ![s][n].call = "error"]
    /\ UNCHANGED <<handle, cmd, payloads, sends, role, pending, ended, closing,
                   blocked, over, lost, wire, messages, sinks, acked>>

DropHandle(s) ==
    /\ s \in handle
    /\ cmd[s] = "none"
    /\ handle' = handle \ {s}
    /\ messages' = [messages EXCEPT ![s] = << >>]
    /\ sinks' = [sinks EXCEPT ![s] =
                  [n \in DOMAIN @ |->
                    IF @[n].unrel = "queued"
                    THEN [@[n] EXCEPT !.rel = "dropped", !.unrel = "dropped",
                                      !.ask = 0]
                    ELSE @[n]]]
    /\ UNCHANGED <<cmd, payloads, out, sends, role, pending, ended, closing,
                   blocked, over, lost, wire, acked>>

Taken(sink) ==
    [sink EXCEPT !.rel = IF @ = "queued" THEN "idle" ELSE @, !.unrel = "idle"]

\* recv() of the handle.
Accept(s) ==
    /\ s \in handle
    /\ messages[s] # << >>
    /\ messages' = [messages EXCEPT ![s] = Tail(@)]
    /\ LET n == Head(messages[s]) IN
        sinks' = IF n = 0 THEN sinks
                 ELSE [sinks EXCEPT ![s][n] = Taken(@)]
    /\ UNCHANGED <<handle, cmd, payloads, out, sends, role, pending, ended,
                   closing, blocked, over, lost, wire, acked>>

-----------------------------------------------------------------------------
(* The application: the sinks of a transfer.                                *)

\* Whether the sink has passed the number its pending_end names.  The number
\* of another transfer may be any.
Passed(sink, n, final) ==
    IF final = 0 THEN {FALSE} ELSE IF final = n THEN {sink.full} ELSE BOOLEAN

\* The reliable sink, its pending_end known, answers it and ends, or waits.
RelGoesOn(s, n, sink, passed) ==
    IF passed
    THEN /\ sinks' = [sinks EXCEPT ![s][n] =
                        [sink EXCEPT !.rel = "ended", !.final = 0]]
         /\ sends' = IF s \in over THEN sends
                     ELSE [sends EXCEPT ![s] = @ \cup {Msg("Ack", sink.final)}]
    ELSE /\ sinks' = [sinks EXCEPT ![s][n] = [sink EXCEPT !.rel = "waiting"]]
         /\ UNCHANGED sends

\* Mutant: pending_end is looked at only when something arrives.
RelCallWaits(s, n) ==
    /\ n \in DOMAIN sinks[s]
    /\ sinks[s][n].rel = "idle"
    /\ RelGoesOn(s, n, sinks[s][n], FALSE)
    /\ UNCHANGED <<handle, cmd, payloads, out, role, pending, ended, closing,
                   blocked, over, lost, wire, messages, acked>>

\* recv() of the reliable sink.
RelCall(s, n) ==
    /\ n \in DOMAIN sinks[s]
    /\ sinks[s][n].rel = "idle"
    /\ \E passed \in Passed(sinks[s][n], n, sinks[s][n].final) :
            RelGoesOn(s, n, sinks[s][n], passed)
    /\ UNCHANGED <<handle, cmd, payloads, out, role, pending, ended, closing,
                   blocked, over, lost, wire, messages, acked>>

RelTake(s, n) ==
    /\ n \in DOMAIN sinks[s]
    /\ sinks[s][n].rel = "waiting"
    /\ sinks[s][n].ask # 0
    /\ LET sink == [sinks[s][n] EXCEPT !.final = sinks[s][n].ask, !.ask = 0] IN
       \E passed \in Passed(sink, n, sink.final) :
            RelGoesOn(s, n, sink, passed)
    /\ UNCHANGED <<handle, cmd, payloads, out, role, pending, ended, closing,
                   blocked, over, lost, wire, messages, acked>>

\* The last of the chunks is returned.
RelRead(s, n) ==
    /\ n \in DOMAIN sinks[s]
    /\ sinks[s][n].rel = "waiting"
    /\ ~sinks[s][n].full
    /\ ~out[Other(s)][n].empty
    /\ out[Other(s)][n].call # "held"
    /\ sinks' = [sinks EXCEPT ![s][n] = [@ EXCEPT !.full = TRUE, !.rel = "idle"]]
    /\ UNCHANGED <<handle, cmd, payloads, out, sends, role, pending, ended,
                   closing, blocked, over, lost, wire, messages, acked>>

\* recv() of the unreliable sink looks at is_ended and then waits to be
\* notified; an end() in between is not noticed.
UnrelCheck(s, n) ==
    /\ n \in DOMAIN sinks[s]
    /\ sinks[s][n].unrel = "idle"
    /\ sinks' = [sinks EXCEPT ![s][n].unrel =
                    IF s \in ended THEN "ended" ELSE "checked"]
    /\ UNCHANGED <<handle, cmd, payloads, out, sends, role, pending, ended,
                   closing, blocked, over, lost, wire, messages, acked>>

UnrelWait(s, n) ==
    /\ n \in DOMAIN sinks[s]
    /\ sinks[s][n].unrel = "checked"
    /\ sinks' = [sinks EXCEPT ![s][n].unrel = "waiting"]
    /\ UNCHANGED <<handle, cmd, payloads, out, sends, role, pending, ended,
                   closing, blocked, over, lost, wire, messages, acked>>

\* The TransferEnd in the pipeline of a dropped sink is never answered.
DropRel(s, n) ==
    /\ s \in MayDropSinks
    /\ n \in DOMAIN sinks[s]
    /\ sinks[s][n].rel = "idle"
    /\ sinks' = [sinks EXCEPT ![s][n] =
                    [@ EXCEPT !.rel = "dropped", !.ask = 0, !.final = 0]]
    /\ UNCHANGED <<handle, cmd, payloads, out, sends, role, pending, ended,
                   closing, blocked, over, lost, wire, messages, acked>>

DropUnrel(s, n) ==
    /\ s \in MayDropSinks
    /\ n \in DOMAIN sinks[s]
    /\ sinks[s][n].unrel = "idle"
    /\ sinks' = [sinks EXCEPT ![s][n].unrel = "dropped"]
    /\ UNCHANGED <<handle, cmd, payloads, out, sends, role, pending, ended,
                   closing, blocked, over, lost, wire, messages, acked>>

-----------------------------------------------------------------------------
(* The connection, and the whole.                                           *)

\* A side's connection ends; it may take the other a while to notice.
Lose(s) ==
    /\ s \in MayLose \/ Other(s) \in lost
    /\ s \notin lost
    /\ lost' = lost \cup {s}
    /\ wire' = [o \in Sides |->
                  IF Other(o) \in blocked /\ wire[o] # << >>
                  THEN <<Head(wire[o])>> ELSE << >>]
    /\ UNCHANGED <<handle, cmd, payloads, out, sends, role, pending, ended,
                   closing, blocked, over, messages, sinks, acked>>

Task(s) ==
    \/ StartTransfer(s)
    \/ SendPayload(s)
    \/ \E n \in DOMAIN out[s] : EndTransfer(s, n)
    \/ \E n \in DOMAIN sinks[s] : SendAck(s, n)
    \/ SeeDropped(s)
    \/ Close(s)
    \/ Block(s)
    \/ HandleStart(s)
    \/ HandlePayload(s)
    \/ HandleEnd(s)
    \/ HandleAck(s)
    \/ HandleEof(s)

Rel(s, n) == RelCall(s, n) \/ RelTake(s, n) \/ RelRead(s, n)
Unrel(s, n) == UnrelCheck(s, n) \/ UnrelWait(s, n)

App(s) ==
    \/ CallStart(s)
    \/ CallPayload(s)
    \/ Accept(s)
    \/ DropHandle(s)
    \/ \E n \in DOMAIN out[s] :
            CallEnd(s, n) \/ DropStream(s, n) \/ Expire(s, n)
    \/ \E n \in DOMAIN sinks[s] :
            Rel(s, n) \/ Unrel(s, n) \/ DropRel(s, n) \/ DropUnrel(s, n)

LifecycleNext == \E s \in Sides : Task(s) \/ App(s) \/ Lose(s)

LifecycleSpec == LifecycleInit /\ [][LifecycleNext]_svars

\* Chunks keep coming, sent again if need be, while both tasks can talk.
Talking == over = {} /\ lost = {}

\* Whatever the application reads while it holds it.
Reading(s) ==
    \/ Accept(s)
    \/ \E n \in DOMAIN sinks[s] :
        \/ RelCall(s, n) \/ RelTake(s, n) \/ Unrel(s, n)
        \/ Talking /\ RelRead(s, n)

\* Tasks are scheduled, applications go on reading, the 5 s pass, and a side
\* notices that the other has lost the connection.
FairLifecycleSpec ==
    /\ LifecycleSpec
    /\ \A s \in Sides :
        /\ WF_svars(Task(s))
        /\ WF_svars(Reading(s))
        /\ WF_svars(\E n \in DOMAIN out[s] : Expire(s, n))
        /\ WF_svars(Other(s) \in lost /\ Lose(s))

-----------------------------------------------------------------------------
(* Properties.                                                              *)

Transfers == [dual : BOOLEAN, empty : BOOLEAN,
              call : InCall \cup {"held", "gone", "ok", "error"}]
Roles == [is : {"unknown", "sender", "receiver"}, n : Nat, waiter : Nat]
Messages == [kind : {"Start", "Payload", "End", "Ack", "Fin"}, n : Nat]
SinkStates == {"queued", "idle", "checked", "waiting", "ended", "dropped"}
SinkPairs == [rel : SinkStates, unrel : SinkStates, ask : Nat, final : Nat,
              full : BOOLEAN]

LifecycleTypeOK ==
    /\ handle \subseteq Sides
    /\ cmd \in [Sides -> {"none", "start", "payload"}]
    /\ payloads \in [Sides -> Nat]
    /\ out \in [Sides -> Seq(Transfers)]
    /\ sends \in [Sides -> SUBSET Messages]
    /\ role \in [Sides -> Roles]
    /\ pending \in [Sides -> Nat]
    /\ {ended, closing, over, lost} \subseteq SUBSET Sides
    /\ blocked \subseteq Sides \ over
    /\ wire \in [Sides -> Seq(Messages)]
    /\ messages \in [Sides -> Seq(Nat)]
    /\ sinks \in [Sides -> Seq(SinkPairs)]
    /\ acked \in [Sides -> SUBSET Nat]

\* end() returns Ok only when the other side has acknowledged this transfer,
\* and its reliable sink has read the whole of it (send.rs:218-232).
EndOkMeansAcked ==
    \A s \in Sides : \A n \in DOMAIN out[s] :
        out[s][n].call = "ok" =>
            /\ n \in acked[Other(s)]
            /\ out[s][n].dual /\ ~out[s][n].empty => sinks[Other(s)][n].full

\* Transfers whose TransferEnd s has been sent and has not acknowledged.
Unanswered(s) ==
    {n \in DOMAIN sinks[s] :
        sinks[s][n].ask # 0 \/ sinks[s][n].final # 0 \/ Msg("Ack", n) \in sends[s]}

\* A task whose handle is gone does not close the stream while the answer to
\* a TransferEnd it has read is still on its way (stream.rs:124-128).
ClosesSettled ==
    \A s \in closing \ over : Settled(s) => Unanswered(s) = {}

Abandoned(sink) == {sink.rel, sink.unrel} = {"dropped"}

\* Nor before it has acknowledged the first transfer it received, so long as
\* the application still reads it (stream.rs:142-151).  is_ended is never
\* reset, so of a later transfer this is not so.
AckBeforeClose ==
    \A s \in closing \ over :
        Settled(s) /\ Len(sinks[s]) = 1 /\ ~Abandoned(sinks[s][1]) => 1 \in acked[s]

\* The reliable sink reports the end of a transfer only once it has returned
\* all of it: end() of the task, which ends every sink that waits, is never
\* called for another transfer in the meantime.
RelEndsComplete ==
    \A s \in Sides : \A n \in DOMAIN sinks[s] :
        out[Other(s)][n].dual /\ sinks[s][n].rel = "ended" =>
            sinks[s][n].full \/ out[Other(s)][n].empty

\* Every call on a stream returns, whatever becomes of the other side: again
\* and again none is open.
CallsReturn ==
    []<>(\A s \in Sides : \A n \in DOMAIN out[s] : out[s][n].call \notin InCall)

\* While both tasks can talk, a reliable sink that was sent the TransferEnd of
\* its transfer ends.
AskedSinkEnds ==
    []<>(Talking => \A s \in Sides : \A n \in DOMAIN sinks[s] :
            sinks[s][n].ask # 0 \/ sinks[s][n].final # 0 =>
                sinks[s][n].rel \in {"ended", "dropped"})

RelOf(s, n) == IF n \in DOMAIN sinks[s] THEN sinks[s][n].rel ELSE "none"

\* Once an empty transfer has been acknowledged its reliable sink ends
\* (CHANGELOG.md:20).
EmptyTransferEnds ==
    \A s \in Sides, n \in DOMAIN Turns :
        n \in acked[s] /\ out[Other(s)][n].empty
            ~> RelOf(s, n) \in {"ended", "dropped"}

\* When both applications have dropped their handles both tasks end.
TasksEnd == (handle = {}) ~> (over = Sides)
=============================================================================
