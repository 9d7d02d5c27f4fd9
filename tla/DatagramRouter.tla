--------------------------- MODULE DatagramRouter ---------------------------
(****************************************************************************)
(* DatagramPacketRouter (datagram/router.rs) of one connection.             *)
(*                                                                          *)
(* The router task takes datagrams off the connection, one at a time, and   *)
(* puts each on the channel of its stream or, when the stream has not been  *)
(* registered, on the stream's list of pending packets.  The ManiStreamTask *)
(* of a stream registers its channel when TransferStart arrives, which may  *)
(* be at any point in between; a spawned task then flushes what is pending. *)
(*                                                                          *)
(* A step is the code between two accesses of the shared maps or two awaits.*)
(* route() keeps the guard of its shard of senders while it waits for room  *)
(* in the channel; register() wants that shard for writing and blocks its   *)
(* worker thread, not just its task, until the guard is gone.               *)
(****************************************************************************)
EXTENDS Integers, Sequences, FiniteSets, FiniteSetsExt, SequencesExt

CONSTANTS Streams,
          Shard,        \* [Streams -> shard of the DashMap]
          Workers,      \* worker threads of the runtime
          ChannelSize,  \* max_datagram_channel_size
          MaxPending,   \* max_packet_buffer_size
          MaxPackets,   \* bound: datagrams per stream
          MayExpire,    \* whether pending_packet_timeout may run out
          MayDie        \* whether a stream's decoding task may end

ASSUME RouterAssumption ==
    /\ IsFiniteSet(Streams)
    /\ Workers \in Nat \ {0}
    /\ ChannelSize \in Nat \ {0}
    /\ MaxPending \in Nat
    /\ MaxPackets \in Nat
    /\ MayExpire \in BOOLEAN
    /\ MayDie \in BOOLEAN
    /\ DOMAIN Shard = Streams

VARIABLES
    senders,  \* streams with an entry in senders
    pending,  \* pending_packets of each stream, oldest first
    chan,     \* the datagram channel of each stream
    alive,    \* streams whose channel still has its receiver
    pc,       \* the router: idle, sending, buffering, removing
    at,       \* the stream of the packet it handles
    reg,      \* register() of each stream: no, entered, inserted, done
    flush,    \* packets the spawned task has yet to send
    arrived,  \* history: datagrams received per stream, numbered from 1
    ready,    \* history: arrived when the stream's sender was in place
    got,      \* history: packets taken off the channel, in order
    expired,  \* history: packets cleanup discarded
    refused,  \* history: packets that met a full pending list
    lost      \* history: packets of a channel whose receiver is gone

rvars == <<senders, pending, chan, alive, pc, at, reg, flush, arrived, ready,
           got, expired, refused, lost>>

RouterInit ==
    /\ senders = {}
    /\ pending = [s \in Streams |-> << >>]
    /\ chan = [s \in Streams |-> << >>]
    /\ alive = Streams
    /\ pc = "idle"
    /\ at \in Streams
    /\ reg = [s \in Streams |-> "no"]
    /\ flush = [s \in Streams |-> << >>]
    /\ arrived = [s \in Streams |-> 0]
    /\ ready = [s \in Streams |-> 0]
    /\ got = [s \in Streams |-> << >>]
    /\ expired = [s \in Streams |-> {}]
    /\ refused = [s \in Streams |-> {}]
    /\ lost = [s \in Streams |-> {}]

\* A worker inside register() serves no other task.
WorkerFree == Cardinality({s \in Streams : reg[s] \in {"entered", "inserted"}})
                < Workers

\* The router holds the guard of the shard of s.
ShardHeld(s) == pc = "sending" /\ Shard[at] = Shard[s]

Packet == arrived[at]

-----------------------------------------------------------------------------
(* run and route                                                            *)

Receive(s) ==
    /\ WorkerFree
    /\ pc = "idle"
    /\ arrived[s] < MaxPackets
    /\ arrived' = [arrived EXCEPT ![s] = @ + 1]
    /\ at' = s
    /\ pc' = IF s \in senders THEN "sending" ELSE "buffering"
    /\ UNCHANGED <<ready, senders, pending, chan, alive, reg, flush, got, expired,
                   refused, lost>>

Forward ==
    /\ WorkerFree
    /\ pc = "sending"
    /\ at \in alive
    /\ Len(chan[at]) < ChannelSize
    /\ chan' = [chan EXCEPT ![at] = Append(@, Packet)]
    /\ pc' = "idle"
    /\ UNCHANGED <<ready, senders, pending, alive, at, reg, flush, arrived, got,
                   expired, refused, lost>>

\* Mutant: a send that fails is tried again.
ForwardFailsKept ==
    /\ WorkerFree
    /\ pc = "sending"
    /\ at \notin alive
    /\ UNCHANGED rvars

ForwardFails ==
    /\ WorkerFree
    /\ pc = "sending"
    /\ at \notin alive
    /\ lost' = [lost EXCEPT ![at] = @ \cup {Packet}]
    /\ pc' = "removing"
    /\ UNCHANGED <<ready, senders, pending, chan, alive, at, reg, flush, arrived, got,
                   expired, refused>>

RemoveSender ==
    /\ WorkerFree
    /\ pc = "removing"
    /\ senders' = senders \ {at}
    /\ pc' = "idle"
    /\ UNCHANGED <<ready, pending, chan, alive, at, reg, flush, arrived, got, expired,
                   refused, lost>>

Buffer ==
    /\ WorkerFree
    /\ pc = "buffering"
    /\ IF Len(pending[at]) < MaxPending
       THEN /\ pending' = [pending EXCEPT ![at] = Append(@, Packet)]
            /\ UNCHANGED refused
       ELSE /\ refused' = [refused EXCEPT ![at] = @ \cup {Packet}]
            /\ UNCHANGED pending
    /\ pc' = "idle"
    /\ UNCHANGED <<ready, senders, chan, alive, at, reg, flush, arrived, got, expired,
                   lost>>

\* cleanup_pending_packets: of every list the packets too old by now, which
\* are the first ones.
Cleanup ==
    /\ MayExpire
    /\ WorkerFree
    /\ pc = "idle"
    /\ \E old \in [Streams -> 0 .. MaxPackets] :
         /\ \A s \in Streams : old[s] <= Len(pending[s])
         /\ pending' = [s \in Streams |->
                          SubSeq(pending[s], old[s] + 1, Len(pending[s]))]
         /\ expired' = [s \in Streams |->
                          expired[s] \cup ToSet(SubSeq(pending[s], 1, old[s]))]
    /\ UNCHANGED <<ready, senders, chan, alive, pc, at, reg, flush, arrived, got,
                   refused, lost>>

-----------------------------------------------------------------------------
(* register, the flush it spawns, and the owner of the channel              *)

Register(s) ==
    /\ WorkerFree
    /\ reg[s] = "no"
    /\ reg' = [reg EXCEPT ![s] = "entered"]
    /\ UNCHANGED <<ready, senders, pending, chan, alive, pc, at, flush, arrived, got,
                   expired, refused, lost>>

InsertSender(s) ==
    /\ reg[s] = "entered"
    /\ ~ShardHeld(s)
    /\ senders' = senders \cup {s}
    /\ ready' = [ready EXCEPT ![s] = arrived[s]]
    /\ reg' = [reg EXCEPT ![s] = "inserted"]
    /\ UNCHANGED <<pending, chan, alive, pc, at, flush, arrived, got, expired,
                   refused, lost>>

\* Mutant: the pending packets are copied, not removed.
TakePendingCopy(s) ==
    /\ reg[s] = "inserted"
    /\ flush' = [flush EXCEPT ![s] = pending[s]]
    /\ reg' = [reg EXCEPT ![s] = "done"]
    /\ UNCHANGED <<ready, senders, pending, chan, alive, pc, at, arrived, got, expired,
                   refused, lost>>

TakePending(s) ==
    /\ reg[s] = "inserted"
    /\ flush' = [flush EXCEPT ![s] = pending[s]]
    /\ pending' = [pending EXCEPT ![s] = << >>]
    /\ reg' = [reg EXCEPT ![s] = "done"]
    /\ UNCHANGED <<ready, senders, chan, alive, pc, at, arrived, got, expired,
                   refused, lost>>

Flush(s) ==
    /\ WorkerFree
    /\ flush[s] # << >>
    /\ s \in alive
    /\ Len(chan[s]) < ChannelSize
    /\ chan' = [chan EXCEPT ![s] = Append(@, Head(flush[s]))]
    /\ flush' = [flush EXCEPT ![s] = Tail(@)]
    /\ UNCHANGED <<ready, senders, pending, alive, pc, at, reg, arrived, got, expired,
                   refused, lost>>

FlushFails(s) ==
    /\ WorkerFree
    /\ flush[s] # << >>
    /\ s \notin alive
    /\ lost' = [lost EXCEPT ![s] = @ \cup ToSet(flush[s])]
    /\ flush' = [flush EXCEPT ![s] = << >>]
    /\ UNCHANGED <<ready, senders, pending, chan, alive, pc, at, reg, arrived, got,
                   expired, refused>>

\* CompressedPacketReceiver takes the next packet.
Take(s) ==
    /\ WorkerFree
    /\ s \in alive
    /\ chan[s] # << >>
    /\ got' = [got EXCEPT ![s] = Append(@, Head(chan[s]))]
    /\ chan' = [chan EXCEPT ![s] = Tail(@)]
    /\ UNCHANGED <<ready, senders, pending, alive, pc, at, reg, flush, arrived,
                   expired, refused, lost>>

\* It ends, and drops what is queued.
Die(s) ==
    /\ MayDie
    /\ WorkerFree
    /\ reg[s] = "done"
    /\ s \in alive
    /\ alive' = alive \ {s}
    /\ lost' = [lost EXCEPT ![s] = @ \cup ToSet(chan[s])]
    /\ chan' = [chan EXCEPT ![s] = << >>]
    /\ UNCHANGED <<ready, senders, pending, pc, at, reg, flush, arrived, got, expired,
                   refused>>

-----------------------------------------------------------------------------
RouterStep == Forward \/ ForwardFails \/ RemoveSender \/ Buffer

StreamStep(s) == InsertSender(s) \/ TakePending(s) \/ Flush(s) \/ FlushFails(s)
                 \/ Take(s)

RouterNext ==
    \/ RouterStep
    \/ Cleanup
    \/ \E s \in Streams : Receive(s) \/ StreamStep(s) \/ Register(s) \/ Die(s)

RouterSpec == RouterInit /\ [][RouterNext]_rvars

\* The runtime runs every task that can run and every stream's decoding task
\* keeps reading; nothing makes a datagram arrive or a transfer start.
FairRouterSpec ==
    /\ RouterSpec
    /\ WF_rvars(RouterStep)
    /\ \A s \in Streams : /\ WF_rvars(InsertSender(s) \/ TakePending(s))
                          /\ WF_rvars(Flush(s) \/ FlushFails(s))
                          /\ WF_rvars(Take(s))

-----------------------------------------------------------------------------
(* Properties                                                               *)

\* Every variable has its type and every queue its limit.
RouterTypeOK ==
    /\ senders \subseteq Streams
    /\ \A q \in {pending, chan, flush, got} :
         q \in [Streams -> Seq(1 .. MaxPackets)]
    /\ \A s \in Streams : /\ Len(pending[s]) <= MaxPending
                          /\ Len(chan[s]) <= ChannelSize
    /\ ready \in [Streams -> 0 .. MaxPackets]
    /\ alive \subseteq Streams
    /\ pc \in {"idle", "sending", "buffering", "removing"}
    /\ at \in Streams
    /\ reg \in [Streams -> {"no", "entered", "inserted", "done"}]
    /\ arrived \in [Streams -> 0 .. MaxPackets]
    /\ \A h \in {expired, refused, lost} : h \in [Streams -> SUBSET (1 .. MaxPackets)]

Queued(s) == pending[s] \o chan[s] \o flush[s] \o got[s]

InHand(s) == IF pc \in {"sending", "buffering"} /\ at = s
             THEN {arrived[s]} ELSE {}

\* Every datagram received is in exactly one place: with the router, in one
\* queue, delivered, or discarded for one reason; none is delivered twice.
EachOnce ==
    \A s \in Streams :
        LET queued == ToSet(Queued(s))
            parts  == << queued, InHand(s), expired[s], refused[s], lost[s] >>
        IN  /\ IsInjective(Queued(s))
            /\ UNION Range(parts) = 1 .. arrived[s]
            /\ \A i, j \in DOMAIN parts : i # j => parts[i] \cap parts[j] = {}

\* Only packets that arrived before the stream's sender was in place are ever
\* put aside or discarded: from then on the router has a channel for them.
OnlyEarlyBuffered ==
    \A s \in Streams \cap alive :
        reg[s] \in {"inserted", "done"} =>
            \A n \in ToSet(pending[s] \o flush[s]) \cup expired[s] \cup refused[s] :
                n <= ready[s]

\* register() leaves behind at most the one packet that the router, having
\* found no sender, had in hand when it ran.
AtMostOneStranded ==
    \A s \in Streams \cap alive :
        reg[s] = "done" =>
            Len(pending[s]) + (IF pc = "buffering" /\ at = s THEN 1 ELSE 0) <= 1

\* Once a stream is registered nothing of its is left pending, but for the
\* packet the router is putting there right now.
NothingStranded ==
    \A s \in Streams \cap alive :
        reg[s] = "done" /\ ~(pc = "buffering" /\ at = s) => pending[s] = << >>

\* register() comes to its end, although it may wait for a stream that is
\* not its own.
RegisterReturns == \A s \in Streams : (reg[s] = "entered") ~> (reg[s] = "done")

\* The router gets rid of every packet it takes.
RouterMoves == (pc # "idle") ~> (pc = "idle")
=============================================================================
