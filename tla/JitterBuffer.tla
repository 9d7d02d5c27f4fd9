---------------------------- MODULE JitterBuffer ----------------------------
(****************************************************************************)
(* OpusJitterBuffer (mani/transfer/jitter.rs): frames come from the         *)
(* unreliable sink late, out of order or twice; yield_pcm() returns one     *)
(* frame per slot of FrameMs, the one in hand or a concealment.             *)
(*                                                                          *)
(* A frame is named by its timestamp.  yield_pcm() awaits in one place, its *)
(* recv(): pc is idle outside of it, manage at the head of its loop, recv   *)
(* while it waits.                                                          *)
(****************************************************************************)
EXTENDS Integers, Sequences, FiniteSets, FiniteSetsExt

CONSTANTS Stamps,       \* timestamps frames may have
          FrameMs,      \* frame_size_ms
          DelayMs,      \* playout_delay_ms
          MaxArrivals,  \* bound: frames received
          MaxFaults,    \* bound: calls of the decoder that fail
          MaxStalls,    \* bound: waits that time out or are cancelled
          NoSlot        \* next_play_ts is None

ASSUME JitterAssumption ==
    /\ Stamps \subseteq Nat
    /\ FrameMs \in Nat \ {0}
    /\ {DelayMs, MaxArrivals, MaxFaults, MaxStalls} \subseteq Nat
    /\ NoSlot \notin Int

VARIABLES
    buffer,    \* timestamps of the frames in hand
    next,      \* next_play_ts
    isEof,     \* is_eof
    pc,
    finished,  \* yield_pcm() returned None
    arrivals, faults, stalls,
    out,       \* history: what was returned, [kind, slot] each
    timely,    \* history: frames that came before their slot was over
    spoilt,    \* history: frames the decoder refused
    skipped    \* history: the end of the stream moved playout on or back

jvars == <<buffer, next, isEof, pc, finished, arrivals, faults, stalls, out,
           timely, spoilt, skipped>>

JitterInit ==
    /\ buffer = {}
    /\ next = NoSlot
    /\ isEof = FALSE
    /\ pc = "idle"
    /\ finished = FALSE
    /\ arrivals = 0
    /\ faults = 0
    /\ stalls = 0
    /\ out = << >>
    /\ timely = {}
    /\ spoilt = {}
    /\ skipped = FALSE

Started == next # NoSlot

InHand == Started /\ next \in buffer

MaxTs == IF buffer = {} THEN 0 ELSE Max(buffer)

\* max_ts.saturating_sub(next_play_ts) >= playout_delay_ms
DelayOver == (IF MaxTs >= next THEN MaxTs - next ELSE 0) >= DelayMs

-----------------------------------------------------------------------------
YieldPcm ==
    /\ pc = "idle"
    /\ ~finished
    /\ pc' = "manage"
    /\ UNCHANGED <<buffer, next, isEof, finished, arrivals, faults, stalls, out,
                   timely, spoilt, skipped>>

Return(kind) ==
    /\ out' = Append(out, [kind |-> kind, slot |-> next])
    /\ next' = next + FrameMs
    /\ pc' = "idle"

Play ==
    /\ pc = "manage"
    /\ InHand
    /\ buffer' = buffer \ {next}
    /\ Return("frame")
    /\ UNCHANGED <<isEof, finished, arrivals, faults, stalls, timely, spoilt, skipped>>

\* decode_float fails: the frame is gone, its slot is not.
PlayFails ==
    /\ faults < MaxFaults
    /\ pc = "manage"
    /\ InHand
    /\ buffer' = buffer \ {next}
    /\ spoilt' = spoilt \cup {next}
    /\ faults' = faults + 1
    /\ pc' = "idle"
    /\ UNCHANGED <<next, isEof, finished, arrivals, stalls, out, timely, skipped>>

Finish ==
    /\ pc = "manage"
    /\ Started
    /\ isEof
    /\ buffer = {}
    /\ finished' = TRUE
    /\ pc' = "idle"
    /\ UNCHANGED <<buffer, next, isEof, arrivals, faults, stalls, out, timely,
                   spoilt, skipped>>

\* Mutant: only a gap ahead is skipped, never back to a late frame.
SkipGapAhead ==
    /\ pc = "manage"
    /\ Started /\ ~InHand
    /\ isEof
    /\ \E t \in buffer : t > next
    /\ next' = Min({t \in buffer : t > next})
    /\ skipped' = TRUE
    /\ UNCHANGED <<buffer, isEof, pc, finished, arrivals, faults, stalls, out,
                   timely, spoilt>>

\* At the end of the stream the next slot is that of the first frame in hand.
SkipGap ==
    /\ pc = "manage"
    /\ Started /\ ~InHand
    /\ isEof
    /\ next' \in buffer
    /\ \A t \in buffer : next' <= t
    /\ skipped' = TRUE
    /\ UNCHANGED <<buffer, isEof, pc, finished, arrivals, faults, stalls, out,
                   timely, spoilt>>

\* Mutants: the delay is looked at before the buffer; a concealed slot stays.
ConcealFirst ==
    /\ pc = "manage"
    /\ Started
    /\ ~isEof
    /\ DelayOver
    /\ Return("concealed")
    /\ UNCHANGED <<buffer, isEof, finished, arrivals, faults, stalls, timely,
                   spoilt, skipped>>

ConcealAgain ==
    /\ pc = "manage"
    /\ Started /\ ~InHand
    /\ ~isEof
    /\ DelayOver
    /\ Len(out) < 2 * MaxArrivals
    /\ out' = Append(out, [kind |-> "concealed", slot |-> next])
    /\ pc' = "idle"
    /\ UNCHANGED <<buffer, next, isEof, finished, arrivals, faults, stalls, timely,
                   spoilt, skipped>>

Conceal ==
    /\ pc = "manage"
    /\ Started /\ ~InHand
    /\ ~isEof
    /\ DelayOver
    /\ Return("concealed")
    /\ UNCHANGED <<buffer, isEof, finished, arrivals, faults, stalls, timely,
                   spoilt, skipped>>

ConcealFails ==
    /\ faults < MaxFaults
    /\ pc = "manage"
    /\ Started /\ ~InHand
    /\ ~isEof
    /\ DelayOver
    /\ faults' = faults + 1
    /\ pc' = "idle"
    /\ UNCHANGED <<buffer, next, isEof, finished, arrivals, stalls, out, timely,
                   spoilt, skipped>>

Wait ==
    /\ pc = "manage"
    /\ Started => ~InHand /\ ~isEof /\ ~DelayOver
    /\ pc' = "recv"
    /\ UNCHANGED <<buffer, next, isEof, finished, arrivals, faults, stalls, out,
                   timely, spoilt, skipped>>

\* Mutant: a frame whose slot is over is thrown away.
ReceiveTimely(ts) ==
    /\ pc = "recv"
    /\ ~isEof
    /\ arrivals < MaxArrivals
    /\ arrivals' = arrivals + 1
    /\ next' = IF Started THEN next ELSE ts
    /\ buffer' = IF Started /\ ts <= next THEN buffer ELSE buffer \cup {ts}
    /\ timely' = IF Started /\ ts < next THEN timely ELSE timely \cup {ts}
    /\ pc' = "manage"
    /\ UNCHANGED <<isEof, finished, faults, stalls, out, spoilt, skipped>>

Receive(ts) ==
    /\ pc = "recv"
    /\ ~isEof
    /\ arrivals < MaxArrivals
    /\ arrivals' = arrivals + 1
    /\ next' = IF Started THEN next ELSE ts
    /\ buffer' = buffer \cup {ts}
    /\ timely' = IF Started /\ ts < next THEN timely ELSE timely \cup {ts}
    /\ pc' = "manage"
    /\ UNCHANGED <<isEof, finished, faults, stalls, out, spoilt, skipped>>

\* recv() returns None; without any frame there is nothing to play.
ReceiveEof ==
    /\ pc = "recv"
    /\ isEof' = TRUE
    /\ finished' = ~Started
    /\ pc' = IF Started THEN "manage" ELSE "idle"
    /\ UNCHANGED <<buffer, next, arrivals, faults, stalls, out, timely, spoilt,
                   skipped>>

\* Err(Stalled), or the caller gave yield_pcm() up.
Stall ==
    /\ stalls < MaxStalls
    /\ pc = "recv"
    /\ stalls' = stalls + 1
    /\ pc' = "idle"
    /\ UNCHANGED <<buffer, next, isEof, finished, arrivals, faults, out, timely,
                   spoilt, skipped>>

-----------------------------------------------------------------------------
Manage == Play \/ Finish \/ SkipGap \/ Conceal \/ Wait

JitterNext ==
    \/ YieldPcm
    \/ Manage
    \/ PlayFails
    \/ ConcealFails
    \/ \E ts \in Stamps : Receive(ts)
    \/ ReceiveEof
    \/ Stall

JitterSpec == JitterInit /\ [][JitterNext]_jvars

\* The application keeps calling yield_pcm(); its stream ends some time.
FairJitterSpec ==
    /\ JitterSpec
    /\ WF_jvars(YieldPcm)
    /\ WF_jvars(Manage)
    /\ WF_jvars((\E ts \in Stamps : Receive(ts)) \/ ReceiveEof)

-----------------------------------------------------------------------------
(* Properties                                                               *)

\* Every variable has its type.
JitterTypeOK ==
    /\ buffer \subseteq Stamps
    /\ next \in Nat \cup {NoSlot}
    /\ isEof \in BOOLEAN
    /\ pc \in {"idle", "manage", "recv"}
    /\ finished \in BOOLEAN
    /\ out \in Seq([kind : {"frame", "concealed"}, slot : Nat])
    /\ timely \subseteq Stamps
    /\ spoilt \subseteq Stamps
    /\ skipped \in BOOLEAN

Slots(kind) == {out[i].slot : i \in {j \in DOMAIN out : out[j].kind = kind}}

\* Until the end of the stream makes it skip, playout returns one frame for
\* each slot, one slot after the other, whatever comes late, fails or stalls.
SlotBySlot ==
    ~skipped => \A i \in DOMAIN out : out[i].slot = out[1].slot + (i - 1) * FrameMs

\* A frame that came before its slot was over is not concealed in that slot,
\* unless the decoder refused it.
TimelyNotConcealed == Slots("concealed") \cap timely \subseteq spoilt

\* Every frame is played in the end: when yield_pcm() returns None nothing
\* that came in time is left unplayed but what the decoder refused.
TimelyPlayed == finished => timely \subseteq Slots("frame") \cup spoilt

\* Playout never goes back.
PlayoutMonotone == \A i, j \in DOMAIN out : i < j => out[i].slot < out[j].slot

\* Once the stream has ended yield_pcm() gets to None.
EofFinishes == isEof ~> finished
=============================================================================
