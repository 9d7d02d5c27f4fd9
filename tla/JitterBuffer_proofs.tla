------------------------ MODULE JitterBuffer_proofs ------------------------
(****************************************************************************)
(* Proofs about JitterBuffer, for frames of any timestamps in any order,    *)
(* any frame size and delay, and every failure of the decoder or stall.     *)
(****************************************************************************)
EXTENDS JitterBuffer, TLAPS

Returned == [kind : {"frame", "concealed"}, slot : Nat]

OutType == Seq(Returned)

\* What the proofs need of the types; nothing is in hand before the first
\* frame has come.
Types ==
    /\ buffer \subseteq Nat
    /\ next \in Nat \cup {NoSlot}
    /\ out \in OutType
    /\ timely \subseteq Nat
    /\ ~Started => out = << >> /\ buffer = {} /\ timely = {}

\* While frames come, playout is past every slot it returned.
PastIsPast ==
    /\ skipped => isEof
    /\ ~isEof => \A i \in DOMAIN out : out[i].slot < next

\* A frame that came in time is in hand, was played, or was refused.
Kept == timely \subseteq buffer \cup Slots("frame") \cup spoilt

FinishedInv == finished => buffer = {} /\ pc = "idle"

JitterInv == Types /\ PastIsPast /\ Kept /\ FinishedInv /\ TimelyNotConcealed

-----------------------------------------------------------------------------
\* A step that returns nothing leaves the slots alone; one that does adds one.
LEMMA SlotsAppend ==
    ASSUME NEW kind \in {"frame", "concealed"}, Types, Started,
           out' = Append(out, [kind |-> kind, slot |-> next])
    PROVE  /\ out' \in OutType
           /\ \A k \in {"frame", "concealed"} :
                Slots(k)' = IF k = kind THEN Slots(k) \cup {next} ELSE Slots(k)
           /\ DOMAIN out' = DOMAIN out \cup {Len(out) + 1}
           /\ \A i \in DOMAIN out : out'[i] = out[i]
           /\ out'[Len(out) + 1].slot = next
<1> DEFINE r == [kind |-> kind, slot |-> next]
           n == Len(out) + 1
<1>1. r \in Returned /\ r.kind = kind /\ r.slot = next
  BY DEF Types, Started, Returned
<1>2. out' \in OutType
  BY <1>1, SMT DEF OutType, Types
<1>3. /\ DOMAIN out' = DOMAIN out \cup {n}
      /\ n \notin DOMAIN out
      /\ out'[n] = r
      /\ \A i \in DOMAIN out : out'[i] = out[i]
  BY <1>1, SMT DEF OutType, Types
<1>4. ASSUME NEW k \in {"frame", "concealed"}
      PROVE  Slots(k)' = IF k = kind THEN Slots(k) \cup {next} ELSE Slots(k)
  BY <1>1, <1>3 DEF Slots
<1> QED BY <1>1, <1>2, <1>3, <1>4

\* A slot returned is past as soon as playout moves on.
LEMMA ReturnIsPast ==
    ASSUME NEW kind \in {"frame", "concealed"}, Types, Started, PastIsPast,
           out' = Append(out, [kind |-> kind, slot |-> next]),
           next' = next + FrameMs, UNCHANGED <<isEof, skipped>>
    PROVE  PastIsPast'
<1>1. next \in Nat /\ next' \in Nat /\ next < next'
  BY JitterAssumption, SMT DEF Types, Started
<1>2. SUFFICES ASSUME ~isEof, NEW i \in DOMAIN out'
               PROVE  out'[i].slot < next'
  BY DEF PastIsPast
<1>3. CASE i \in DOMAIN out
  <2>1. out'[i] = out[i]
    BY <1>3, SlotsAppend
  <2>2. out[i].slot \in Nat
    <3>1. out[i] \in Returned
      BY <1>3, SMT DEF Types, OutType
    <3> QED BY <3>1 DEF Returned
  <2>3. out[i].slot < next
    BY <1>2, <1>3 DEF PastIsPast
  <2> QED BY <1>1, <2>1, <2>2, <2>3, SMT
<1>4. CASE i = Len(out) + 1
  BY <1>1, <1>4, SlotsAppend, SMT
<1> QED BY <1>2, <1>3, <1>4, SlotsAppend

\* The invariant holds before the first frame.
LEMMA InitInv == JitterInit => JitterInv
<1> SUFFICES ASSUME JitterInit PROVE JitterInv
  OBVIOUS
<1>1. out = << >> /\ out \in OutType /\ DOMAIN out = {}
  BY SMT DEF JitterInit, OutType
<1>2. Slots("frame") = {} /\ Slots("concealed") = {}
  BY <1>1 DEF Slots
<1> QED BY <1>1, <1>2 DEF JitterInit, JitterInv, Types, Started, PastIsPast, Kept,
           FinishedInv, TimelyNotConcealed

\* A frame that is played is accounted for, and its slot is past.
LEMMA PlayStep ==
    ASSUME JitterInv, Play
    PROVE  JitterInv'
<1> USE DEF JitterInv
<1>1. /\ Started
      /\ next \in Nat
      /\ next \in buffer
      /\ buffer' = buffer \ {next}
      /\ next' = next + FrameMs
      /\ out' = Append(out, [kind |-> "frame", slot |-> next])
      /\ UNCHANGED <<isEof, finished, timely, spoilt, skipped>>
      /\ ~finished
  BY DEF Play, InHand, Return, Types, Started, FinishedInv
<1>2. Started' /\ next' \in Nat /\ next < next'
  BY <1>1, JitterAssumption, SMT DEF Started
<1>3. Types'
  BY <1>1, <1>2, SlotsAppend DEF Types
<1>4. PastIsPast'
  BY <1>1, ReturnIsPast
<1>5. Slots("frame")' = Slots("frame") \cup {next} /\ Slots("concealed")' = Slots("concealed")
  BY <1>1, SlotsAppend
<1>6. Kept' /\ FinishedInv' /\ TimelyNotConcealed'
  BY <1>1, <1>5 DEF Kept, FinishedInv, TimelyNotConcealed
<1> QED BY <1>3, <1>4, <1>6

\* Playout was never at this slot before, so a frame that came for it in time
\* and is not in hand was refused.
LEMMA ConcealStep ==
    ASSUME JitterInv, Conceal
    PROVE  JitterInv'
<1> USE DEF JitterInv
<1>1. /\ Started
      /\ next \in Nat
      /\ next \notin buffer
      /\ ~isEof
      /\ next' = next + FrameMs
      /\ out' = Append(out, [kind |-> "concealed", slot |-> next])
      /\ UNCHANGED <<buffer, isEof, finished, timely, spoilt, skipped>>
      /\ ~finished
  BY DEF Conceal, InHand, Return, Types, Started, FinishedInv
<1>2. Started' /\ next' \in Nat /\ next < next'
  BY <1>1, JitterAssumption, SMT DEF Started
<1>3. Types'
  BY <1>1, <1>2, SlotsAppend DEF Types
<1>4. PastIsPast'
  BY <1>1, ReturnIsPast
<1>5. Slots("frame")' = Slots("frame") /\ Slots("concealed")' = Slots("concealed") \cup {next}
  BY <1>1, SlotsAppend
<1>6. next \notin Slots("frame")
  BY <1>1, SMT DEF Slots, PastIsPast
<1>7. next \in timely => next \in spoilt
  BY <1>1, <1>6 DEF Kept
<1>8. Kept' /\ FinishedInv' /\ TimelyNotConcealed'
  BY <1>1, <1>5, <1>7 DEF Kept, FinishedInv, TimelyNotConcealed
<1> QED BY <1>3, <1>4, <1>8

\* A frame is in hand when it counts as timely.
LEMMA ReceiveStep ==
    ASSUME JitterInv, NEW ts \in Stamps, Receive(ts)
    PROVE  JitterInv'
<1> USE DEF JitterInv
<1>1. /\ ~isEof /\ ~finished
      /\ ts \in Nat
      /\ next' = IF Started THEN next ELSE ts
      /\ buffer' = buffer \cup {ts}
      /\ timely' = IF Started /\ ts < next THEN timely ELSE timely \cup {ts}
      /\ UNCHANGED <<isEof, finished, out, spoilt, skipped>>
  BY JitterAssumption DEF Receive, FinishedInv
<1>2. Started' /\ next' \in Nat
  BY <1>1, JitterAssumption, SMT DEF Types, Started
<1>3. Slots("frame")' = Slots("frame") /\ Slots("concealed")' = Slots("concealed")
  BY <1>1 DEF Slots
<1>4. Types'
  BY <1>1, <1>2 DEF Types
<1>5. DOMAIN out = {} \/ Started
  BY SMT DEF Types
<1>6. PastIsPast'
  BY <1>1, <1>5 DEF PastIsPast
<1>7. Kept' /\ FinishedInv'
  BY <1>1, <1>3 DEF Kept, FinishedInv
<1>8. ts \in Slots("concealed") => Started /\ ts < next
  BY <1>1, <1>5 DEF Slots, PastIsPast
<1>9. TimelyNotConcealed'
  BY <1>1, <1>3, <1>8 DEF TimelyNotConcealed
<1> QED BY <1>4, <1>6, <1>7, <1>9

\* The steps that return no slot and receive no frame.
LEMMA QuietStep ==
    ASSUME JitterInv,
           YieldPcm \/ PlayFails \/ Finish \/ SkipGap \/ ConcealFails \/ Wait
           \/ ReceiveEof \/ Stall \/ UNCHANGED jvars
    PROVE  JitterInv'
<1> USE DEF JitterInv
<1>1. /\ out' = out /\ timely' = timely
      /\ spoilt \subseteq spoilt'
      /\ buffer' \subseteq buffer /\ buffer \subseteq buffer' \cup spoilt'
  BY DEF YieldPcm, PlayFails, Finish, SkipGap, ConcealFails, Wait, ReceiveEof, Stall,
     jvars
<1>2. next' \in Nat \cup {NoSlot} /\ (Started' <=> Started)
  <2>1. CASE SkipGap
    <3>1. next' \in Nat /\ Started
      BY <2>1 DEF SkipGap, Types
    <3> QED BY <3>1, JitterAssumption, SMT DEF Started
  <2>2. CASE ~SkipGap
    BY <2>2 DEF YieldPcm, PlayFails, Finish, ConcealFails, Wait, ReceiveEof, Stall,
       jvars, Types, Started
  <2> QED BY <2>1, <2>2
<1>3. Slots("frame")' = Slots("frame") /\ Slots("concealed")' = Slots("concealed")
  BY <1>1 DEF Slots
<1>4. Types'
  BY <1>1, <1>2 DEF Types
<1>5. PastIsPast'
  BY <1>1 DEF PastIsPast, YieldPcm, PlayFails, Finish, SkipGap, ConcealFails, Wait,
     ReceiveEof, Stall, jvars
<1>6. FinishedInv'
  BY DEF FinishedInv, Types, YieldPcm, PlayFails, Finish, SkipGap, ConcealFails, Wait,
     ReceiveEof, Stall, jvars
<1>7. Kept' /\ TimelyNotConcealed'
  BY <1>1, <1>3 DEF Kept, TimelyNotConcealed
<1> QED BY <1>4, <1>5, <1>6, <1>7

\* The invariant always holds.
LEMMA InvHolds == JitterSpec => []JitterInv
<1>1. JitterInv /\ [JitterNext]_jvars => JitterInv'
  BY PlayStep, ConcealStep, ReceiveStep, QuietStep DEF JitterNext, Manage
<1> QED BY InitInv, <1>1, PTL DEF JitterSpec

\* Whatever comes late, twice or out of order, no slot is concealed whose frame
\* was there in time and could be decoded.
THEOREM NeverConcealed == JitterSpec => []TimelyNotConcealed
<1>1. JitterInv => TimelyNotConcealed
  BY DEF JitterInv
<1> QED BY InvHolds, <1>1, PTL

\* When playout has come to its end every frame that came in time was played
\* or refused by the decoder.
THEOREM AllPlayed == JitterSpec => []TimelyPlayed
<1>1. JitterInv => TimelyPlayed
  BY DEF JitterInv, FinishedInv, Kept, TimelyPlayed
<1> QED BY InvHolds, <1>1, PTL

-----------------------------------------------------------------------------
(* Until the end of the stream playout keeps to its grid.                   *)

First == out[1].slot

\* The slot to play is the one after the last returned.
OnGrid ==
    ~skipped /\ out # << >> => First \in Nat /\ next = First + Len(out) * FrameMs

GridInv == SlotBySlot /\ OnGrid

\* A slot that is returned is the next one on the grid.
LEMMA GridReturn ==
    ASSUME NEW kind \in {"frame", "concealed"}, Types, Started, GridInv,
           out' = Append(out, [kind |-> kind, slot |-> next]),
           next' = next + FrameMs, UNCHANGED skipped
    PROVE  GridInv'
<1> DEFINE n == Len(out)
<1>1. /\ next \in Nat /\ n \in Nat /\ FrameMs \in Nat
      /\ DOMAIN out = 1 .. n
  BY JitterAssumption, SMT DEF Types, Started, OutType
<1>2. Len(out') = n + 1 /\ out' # << >>
  BY <1>1, SMT DEF Types, OutType
<1>3. SUFFICES ASSUME ~skipped PROVE GridInv'
  BY DEF GridInv, SlotBySlot, OnGrid
<1>4. CASE out = << >>
  <2>1. n = 0
    BY <1>4, SMT
  <2>2. First' = next
    BY <2>1, SlotsAppend DEF First
  <2>3. next' = First' + (n + 1) * FrameMs
    BY <1>1, <2>1, <2>2, SMT
  <2>4. \A i \in DOMAIN out' : i = 1
    BY <1>1, <2>1, SlotsAppend, SMT
  <2>5. First' = First' + (1 - 1) * FrameMs
    BY <1>1, <2>2, SMT
  <2>6. SlotBySlot'
    BY <2>4, <2>5 DEF SlotBySlot, First
  <2> QED BY <1>1, <1>2, <2>2, <2>3, <2>6 DEF GridInv, OnGrid
<1>5. CASE out # << >>
  <2>1. n # 0 /\ 1 \in DOMAIN out
    BY <1>1, <1>5, SMT DEF Types, OutType
  <2>2. First' = First /\ First \in Nat /\ next = First + n * FrameMs
    BY <1>3, <1>5, <2>1, SlotsAppend DEF First, GridInv, OnGrid
  <2>3. next' = First + (n + 1) * FrameMs
    BY <1>1, <2>2, SMT
  <2>4. ASSUME NEW i \in DOMAIN out'
        PROVE  out'[i].slot = First + (i - 1) * FrameMs
    <3>1. CASE i \in DOMAIN out
      BY <1>3, <3>1, SlotsAppend DEF GridInv, SlotBySlot, First
    <3>2. CASE i = n + 1
      <4>1. (n + 1) - 1 = n
        BY <1>1, SMT
      <4> QED BY <2>2, <3>2, <4>1, SlotsAppend
    <3> QED BY <3>1, <3>2, SlotsAppend
  <2>5. SlotBySlot'
    BY <2>2, <2>4 DEF SlotBySlot, First
  <2> QED BY <1>2, <2>2, <2>3, <2>5 DEF GridInv, OnGrid
<1> QED BY <1>4, <1>5

\* Every step keeps the slots on the grid until playout skips.
LEMMA GridStep ==
    ASSUME JitterInv, GridInv, [JitterNext]_jvars
    PROVE  GridInv'
<1> USE DEF GridInv, SlotBySlot, OnGrid, First
<1>1. CASE Play
  <2>1. Types /\ Started
    BY <1>1 DEF JitterInv, Play, InHand
  <2> QED BY <1>1, <2>1, GridReturn DEF Play, Return
<1>2. CASE Conceal
  <2>1. Types /\ Started
    BY <1>2 DEF JitterInv, Conceal
  <2> QED BY <1>2, <2>1, GridReturn DEF Conceal, Return
<1>3. ASSUME NEW ts \in Stamps, Receive(ts)
      PROVE  GridInv'
  <2>1. CASE Started
    BY <1>3, <2>1 DEF Receive
  <2>2. CASE ~Started
    <3>1. out' = << >>
      BY <1>3, <2>2 DEF Receive, JitterInv, Types
    <3>2. DOMAIN out' = {}
      BY <3>1, SMT
    <3> QED BY <3>1, <3>2
  <2> QED BY <2>1, <2>2
<1>4. CASE SkipGap
  BY <1>4 DEF SkipGap
<1>5. CASE YieldPcm \/ PlayFails \/ Finish \/ ConcealFails \/ Wait \/ ReceiveEof
           \/ Stall \/ UNCHANGED jvars
  BY <1>5 DEF YieldPcm, PlayFails, Finish, ConcealFails, Wait, ReceiveEof, Stall, jvars
<1> QED BY <1>1, <1>2, <1>3, <1>4, <1>5 DEF JitterNext, Manage

\* Until the end of the stream makes it skip, yield_pcm() returns one frame for
\* each slot, one after the other, whatever is lost, late, refused or stalled.
THEOREM SlotAfterSlot == JitterSpec => []SlotBySlot
<1>1. JitterInit => GridInv
  <2> SUFFICES ASSUME JitterInit PROVE GridInv
    OBVIOUS
  <2>1. out = << >> /\ DOMAIN out = {}
    BY SMT DEF JitterInit
  <2> QED BY <2>1 DEF GridInv, SlotBySlot, OnGrid
<1>2. JitterInv /\ GridInv /\ [JitterNext]_jvars => GridInv'
  BY GridStep
<1>3. GridInv => SlotBySlot
  BY DEF GridInv
<1> QED BY <1>1, <1>2, <1>3, InvHolds, PTL DEF JitterSpec
=============================================================================
