-------------------------- MODULE ReliableTransfer --------------------------
(****************************************************************************)
(* What one transfer promises the two applications: the chunks the sender   *)
(* hands in come out of the reliable sink in order, once each, and end()    *)
(* reports success only when all of them have come out.                     *)
(****************************************************************************)
EXTENDS Integers, Sequences

CONSTANTS First,   \* sequence number of the first chunk
          Count    \* chunks the application sends

VARIABLES taken,     \* chunks accepted by send()
          received,  \* sequence numbers the reliable sink returned, in order
          ended,     \* end() was called
          confirmed  \* end() returned Ok

avars == <<taken, received, ended, confirmed>>

Chunks(from, to) == [i \in 1 .. (to - from) |-> First + from + i - 1]

AInit ==
    /\ taken = 0
    /\ received = << >>
    /\ ended = FALSE
    /\ confirmed = FALSE

Accept ==
    /\ ~ended
    /\ taken < Count
    /\ taken' = taken + 1
    /\ UNCHANGED <<received, ended, confirmed>>

Surface ==
    /\ \E to \in (Len(received) + 1) .. taken :
         received' = received \o Chunks(Len(received), to)
    /\ UNCHANGED <<taken, ended, confirmed>>

Finish ==
    /\ ~ended
    /\ taken = Count
    /\ ended' = TRUE
    /\ UNCHANGED <<taken, received, confirmed>>

Confirm ==
    /\ ended
    /\ ~confirmed
    /\ Len(received) = Count
    /\ confirmed' = TRUE
    /\ UNCHANGED <<taken, received, ended>>

ANext == Accept \/ Surface \/ Finish \/ Confirm

ASpec == AInit /\ [][ANext]_avars
=============================================================================
