-------------------------- MODULE Reconnect_proofs --------------------------
(****************************************************************************)
(* Proofs about Reconnect, for every number of subscribers, retries and     *)
(* connections.                                                             *)
(****************************************************************************)
EXTENDS Reconnect, TLAPS

\* What the proofs need of the types.
Counters ==
    /\ pc \in {"idle", "head", "connecting", "sleeping", "stream", "gone"}
    /\ retries \in Nat
    /\ inARow \in Nat
    /\ generation \in Nat
    /\ established \in Nat
    /\ seen \in [Subscribers -> Nat]
    /\ looked \in [Subscribers -> Nat]
    /\ receivers \subseteq Subscribers

\* No subscriber has seen more than there is: without it a new generation
\* might be one that a subscriber takes for the one it saw.
SeenBehind ==
    \A s \in receivers : seen[s] <= generation /\ looked[s] <= established

\* The retries are the attempts that failed in a row, counted where the loop
\* stands, and a loop that runs has no connection.
LoopInv ==
    /\ pc \in {"head", "stream"} => inARow = 0
    /\ pc = "connecting" => inARow = retries /\ ~active
    /\ pc = "sleeping" => inARow = retries + 1 /\ ~active
    /\ pc = "sleeping" /\ MaxRetries # Forever => retries <= MaxRetries
    /\ result = "maxRetries" => pc \in {"idle", "gone"}

ReconnectInv == Counters /\ SeenBehind /\ SubscribersTold /\ LoopInv /\ RetriesExhausted

\* The invariant holds once connect() is called.
LEMMA InvInit == ReconnectInit => ReconnectInv
<1> SUFFICES ASSUME ReconnectInit PROVE ReconnectInv
  OBVIOUS
<1>1. Counters
  BY SMT DEF ReconnectInit, Counters
<1>2. SeenBehind /\ SubscribersTold
  BY DEF ReconnectInit, SeenBehind, SubscribersTold
<1>3. LoopInv /\ RetriesExhausted
  BY ReconnectAssumption, SMT DEF ReconnectInit, LoopInv, RetriesExhausted
<1> QED BY <1>1, <1>2, <1>3 DEF ReconnectInv

-----------------------------------------------------------------------------
(* The steps that leave the subscribers' part alone keep their part.        *)

LEMMA ToldFrame ==
    ASSUME SeenBehind, SubscribersTold, UNCHANGED <<generation, established, subVars>>
    PROVE  SeenBehind' /\ SubscribersTold'
  BY DEF SeenBehind, SubscribersTold, subVars

\* A connection that is established is announced to whoever has a receiver.
LEMMA ToldConnect ==
    ASSUME Counters, SeenBehind, SubscribersTold, ConnectOk
    PROVE  Counters' /\ SeenBehind' /\ SubscribersTold'
<1>1. /\ established' = established + 1
      /\ receivers' = receivers /\ seen' = seen /\ looked' = looked
      /\ retries' = retries /\ inARow' = 0
      /\ generation' = IF receivers = {} THEN generation ELSE generation + 1
  BY DEF ConnectOk, Announced, subVars
<1>2. pc' \in {"idle", "head", "connecting", "sleeping", "stream", "gone"}
  BY DEF ConnectOk, Finish, After
<1>3. Counters'
  BY <1>1, <1>2, SMT DEF Counters
<1>4. ASSUME NEW s \in receivers
      PROVE  /\ seen[s] \in Nat /\ looked[s] \in Nat
             /\ seen[s] <= generation /\ looked[s] <= established
             /\ generation' = generation + 1
  BY <1>1 DEF Counters, SeenBehind
<1>5. SeenBehind'
  BY <1>1, <1>4, SMT DEF SeenBehind, Counters
<1>6. SubscribersTold'
  BY <1>1, <1>4, SMT DEF SubscribersTold, Counters
<1> QED BY <1>3, <1>5, <1>6

\* Who looks has seen everything.
LEMMA ToldLook ==
    ASSUME Counters, SeenBehind, SubscribersTold, NEW s \in Subscribers, Look(s),
           UNCHANGED <<pc, retries, inARow, generation, established>>,
           receivers' \subseteq receivers \cup {s}
    PROVE  Counters' /\ SeenBehind' /\ SubscribersTold'
<1>1. /\ seen' = [seen EXCEPT ![s] = generation]
      /\ looked' = [looked EXCEPT ![s] = established]
  BY DEF Look
<1>2. Counters'
  BY <1>1 DEF Counters
<1>3. \A t \in receivers' : /\ seen'[t] = IF t = s THEN generation ELSE seen[t]
                            /\ looked'[t] = IF t = s THEN established ELSE looked[t]
                            /\ t = s \/ t \in receivers
  BY <1>1 DEF Counters
<1>4. SeenBehind'
  BY <1>3, SMT DEF SeenBehind, Counters
<1>5. SubscribersTold'
  BY <1>3 DEF SubscribersTold
<1> QED BY <1>2, <1>4, <1>5

-----------------------------------------------------------------------------
\* Every step keeps the subscribers' part of the invariant.
LEMMA ToldStep ==
    ASSUME Counters, SeenBehind, SubscribersTold, [ReconnectNext]_rcvars
    PROVE  Counters' /\ SeenBehind' /\ SubscribersTold'
<1>1. CASE UNCHANGED rcvars
  <2>1. UNCHANGED <<generation, established, subVars>>
    BY <1>1 DEF rcvars, subVars
  <2>2. Counters'
    BY <1>1 DEF rcvars, Counters
  <2> QED BY <2>1, <2>2, ToldFrame
<1>2. ASSUME NEW o \in {"open", "accept"}, Call(o)
      PROVE  Counters' /\ SeenBehind' /\ SubscribersTold'
  <2>1. UNCHANGED <<generation, established, subVars>>
    BY <1>2 DEF Call, connVars
  <2>2. Counters'
    BY <1>2, SMT DEF Call, connVars, subVars, Counters
  <2> QED BY <2>1, <2>2, ToldFrame
<1>3. CASE ConnectOk
  BY <1>3, ToldConnect
<1>4. CASE EnsureConnected \/ GiveUp \/ StreamOk \/ GivenUp
  <2>1. UNCHANGED <<generation, established, subVars>>
    BY <1>4 DEF EnsureConnected, GiveUp, StreamOk, GivenUp, connVars
  <2>2. Counters'
    BY <1>4, SMT DEF EnsureConnected, GiveUp, StreamOk, GivenUp, Finish, After,
       connVars, loopVars, subVars, Counters
  <2> QED BY <2>1, <2>2, ToldFrame
<1>5. CASE ConnectFails \/ Sleep \/ StreamFails \/ Break
  <2>1. UNCHANGED <<generation, established, subVars>>
    BY <1>5 DEF ConnectFails, Sleep, StreamFails, Break, connVars
  <2>2. Counters'
    BY <1>5, SMT DEF ConnectFails, Sleep, StreamFails, Break, connVars, loopVars,
       subVars, Counters
  <2> QED BY <2>1, <2>2, ToldFrame
<1>6. ASSUME NEW s \in Subscribers, Subscribe(s) \/ Notice(s)
      PROVE  Counters' /\ SeenBehind' /\ SubscribersTold'
  <2>1. /\ Look(s)
        /\ UNCHANGED <<pc, retries, inARow, generation, established>>
        /\ receivers' \subseteq receivers \cup {s}
    BY <1>6 DEF Subscribe, Notice, connVars, loopVars
  <2>2. receivers' \subseteq Subscribers
    BY <2>1 DEF Counters
  <2> QED BY <2>1, ToldLook
<1>7. ASSUME NEW s \in Subscribers, Unsubscribe(s)
      PROVE  Counters' /\ SeenBehind' /\ SubscribersTold'
  BY <1>7 DEF Unsubscribe, connVars, loopVars, Counters, SeenBehind, SubscribersTold
<1> QED BY <1>1, <1>2, <1>3, <1>4, <1>5, <1>6, <1>7 DEF ReconnectNext, OpStep

\* The loop counts what fails, and stops at the limit.
LEMMA LoopStep ==
    ASSUME Counters, LoopInv, RetriesExhausted, [ReconnectNext]_rcvars
    PROVE  LoopInv' /\ RetriesExhausted'
<1> USE DEF LoopInv, RetriesExhausted
<1>1. CASE UNCHANGED rcvars
  BY <1>1 DEF rcvars
<1>2. ASSUME NEW o \in {"open", "accept"}, Call(o)
      PROVE  LoopInv' /\ RetriesExhausted'
  BY <1>2, ReconnectAssumption, SMT DEF Call
<1>3. CASE EnsureConnected
  BY <1>3, ReconnectAssumption, SMT DEF EnsureConnected, connVars
<1>4. CASE GiveUp
  BY <1>4, ReconnectAssumption, SMT DEF GiveUp, OutOfRetries, Finish, After, connVars,
     loopVars, Counters
<1>5. CASE ConnectOk
  BY <1>5, ReconnectAssumption, SMT DEF ConnectOk, Finish, After
<1>6. CASE ConnectFails
  BY <1>6, ReconnectAssumption, SMT DEF ConnectFails, OutOfRetries, connVars, Counters
<1>7. CASE Sleep
  BY <1>7, ReconnectAssumption, SMT DEF Sleep, connVars, Counters
<1>8. CASE StreamOk \/ GivenUp
  BY <1>8 DEF StreamOk, GivenUp, Finish, After, connVars, loopVars
<1>9. CASE StreamFails \/ Break
  BY <1>9 DEF StreamFails, Break, loopVars
<1>10. ASSUME NEW s \in Subscribers, Subscribe(s) \/ Notice(s) \/ Unsubscribe(s)
       PROVE  LoopInv' /\ RetriesExhausted'
  BY <1>10 DEF Subscribe, Notice, Unsubscribe, connVars, loopVars
<1> QED BY <1>1, <1>2, <1>3, <1>4, <1>5, <1>6, <1>7, <1>8, <1>9, <1>10
        DEF ReconnectNext, OpStep

\* The invariant always holds.
LEMMA InvHolds == ReconnectSpec => []ReconnectInv
<1>1. ReconnectInv /\ [ReconnectNext]_rcvars => ReconnectInv'
  BY ToldStep, LoopStep DEF ReconnectInv
<1> QED BY InvInit, <1>1, PTL DEF ReconnectSpec

\* However attempts fail, connections break and operations are given up, an
\* operation fails after max_retries retries exactly.
THEOREM RetriesCorrect == ReconnectSpec => []RetriesExhausted
<1>1. ReconnectInv => RetriesExhausted
  BY DEF ReconnectInv
<1> QED BY InvHolds, <1>1, PTL

\* Whenever it subscribes, looks or leaves, a subscriber finds a change exactly
\* when a connection was established since it last looked.
THEOREM SubscribersCorrect == ReconnectSpec => []SubscribersTold
<1>1. ReconnectInv => SubscribersTold
  BY DEF ReconnectInv
<1> QED BY InvHolds, <1>1, PTL
=============================================================================
