----------------------- MODULE DatagramRouter_proofs -----------------------
(****************************************************************************)
(* Proofs about DatagramRouter, for any streams, shards, workers and        *)
(* limits: where a datagram can be, and what register() can leave behind.   *)
(****************************************************************************)
EXTENDS DatagramRouter, SequenceTheorems, TLAPS

-----------------------------------------------------------------------------
(* The elements of a queue, and queues without repetition.                  *)

LEMMA EmptyQueue == ToSet(<< >>) = {} /\ IsInjective(<< >>)
  BY DEF ToSet, IsInjective

LEMMA AppendElements ==
    ASSUME NEW S, NEW q \in Seq(S), NEW x \in S
    PROVE  /\ ToSet(Append(q, x)) = ToSet(q) \cup {x}
           /\ IsInjective(q) /\ x \notin ToSet(q) => IsInjective(Append(q, x))
<1> DEFINE r == Append(q, x)
           n == Len(q)
<1>1. /\ DOMAIN r = 1 .. (n + 1) /\ DOMAIN q = 1 .. n /\ n \in Nat
      /\ r[n + 1] = x /\ \A i \in 1 .. n : r[i] = q[i]
  OBVIOUS
<1> HIDE DEF r, n
<1>2. \A i \in DOMAIN r : i \in DOMAIN q \/ i = n + 1
  BY <1>1
<1>3. n + 1 \in DOMAIN r /\ n + 1 \notin DOMAIN q /\ DOMAIN q \subseteq DOMAIN r
  BY <1>1
<1>4. ToSet(r) = ToSet(q) \cup {x}
  BY <1>1, <1>2, <1>3 DEF ToSet
<1>5. ASSUME IsInjective(q), x \notin ToSet(q)
      PROVE  IsInjective(r)
  <2> SUFFICES ASSUME NEW i \in DOMAIN r, NEW j \in DOMAIN r, r[i] = r[j]
               PROVE  i = j
    BY DEF IsInjective
  <2>1. \A k \in DOMAIN q : r[k] = q[k] /\ q[k] # x
    BY <1>1, <1>5 DEF ToSet
  <2> QED BY <1>1, <1>2, <1>5, <2>1 DEF IsInjective
<1> QED BY <1>4, <1>5 DEF r

LEMMA TailElements ==
    ASSUME NEW S, NEW q \in Seq(S), q # << >>, IsInjective(q)
    PROVE  /\ Head(q) \in S
           /\ Head(q) \in ToSet(q)
           /\ ToSet(Tail(q)) = ToSet(q) \ {Head(q)}
           /\ IsInjective(Tail(q))
<1> DEFINE r == Tail(q)
           n == Len(r)
<1>1. /\ DOMAIN r = 1 .. n /\ DOMAIN q = 1 .. (n + 1) /\ n \in Nat
      /\ q[1] = Head(q) /\ Head(q) \in S /\ \A i \in 1 .. n : r[i] = q[i + 1]
  OBVIOUS
<1> HIDE DEF r, n
<1>2. 1 \in DOMAIN q /\ \A i \in DOMAIN r : i + 1 \in DOMAIN q /\ i + 1 # 1
  BY <1>1
<1>3. \A j \in DOMAIN q : j = 1 \/ (j - 1 \in DOMAIN r /\ r[j - 1] = q[j])
  BY <1>1
<1>4. ToSet(r) \subseteq ToSet(q) \ {Head(q)}
  BY <1>1, <1>2 DEF ToSet, IsInjective
<1>5. ToSet(q) \ {Head(q)} \subseteq ToSet(r)
  BY <1>1, <1>3 DEF ToSet
<1>6. IsInjective(r)
  <2> SUFFICES ASSUME NEW i \in DOMAIN r, NEW j \in DOMAIN r, r[i] = r[j]
               PROVE  i = j
    BY DEF IsInjective
  <2>1. i + 1 = j + 1
    BY <1>1, <1>2 DEF IsInjective
  <2> QED BY <1>1, <2>1
<1> QED BY <1>1, <1>2, <1>4, <1>5, <1>6 DEF r, ToSet

LEMMA SplitElements ==
    ASSUME NEW S, NEW q \in Seq(S), IsInjective(q), NEW n \in 0 .. Len(q)
    PROVE  LET f == SubSeq(q, 1, n)
               b == SubSeq(q, n + 1, Len(q))
           IN  /\ ToSet(f) \subseteq ToSet(q)
               /\ ToSet(b) = ToSet(q) \ ToSet(f)
               /\ IsInjective(b)
               /\ b \in Seq(S)
               /\ Len(b) <= Len(q)
<1> DEFINE f == SubSeq(q, 1, n)
           b == SubSeq(q, n + 1, Len(q))
           l == Len(q)
<1>1. /\ DOMAIN f = 1 .. n /\ DOMAIN b = 1 .. (l - n) /\ DOMAIN q = 1 .. l
      /\ l \in Nat /\ n <= l
      /\ \A i \in 1 .. n : f[i] = q[i]
      /\ \A i \in 1 .. (l - n) : b[i] = q[n + i]
      /\ b \in Seq(S) /\ Len(b) <= l
  OBVIOUS
<1> HIDE DEF f, b, l
<1>2. ToSet(f) \subseteq ToSet(q)
  <2>1. \A i \in DOMAIN f : i \in DOMAIN q
    BY <1>1
  <2> QED BY <1>1, <2>1 DEF ToSet
<1>3. ToSet(b) = ToSet(q) \ ToSet(f)
  <2>1. \A i \in DOMAIN b : n + i \in DOMAIN q /\ n + i \notin DOMAIN f
    BY <1>1
  <2>2. \A i \in DOMAIN f : i \in DOMAIN q
    BY <1>1
  <2>3. ToSet(b) \subseteq ToSet(q) \ ToSet(f)
    BY <1>1, <2>1, <2>2 DEF ToSet, IsInjective
  <2>4. \A j \in DOMAIN q : j \in DOMAIN f \/ (j - n \in DOMAIN b /\ b[j - n] = q[j])
    BY <1>1
  <2>5. ToSet(q) \ ToSet(f) \subseteq ToSet(b)
    BY <1>1, <2>4 DEF ToSet
  <2> QED BY <2>3, <2>5
<1>4. IsInjective(b)
  <2> SUFFICES ASSUME NEW i \in DOMAIN b, NEW j \in DOMAIN b, b[i] = b[j]
               PROVE  i = j
    BY DEF IsInjective
  <2>1. n + i \in DOMAIN q /\ n + j \in DOMAIN q /\ q[n + i] = q[n + j]
    BY <1>1
  <2>2. n + i = n + j
    BY <2>1 DEF IsInjective
  <2> QED BY <1>1, <2>2
<1> QED BY <1>1, <1>2, <1>3, <1>4 DEF f, b, l

LEMMA JoinElements ==
    ASSUME NEW S, NEW p \in Seq(S), NEW q \in Seq(S)
    PROVE  /\ p \o q \in Seq(S)
           /\ ToSet(p \o q) = ToSet(p) \cup ToSet(q)
           /\ IsInjective(p) /\ IsInjective(q) /\ ToSet(p) \cap ToSet(q) = {}
                => IsInjective(p \o q)
<1> DEFINE r == p \o q
           m == Len(p)
           n == Len(q)
<1>1. /\ DOMAIN r = 1 .. (m + n) /\ DOMAIN p = 1 .. m /\ DOMAIN q = 1 .. n
      /\ m \in Nat /\ n \in Nat /\ r \in Seq(S)
      /\ \A i \in 1 .. m : r[i] = p[i]
      /\ \A i \in 1 .. n : r[m + i] = q[i]
  OBVIOUS
<1> HIDE DEF r, m, n
<1>2. \A i \in DOMAIN r : i \in DOMAIN p \/ i - m \in DOMAIN q
  BY <1>1
<1>3. \A i \in DOMAIN r : /\ i \in DOMAIN p => r[i] = p[i]
                          /\ i - m \in DOMAIN q => r[i] = q[i - m]
  BY <1>1
<1>4. ToSet(r) \subseteq ToSet(p) \cup ToSet(q)
  BY <1>2, <1>3 DEF ToSet
<1>5. /\ \A i \in DOMAIN p : i \in DOMAIN r /\ r[i] = p[i]
      /\ \A i \in DOMAIN q : m + i \in DOMAIN r /\ r[m + i] = q[i]
  BY <1>1
<1>6. ToSet(p) \cup ToSet(q) \subseteq ToSet(r)
  BY <1>5 DEF ToSet
<1>7. ASSUME IsInjective(p), IsInjective(q), ToSet(p) \cap ToSet(q) = {}
      PROVE  IsInjective(r)
  <2> SUFFICES ASSUME NEW i \in DOMAIN r, NEW j \in DOMAIN r, r[i] = r[j]
               PROVE  i = j
    BY DEF IsInjective
  <2>1. \A a \in DOMAIN p, b \in DOMAIN q : p[a] # q[b]
    BY <1>7 DEF ToSet
  <2>2. CASE i \in DOMAIN p /\ j \in DOMAIN p
    BY <1>3, <1>7, <2>2 DEF IsInjective
  <2>3. CASE i - m \in DOMAIN q /\ j - m \in DOMAIN q
    <3>1. i - m = j - m
      BY <1>3, <1>7, <2>3 DEF IsInjective
    <3> QED BY <1>1, <3>1
  <2> QED BY <1>2, <1>3, <2>1, <2>2, <2>3
<1> QED BY <1>1, <1>4, <1>6, <1>7 DEF r
-----------------------------------------------------------------------------
(* Type correctness                                                         *)

Numbers == 1 .. MaxPackets

\* The same, a variable at a time.
RouterTypes ==
    /\ senders \subseteq Streams
    /\ pending \in [Streams -> Seq(Numbers)]
    /\ chan \in [Streams -> Seq(Numbers)]
    /\ flush \in [Streams -> Seq(Numbers)]
    /\ got \in [Streams -> Seq(Numbers)]
    /\ \A s \in Streams : /\ Len(pending[s]) <= MaxPending
                          /\ Len(chan[s]) <= ChannelSize
    /\ ready \in [Streams -> 0 .. MaxPackets]
    /\ alive \subseteq Streams
    /\ pc \in {"idle", "sending", "buffering", "removing"}
    /\ at \in Streams
    /\ reg \in [Streams -> {"no", "entered", "inserted", "done"}]
    /\ arrived \in [Streams -> 0 .. MaxPackets]
    /\ expired \in [Streams -> SUBSET Numbers]
    /\ refused \in [Streams -> SUBSET Numbers]
    /\ lost \in [Streams -> SUBSET Numbers]
    \* The packet in the router's hands has arrived.
    /\ pc \in {"sending", "buffering"} => arrived[at] \in Numbers

LEMMA RouterTypesSame == RouterTypes => RouterTypeOK
  BY DEF RouterTypes, RouterTypeOK, Numbers

LEMMA RouterInitTypes == RouterInit => RouterTypes
<1> SUFFICES ASSUME RouterInit PROVE RouterTypes
  OBVIOUS
<1>1. << >> \in Seq(Numbers) /\ Len(<< >>) = 0 /\ 0 \in 0 .. MaxPackets
      /\ 0 <= MaxPending /\ 0 <= ChannelSize
  BY RouterAssumption
<1>2. \A s \in Streams : pending[s] = << >> /\ chan[s] = << >>
  BY DEF RouterInit
<1> QED BY <1>1, <1>2 DEF RouterInit, RouterTypes

LEMMA QueueTypes ==
    ASSUME NEW S, NEW q \in Seq(S), q # << >>
    PROVE  /\ Head(q) \in S /\ Tail(q) \in Seq(S)
           /\ Len(Tail(q)) <= Len(q)
           /\ ToSet(q) \subseteq S
  BY DEF ToSet

LEMMA QueueSet ==
    ASSUME NEW S, NEW q \in Seq(S)
    PROVE  ToSet(q) \subseteq S
  BY DEF ToSet

LEMMA AppendTypes ==
    ASSUME NEW S, NEW q \in Seq(S), NEW x \in S, NEW m \in Nat, Len(q) < m
    PROVE  Append(q, x) \in Seq(S) /\ Len(Append(q, x)) <= m
  OBVIOUS

LEMMA CleanupTypes ==
    ASSUME NEW S, NEW q \in Seq(S), NEW n \in Nat, n <= Len(q)
    PROVE  /\ SubSeq(q, n + 1, Len(q)) \in Seq(S)
           /\ Len(SubSeq(q, n + 1, Len(q))) <= Len(q)
           /\ ToSet(SubSeq(q, 1, n)) \subseteq S
<1>1. SubSeq(q, 1, n) \in Seq(S)
  OBVIOUS
<1>2. ToSet(SubSeq(q, 1, n)) \subseteq S
  BY <1>1, QueueSet
<1>3. /\ SubSeq(q, n + 1, Len(q)) \in Seq(S)
      /\ Len(SubSeq(q, n + 1, Len(q))) <= Len(q)
  OBVIOUS
<1> QED BY <1>2, <1>3

\* One queue of the channel or pending kind is replaced.
LEMMA Replaced ==
    ASSUME NEW f \in [Streams -> Seq(Numbers)], NEW s \in Streams,
           NEW q \in Seq(Numbers), NEW m \in Nat, Len(q) <= m,
           \A t \in Streams : Len(f[t]) <= m
    PROVE  /\ [f EXCEPT ![s] = q] \in [Streams -> Seq(Numbers)]
           /\ \A t \in Streams : Len([f EXCEPT ![s] = q][t]) <= m
<1>1. [f EXCEPT ![s] = q] \in [Streams -> Seq(Numbers)]
  OBVIOUS
<1>2. \A t \in Streams : [f EXCEPT ![s] = q][t] = IF t = s THEN q ELSE f[t]
  OBVIOUS
<1> QED BY <1>1, <1>2

LEMMA RouterStepTypes ==
    ASSUME RouterTypes, [RouterNext]_rvars
    PROVE  RouterTypes'
<1> USE DEF RouterTypes
<1>0. ChannelSize \in Nat /\ MaxPending \in Nat /\ MaxPackets \in Nat
  BY RouterAssumption
<1>1. CASE UNCHANGED rvars
  BY <1>1 DEF rvars
<1>2. ASSUME NEW s \in Streams, Receive(s) PROVE RouterTypes'
  <2>1. arrived[s] + 1 \in Numbers /\ arrived[s] + 1 \in 0 .. MaxPackets
    BY <1>0, <1>2 DEF Receive, Numbers
  <2>2. arrived' \in [Streams -> 0 .. MaxPackets] /\ arrived'[s] \in Numbers
    BY <1>2, <2>1 DEF Receive
  <2> QED BY <1>2, <2>2 DEF Receive
<1>3. CASE Forward
  <2>1. arrived[at] \in Numbers /\ Len(chan[at]) < ChannelSize
    BY <1>3 DEF Forward
  <2>2. Append(chan[at], arrived[at]) \in Seq(Numbers)
        /\ Len(Append(chan[at], arrived[at])) <= ChannelSize
    BY <1>0, <2>1, AppendTypes
  <2>3. /\ chan' \in [Streams -> Seq(Numbers)]
        /\ \A t \in Streams : Len(chan'[t]) <= ChannelSize
    BY <1>0, <1>3, <2>2, Replaced DEF Forward, Packet
  <2> QED BY <1>3, <2>3 DEF Forward
<1>4. CASE ForwardFails
  <2>1. lost' \in [Streams -> SUBSET Numbers]
    BY <1>4 DEF ForwardFails, Packet
  <2> QED BY <1>4, <2>1 DEF ForwardFails
<1>5. CASE RemoveSender
  BY <1>5 DEF RemoveSender
<1>6. CASE Buffer
  <2>1. arrived[at] \in Numbers
    BY <1>6 DEF Buffer
  <2>2. CASE Len(pending[at]) < MaxPending
    <3>1. Append(pending[at], arrived[at]) \in Seq(Numbers)
          /\ Len(Append(pending[at], arrived[at])) <= MaxPending
      BY <1>0, <2>1, <2>2, AppendTypes
    <3>2. /\ pending' \in [Streams -> Seq(Numbers)]
          /\ \A t \in Streams : Len(pending'[t]) <= MaxPending
      <4>1. pending' = [pending EXCEPT ![at] = Append(pending[at], arrived[at])]
        BY <1>6, <2>2 DEF Buffer, Packet
      <4> QED BY <1>0, <3>1, <4>1, Replaced
    <3> QED BY <1>6, <2>2, <3>2 DEF Buffer
  <2>3. CASE ~(Len(pending[at]) < MaxPending)
    <3>1. refused' \in [Streams -> SUBSET Numbers] /\ UNCHANGED pending
      <4>1. /\ refused' = [refused EXCEPT ![at] = refused[at] \cup {arrived[at]}]
            /\ UNCHANGED pending
        BY <1>6, <2>3 DEF Buffer, Packet
      <4>2. refused[at] \cup {arrived[at]} \in SUBSET Numbers
        BY <2>1
      <4> QED BY <4>1, <4>2
    <3> QED BY <1>6, <3>1 DEF Buffer
  <2> QED BY <2>2, <2>3
<1>7. CASE Cleanup
  <2>1. PICK old \in [Streams -> 0 .. MaxPackets] :
          /\ \A s \in Streams : old[s] <= Len(pending[s])
          /\ pending' = [s \in Streams |->
                           SubSeq(pending[s], old[s] + 1, Len(pending[s]))]
          /\ expired' = [s \in Streams |->
                           expired[s] \cup ToSet(SubSeq(pending[s], 1, old[s]))]
    BY <1>7 DEF Cleanup
  <2>2. ASSUME NEW s \in Streams
        PROVE  /\ SubSeq(pending[s], old[s] + 1, Len(pending[s])) \in Seq(Numbers)
               /\ Len(SubSeq(pending[s], old[s] + 1, Len(pending[s]))) <= MaxPending
               /\ ToSet(SubSeq(pending[s], 1, old[s])) \subseteq Numbers
    <3>1. pending[s] \in Seq(Numbers) /\ old[s] \in Nat /\ old[s] <= Len(pending[s])
          /\ Len(pending[s]) <= MaxPending /\ Len(pending[s]) \in Nat
      BY <1>0, <2>1
    <3> DEFINE q == SubSeq(pending[s], old[s] + 1, Len(pending[s]))
    <3>2. q \in Seq(Numbers) /\ Len(q) <= Len(pending[s]) /\ Len(q) \in Nat
          /\ ToSet(SubSeq(pending[s], 1, old[s])) \subseteq Numbers
      <4>1. q \in Seq(Numbers) /\ Len(q) <= Len(pending[s])
            /\ ToSet(SubSeq(pending[s], 1, old[s])) \subseteq Numbers
        BY <3>1, CleanupTypes
      <4> HIDE DEF q
      <4> QED BY <4>1
    <3> HIDE DEF q
    <3>3. Len(q) <= MaxPending
      BY <1>0, <3>1, <3>2
    <3> QED BY <3>2, <3>3 DEF q
  <2>3. /\ pending' \in [Streams -> Seq(Numbers)]
        /\ \A s \in Streams : Len(pending'[s]) <= MaxPending
        /\ expired' \in [Streams -> SUBSET Numbers]
    <3>1. \A s \in Streams :
             pending'[s] = SubSeq(pending[s], old[s] + 1, Len(pending[s]))
      BY <2>1
    <3>2. pending' \in [Streams -> Seq(Numbers)]
      BY <2>1, <2>2
    <3>3. expired' \in [Streams -> SUBSET Numbers]
      BY <2>1, <2>2
    <3> QED BY <2>2, <3>1, <3>2, <3>3
  <2> QED BY <1>7, <2>3 DEF Cleanup
<1>8. ASSUME NEW s \in Streams, Register(s) PROVE RouterTypes'
  BY <1>8 DEF Register
<1>9. ASSUME NEW s \in Streams, InsertSender(s) PROVE RouterTypes'
  BY <1>9 DEF InsertSender
<1>10. ASSUME NEW s \in Streams, TakePending(s) PROVE RouterTypes'
  <2>1. << >> \in Seq(Numbers) /\ Len(<< >>) <= MaxPending
    BY <1>0
  <2>2. /\ pending' \in [Streams -> Seq(Numbers)]
        /\ \A t \in Streams : Len(pending'[t]) <= MaxPending
    BY <1>0, <1>10, <2>1, Replaced DEF TakePending
  <2> QED BY <1>10, <2>2 DEF TakePending
<1>11. ASSUME NEW s \in Streams, Flush(s) PROVE RouterTypes'
  <2>1. Head(flush[s]) \in Numbers /\ Tail(flush[s]) \in Seq(Numbers)
    BY <1>11, QueueTypes DEF Flush
  <2>2. Append(chan[s], Head(flush[s])) \in Seq(Numbers)
        /\ Len(Append(chan[s], Head(flush[s]))) <= ChannelSize
    BY <1>0, <1>11, <2>1, AppendTypes DEF Flush
  <2>3. /\ chan' \in [Streams -> Seq(Numbers)]
        /\ \A t \in Streams : Len(chan'[t]) <= ChannelSize
    <3>1. chan' = [chan EXCEPT ![s] = Append(chan[s], Head(flush[s]))]
      BY <1>11 DEF Flush
    <3> QED BY <1>0, <2>2, <3>1, Replaced
  <2>4. flush' \in [Streams -> Seq(Numbers)]
    BY <1>11, <2>1 DEF Flush
  <2> QED BY <1>11, <2>3, <2>4 DEF Flush
<1>12. ASSUME NEW s \in Streams, FlushFails(s) PROVE RouterTypes'
  <2>1. << >> \in Seq(Numbers) /\ ToSet(flush[s]) \subseteq Numbers
    BY QueueSet
  <2>2. flush' \in [Streams -> Seq(Numbers)] /\ lost' \in [Streams -> SUBSET Numbers]
    BY <1>12, <2>1 DEF FlushFails
  <2> QED BY <1>12, <2>2 DEF FlushFails
<1>13. ASSUME NEW s \in Streams, Take(s) PROVE RouterTypes'
  <2>1. /\ Head(chan[s]) \in Numbers /\ Tail(chan[s]) \in Seq(Numbers)
        /\ Len(Tail(chan[s])) <= ChannelSize
    <3>1. /\ Head(chan[s]) \in Numbers /\ Tail(chan[s]) \in Seq(Numbers)
          /\ Len(Tail(chan[s])) <= Len(chan[s])
      BY <1>13, QueueTypes DEF Take
    <3>2. Len(chan[s]) <= ChannelSize /\ Len(chan[s]) \in Nat
      OBVIOUS
    <3> QED BY <1>0, <3>1, <3>2
  <2>2. Append(got[s], Head(chan[s])) \in Seq(Numbers)
    BY <2>1
  <2>3. /\ chan' \in [Streams -> Seq(Numbers)]
        /\ \A t \in Streams : Len(chan'[t]) <= ChannelSize
    BY <1>0, <1>13, <2>1, Replaced DEF Take
  <2>4. got' \in [Streams -> Seq(Numbers)]
    BY <1>13, <2>2 DEF Take
  <2> QED BY <1>13, <2>3, <2>4 DEF Take
<1>14. ASSUME NEW s \in Streams, Die(s) PROVE RouterTypes'
  <2>1. << >> \in Seq(Numbers) /\ Len(<< >>) <= ChannelSize
        /\ ToSet(chan[s]) \subseteq Numbers
    BY <1>0, QueueSet
  <2>2. /\ chan' \in [Streams -> Seq(Numbers)]
        /\ \A t \in Streams : Len(chan'[t]) <= ChannelSize
    BY <1>0, <1>14, <2>1, Replaced DEF Die
  <2>3. lost' \in [Streams -> SUBSET Numbers]
    BY <1>14, <2>1 DEF Die
  <2> QED BY <1>14, <2>2, <2>3 DEF Die
<1> QED BY <1>1, <1>2, <1>3, <1>4, <1>5, <1>6, <1>7, <1>8, <1>9, <1>10, <1>11,
        <1>12, <1>13, <1>14 DEF RouterNext, RouterStep, StreamStep

\* Every variable keeps its type, and no queue outgrows its limit: a list of
\* pending packets never holds more than MaxPending, a channel never more
\* than ChannelSize.
THEOREM RouterTypeCorrect == RouterSpec => []RouterTypeOK
  BY RouterInitTypes, RouterStepTypes, RouterTypesSame, PTL DEF RouterSpec
-----------------------------------------------------------------------------
(* Where a datagram can be                                                  *)

Places == {"pending", "chan", "flush", "got", "hand", "expired", "refused",
           "lost"}

\* The packets of a stream by where they are.
InPlace(s) == [pending |-> ToSet(pending[s]), chan |-> ToSet(chan[s]),
               flush |-> ToSet(flush[s]), got |-> ToSet(got[s]),
               hand |-> InHand(s), expired |-> expired[s],
               refused |-> refused[s], lost |-> lost[s]]

Apart(P) == \A i, j \in Places : i # j => P[i] \cap P[j] = {}

Everything(P) == UNION {P[i] : i \in Places}

NoRepeats(s) ==
    /\ IsInjective(pending[s])
    /\ IsInjective(chan[s])
    /\ IsInjective(flush[s])
    /\ IsInjective(got[s])

\* The inductive form of EachOnce: no queue repeats a packet, no two places
\* share one, and together they hold all that arrived.
PlacesInv ==
    \A s \in Streams :
        /\ NoRepeats(s)
        /\ Apart(InPlace(s))
        /\ Everything(InPlace(s)) = 1 .. arrived[s]
        /\ reg[s] # "done" => flush[s] = << >>

\* The inductive form of AtMostOneStranded: a registered stream whose channel
\* lives has a sender, which only a dead channel's failed send removes.
SendersInv ==
    /\ pc = "removing" => at \notin alive
    /\ \A s \in Streams \cap alive :
         reg[s] \in {"inserted", "done"} => s \in senders
    /\ AtMostOneStranded

LEMMA InPlaceIs ==
    ASSUME NEW s \in Streams
    PROVE  /\ InPlace(s)["pending"] = ToSet(pending[s])
           /\ InPlace(s)["chan"] = ToSet(chan[s])
           /\ InPlace(s)["flush"] = ToSet(flush[s])
           /\ InPlace(s)["got"] = ToSet(got[s])
           /\ InPlace(s)["hand"] = InHand(s)
           /\ InPlace(s)["expired"] = expired[s]
           /\ InPlace(s)["refused"] = refused[s]
           /\ InPlace(s)["lost"] = lost[s]
  BY DEF InPlace

LEMMA InPlaceNext ==
    ASSUME NEW s \in Streams
    PROVE  /\ InPlace(s)'["pending"] = ToSet(pending'[s])
           /\ InPlace(s)'["chan"] = ToSet(chan'[s])
           /\ InPlace(s)'["flush"] = ToSet(flush'[s])
           /\ InPlace(s)'["got"] = ToSet(got'[s])
           /\ InPlace(s)'["hand"] = InHand(s)'
           /\ InPlace(s)'["expired"] = expired'[s]
           /\ InPlace(s)'["refused"] = refused'[s]
           /\ InPlace(s)'["lost"] = lost'[s]
  BY DEF InPlace

\* What PlacesInv says of one stream.
PlacesOf(s) ==
    /\ NoRepeats(s)
    /\ Apart(InPlace(s))
    /\ Everything(InPlace(s)) = 1 .. arrived[s]
    /\ reg[s] # "done" => flush[s] = << >>

\* A stream no step touches.
LEMMA PlacesSame ==
    ASSUME NEW s \in Streams, PlacesOf(s),
           pending'[s] = pending[s], chan'[s] = chan[s], flush'[s] = flush[s],
           got'[s] = got[s], expired'[s] = expired[s],
           refused'[s] = refused[s], lost'[s] = lost[s],
           arrived'[s] = arrived[s], InHand(s)' = InHand(s),
           reg[s] = "done" => reg'[s] = "done"
    PROVE  PlacesOf(s)'
<1>1. InPlace(s)' = InPlace(s)
  BY DEF InPlace
<1>2. NoRepeats(s)'
  BY DEF PlacesOf, NoRepeats
<1> QED BY <1>1, <1>2 DEF PlacesOf

\* A step that moves packets of the stream s from one place to another.
LEMMA PlacesMove ==
    ASSUME NEW s \in Streams, PlacesOf(s),
           NEW i \in Places, NEW j \in Places, i # j, NEW X,
           X \subseteq InPlace(s)[i],
           InPlace(s)'[i] = InPlace(s)[i] \ X,
           InPlace(s)'[j] = InPlace(s)[j] \cup X,
           \A p \in Places : p \notin {i, j} => InPlace(s)'[p] = InPlace(s)[p],
           arrived'[s] = arrived[s],
           NoRepeats(s)',
           reg'[s] # "done" => flush'[s] = << >>
    PROVE  PlacesOf(s)'
<1> DEFINE P == InPlace(s)
           Q == InPlace(s)'
<1>1. Apart(P) /\ Everything(P) = 1 .. arrived[s]
  BY DEF PlacesOf
<1>2. /\ X \subseteq P[i]
      /\ Q[i] = P[i] \ X
      /\ Q[j] = P[j] \cup X
      /\ \A p \in Places : p \notin {i, j} => Q[p] = P[p]
  OBVIOUS
<1>3. Apart(Q) /\ Everything(Q) = Everything(P)
  <2> HIDE DEF P, Q
  <2>1. ASSUME NEW p \in Places, NEW q \in Places, p # q, NEW x \in Q[p], x \in Q[q]
        PROVE  FALSE
    <3>1. \A r \in Places : x \in P[r] => \A t \in Places : x \in P[t] => t = r
      BY <1>1 DEF Apart
    <3> QED BY <1>2, <2>1, <3>1
  <2>2. Apart(Q)
    BY <2>1 DEF Apart
  <2>3. \A x : (\E p \in Places : x \in Q[p]) <=> (\E p \in Places : x \in P[p])
    BY <1>2
  <2> QED BY <2>2, <2>3 DEF Everything
<1> QED BY <1>1, <1>3 DEF PlacesOf

\* The step that brings a packet of the stream s.
LEMMA PlacesAdd ==
    ASSUME NEW s \in Streams, PlacesOf(s), arrived[s] \in Nat,
           InPlace(s)'["hand"] = {arrived[s] + 1},
           InPlace(s)["hand"] = {},
           \A p \in Places : p # "hand" => InPlace(s)'[p] = InPlace(s)[p],
           arrived'[s] = arrived[s] + 1,
           NoRepeats(s)',
           reg'[s] # "done" => flush'[s] = << >>
    PROVE  PlacesOf(s)'
<1> DEFINE P == InPlace(s)
           Q == InPlace(s)'
           n == arrived[s] + 1
<1>1. Apart(P) /\ Everything(P) = 1 .. arrived[s] /\ "hand" \in Places
  BY DEF PlacesOf, Places
<1>2. /\ Q["hand"] = {n} /\ P["hand"] = {}
      /\ \A p \in Places : p # "hand" => Q[p] = P[p]
  OBVIOUS
<1>3. n \notin 1 .. arrived[s] /\ 1 .. n = 1 .. arrived[s] \cup {n}
  OBVIOUS
<1>4. Apart(Q) /\ Everything(Q) = Everything(P) \cup {n}
  <2> HIDE DEF P, Q, n
  <2>1. \A p \in Places : n \notin P[p]
    BY <1>1, <1>3 DEF Everything
  <2>2. ASSUME NEW p \in Places, NEW q \in Places, p # q
        PROVE  Q[p] \cap Q[q] = {}
    BY <1>1, <1>2, <2>1, <2>2 DEF Apart
  <2>3. \A y : (\E p \in Places : y \in Q[p])
                 <=> ((\E p \in Places : y \in P[p]) \/ y = n)
    BY <1>1, <1>2
  <2>4. \A y : y \in Everything(Q) <=> y \in Everything(P) \/ y = n
    BY <2>3 DEF Everything
  <2>5. Apart(Q)
    BY <2>2 DEF Apart
  <2> QED BY <2>4, <2>5
<1> QED BY <1>1, <1>3, <1>4 DEF PlacesOf

LEMMA PlacesStep ==
    ASSUME RouterTypes, PlacesInv, [RouterNext]_rvars
    PROVE  PlacesInv'
<1> SUFFICES ASSUME NEW t \in Streams PROVE PlacesOf(t)'
  BY DEF PlacesInv, PlacesOf
<1>0. /\ \A s \in Streams : PlacesOf(s)
      /\ at \in Streams
      /\ \A s \in Streams : /\ pending[s] \in Seq(Numbers)
                            /\ chan[s] \in Seq(Numbers)
                            /\ flush[s] \in Seq(Numbers)
                            /\ got[s] \in Seq(Numbers)
                            /\ arrived[s] \in Nat
  BY RouterAssumption DEF PlacesInv, PlacesOf, RouterTypes
<1>a. /\ DOMAIN pending = Streams /\ DOMAIN chan = Streams
      /\ DOMAIN flush = Streams /\ DOMAIN got = Streams
      /\ DOMAIN expired = Streams /\ DOMAIN refused = Streams
      /\ DOMAIN lost = Streams /\ DOMAIN arrived = Streams
      /\ DOMAIN reg = Streams
  BY DEF RouterTypes
<1>b. /\ IsInjective(pending[t]) /\ IsInjective(chan[t])
      /\ IsInjective(flush[t]) /\ IsInjective(got[t])
      /\ Apart(InPlace(t))
      /\ reg[t] # "done" => flush[t] = << >>
  BY <1>0 DEF PlacesOf, NoRepeats
\* Different places, different packets.
<1>c. /\ ToSet(chan[t]) \cap InHand(t) = {}
      /\ ToSet(pending[t]) \cap InHand(t) = {}
      /\ ToSet(chan[t]) \cap ToSet(flush[t]) = {}
      /\ ToSet(got[t]) \cap ToSet(chan[t]) = {}
  BY <1>b, InPlaceIs DEF Apart, Places
<1>d. {"pending", "chan", "flush", "got", "hand", "expired", "refused", "lost"}
        = Places
  BY DEF Places
<1>1. CASE UNCHANGED rvars
  BY <1>0, <1>1, PlacesSame DEF rvars, InHand
<1>2. ASSUME NEW s \in Streams, Receive(s) PROVE PlacesOf(t)'
  <2>1. CASE s = t
    <3>1. /\ InHand(t) = {} /\ InHand(t)' = {arrived[t] + 1}
          /\ arrived'[t] = arrived[t] + 1
      BY <1>a, <1>2, <2>1 DEF Receive, InHand
    <3>2. NoRepeats(t)' /\ (reg'[t] # "done" => flush'[t] = << >>)
      BY <1>2, <1>b DEF Receive, NoRepeats
    <3>3. \A p \in Places : p # "hand" => InPlace(t)'[p] = InPlace(t)[p]
      BY <1>2, InPlaceIs, InPlaceNext DEF Receive, Places
    <3>4. InPlace(t)'["hand"] = {arrived[t] + 1} /\ InPlace(t)["hand"] = {}
      BY <3>1, InPlaceIs, InPlaceNext
    <3> QED BY <1>0, <3>1, <3>2, <3>3, <3>4, PlacesAdd
  <2>2. CASE s # t
    <3>1. InHand(t)' = InHand(t) /\ arrived'[t] = arrived[t]
      BY <1>a, <1>2, <2>2 DEF Receive, InHand
    <3> QED BY <1>0, <1>2, <3>1, PlacesSame DEF Receive
  <2> QED BY <2>1, <2>2
<1>3. CASE Forward
  <2>1. CASE at = t
    <3> DEFINE x == arrived[t]
    <3>1. /\ InHand(t) = {x} /\ InHand(t)' = {}
          /\ chan'[t] = Append(chan[t], x)
      BY <1>a, <1>3, <2>1 DEF Forward, InHand, Packet
    <3>2. x \in Numbers
      BY <1>3, <2>1 DEF Forward, RouterTypes
    <3>3. ToSet(chan'[t]) = ToSet(chan[t]) \cup {x} /\ IsInjective(chan'[t])
      BY <1>0, <1>b, <1>c, <3>1, <3>2, AppendElements
    <3>4. NoRepeats(t)' /\ (reg'[t] # "done" => flush'[t] = << >>)
      BY <1>3, <1>b, <3>3 DEF Forward, NoRepeats
    <3>5. /\ InPlace(t)["hand"] = {x} /\ InPlace(t)'["hand"] = {}
          /\ InPlace(t)'["chan"] = InPlace(t)["chan"] \cup {x}
          /\ \A p \in Places : p \notin {"hand", "chan"} =>
               InPlace(t)'[p] = InPlace(t)[p]
      BY <1>3, <3>1, <3>3, InPlaceIs, InPlaceNext DEF Forward, Places
    <3>6. arrived'[t] = arrived[t] /\ "hand" \in Places /\ "chan" \in Places
      BY <1>3, <1>d DEF Forward
    <3>7. {x} \subseteq InPlace(t)["hand"] /\ {} = {x} \ {x}
      BY <3>5
    <3> HIDE DEF x
    <3> QED BY <1>0, <3>4, <3>5, <3>6, <3>7, PlacesMove
  <2>2. CASE at # t
    <3>1. InHand(t)' = InHand(t) /\ chan'[t] = chan[t]
      BY <1>a, <1>3, <2>2 DEF Forward, InHand
    <3> QED BY <1>0, <1>3, <3>1, PlacesSame DEF Forward
  <2> QED BY <2>1, <2>2
<1>4. CASE ForwardFails
  <2>1. CASE at = t
    <3> DEFINE x == arrived[t]
    <3>1. /\ InHand(t) = {x} /\ InHand(t)' = {}
          /\ lost'[t] = lost[t] \cup {x}
      BY <1>a, <1>4, <2>1 DEF ForwardFails, InHand, Packet
    <3>4. NoRepeats(t)' /\ (reg'[t] # "done" => flush'[t] = << >>)
      BY <1>4, <1>b DEF ForwardFails, NoRepeats
    <3>5. /\ InPlace(t)["hand"] = {x} /\ InPlace(t)'["hand"] = {}
          /\ InPlace(t)'["lost"] = InPlace(t)["lost"] \cup {x}
          /\ \A p \in Places : p \notin {"hand", "lost"} =>
               InPlace(t)'[p] = InPlace(t)[p]
      BY <1>4, <3>1, InPlaceIs, InPlaceNext DEF ForwardFails, Places
    <3>6. arrived'[t] = arrived[t] /\ "hand" \in Places /\ "lost" \in Places
      BY <1>4, <1>d DEF ForwardFails
    <3>7. {x} \subseteq InPlace(t)["hand"] /\ {} = {x} \ {x}
      BY <3>5
    <3> HIDE DEF x
    <3> QED BY <1>0, <3>4, <3>5, <3>6, <3>7, PlacesMove
  <2>2. CASE at # t
    <3>1. InHand(t)' = InHand(t) /\ lost'[t] = lost[t]
      BY <1>a, <1>4, <2>2 DEF ForwardFails, InHand
    <3> QED BY <1>0, <1>4, <3>1, PlacesSame DEF ForwardFails
  <2> QED BY <2>1, <2>2
<1>5. CASE RemoveSender
  <2>1. InHand(t)' = InHand(t)
    BY <1>5 DEF RemoveSender, InHand
  <2> QED BY <1>0, <1>5, <2>1, PlacesSame DEF RemoveSender
<1>6. CASE Buffer
  <2>1. CASE at = t /\ Len(pending[t]) < MaxPending
    <3> DEFINE x == arrived[t]
    <3>1. /\ InHand(t) = {x} /\ InHand(t)' = {}
          /\ pending'[t] = Append(pending[t], x) /\ UNCHANGED refused
      BY <1>a, <1>6, <2>1 DEF Buffer, InHand, Packet
    <3>2. x \in Numbers
      BY <1>6, <2>1 DEF Buffer, RouterTypes
    <3>3. ToSet(pending'[t]) = ToSet(pending[t]) \cup {x} /\ IsInjective(pending'[t])
      BY <1>0, <1>b, <1>c, <3>1, <3>2, AppendElements
    <3>4. NoRepeats(t)' /\ (reg'[t] # "done" => flush'[t] = << >>)
      BY <1>6, <1>b, <3>3 DEF Buffer, NoRepeats
    <3>5. /\ InPlace(t)["hand"] = {x} /\ InPlace(t)'["hand"] = {}
          /\ InPlace(t)'["pending"] = InPlace(t)["pending"] \cup {x}
          /\ \A p \in Places : p \notin {"hand", "pending"} =>
               InPlace(t)'[p] = InPlace(t)[p]
      <4>1. UNCHANGED <<chan, flush, got, expired, lost>>
        BY <1>6 DEF Buffer
      <4>2. /\ InPlace(t)["hand"] = {x} /\ InPlace(t)'["hand"] = {}
            /\ InPlace(t)'["pending"] = InPlace(t)["pending"] \cup {x}
        BY ONLY <3>1, <3>3, t \in Streams, InPlaceIs, InPlaceNext
      <4>3. \A p \in {"chan", "flush", "got", "expired", "refused", "lost"} :
              InPlace(t)'[p] = InPlace(t)[p]
        BY ONLY <3>1, <4>1, t \in Streams, InPlaceIs, InPlaceNext
      <4> QED BY ONLY <4>2, <4>3 DEF Places
    <3>6. arrived'[t] = arrived[t] /\ "hand" \in Places /\ "pending" \in Places
      BY <1>6, <1>d DEF Buffer
    <3>7. {x} \subseteq InPlace(t)["hand"] /\ {} = {x} \ {x}
      BY <3>5
    <3> HIDE DEF x
    <3> QED BY <1>0, <3>4, <3>5, <3>6, <3>7, PlacesMove
  <2>2. CASE at = t /\ ~(Len(pending[t]) < MaxPending)
    <3> DEFINE x == arrived[t]
    <3>1. /\ InHand(t) = {x} /\ InHand(t)' = {}
          /\ refused'[t] = refused[t] \cup {x} /\ UNCHANGED pending
      BY <1>a, <1>6, <2>2 DEF Buffer, InHand, Packet
    <3>4. NoRepeats(t)' /\ (reg'[t] # "done" => flush'[t] = << >>)
      BY <1>6, <1>b, <3>1 DEF Buffer, NoRepeats
    <3>5. /\ InPlace(t)["hand"] = {x} /\ InPlace(t)'["hand"] = {}
          /\ InPlace(t)'["refused"] = InPlace(t)["refused"] \cup {x}
          /\ \A p \in Places : p \notin {"hand", "refused"} =>
               InPlace(t)'[p] = InPlace(t)[p]
      BY <1>6, <3>1, InPlaceIs, InPlaceNext DEF Buffer, Places
    <3>6. arrived'[t] = arrived[t] /\ "hand" \in Places /\ "refused" \in Places
      BY <1>6, <1>d DEF Buffer
    <3>7. {x} \subseteq InPlace(t)["hand"] /\ {} = {x} \ {x}
      BY <3>5
    <3> HIDE DEF x
    <3> QED BY <1>0, <3>4, <3>5, <3>6, <3>7, PlacesMove
  <2>3. CASE at # t
    <3>1. /\ InHand(t)' = InHand(t) /\ pending'[t] = pending[t]
          /\ refused'[t] = refused[t]
      BY <1>a, <1>6, <2>3 DEF Buffer, InHand
    <3> QED BY <1>0, <1>6, <3>1, PlacesSame DEF Buffer
  <2> QED BY <2>1, <2>2, <2>3
<1>7. CASE Cleanup
  <2>1. PICK old \in [Streams -> 0 .. MaxPackets] :
          /\ \A s \in Streams : old[s] <= Len(pending[s])
          /\ pending' = [s \in Streams |->
                           SubSeq(pending[s], old[s] + 1, Len(pending[s]))]
          /\ expired' = [s \in Streams |->
                           expired[s] \cup ToSet(SubSeq(pending[s], 1, old[s]))]
    BY <1>7 DEF Cleanup
  <2> DEFINE X == ToSet(SubSeq(pending[t], 1, old[t]))
  <2>2. /\ pending'[t] = SubSeq(pending[t], old[t] + 1, Len(pending[t]))
        /\ expired'[t] = expired[t] \cup X
    BY <2>1
  <2>3. old[t] \in 0 .. Len(pending[t])
    BY <1>0, <2>1, RouterAssumption
  <2>4. /\ X \subseteq ToSet(pending[t])
        /\ ToSet(pending'[t]) = ToSet(pending[t]) \ X
        /\ IsInjective(pending'[t])
    BY <1>0, <1>b, <2>2, <2>3, SplitElements
  <2> HIDE DEF X
  <2>5. NoRepeats(t)' /\ (reg'[t] # "done" => flush'[t] = << >>)
    BY <1>7, <1>b, <2>4 DEF Cleanup, NoRepeats
  <2>6. InHand(t)' = InHand(t)
    BY <1>7 DEF Cleanup, InHand
  <2>7. /\ X \subseteq InPlace(t)["pending"]
        /\ InPlace(t)'["pending"] = InPlace(t)["pending"] \ X
        /\ InPlace(t)'["expired"] = InPlace(t)["expired"] \cup X
        /\ \A p \in Places : p \notin {"pending", "expired"} =>
             InPlace(t)'[p] = InPlace(t)[p]
    <3>1. UNCHANGED <<chan, flush, got, refused, lost>>
      BY <1>7 DEF Cleanup
    <3>2. expired'[t] = expired[t] \cup X
      BY <2>2
    <3> QED BY <2>4, <2>6, <3>1, <3>2, InPlaceIs, InPlaceNext DEF Places
  <2>8. arrived'[t] = arrived[t] /\ "pending" \in Places /\ "expired" \in Places
    BY <1>7, <1>d DEF Cleanup
  <2> QED BY <1>0, <2>5, <2>7, <2>8, PlacesMove
<1>8. ASSUME NEW s \in Streams, Register(s) \/ InsertSender(s) PROVE PlacesOf(t)'
  <2>1. InHand(t)' = InHand(t) /\ (reg[t] = "done" => reg'[t] = "done")
    BY <1>a, <1>8 DEF Register, InsertSender, InHand
  <2> QED BY <1>0, <1>8, <2>1, PlacesSame DEF Register, InsertSender
<1>9. ASSUME NEW s \in Streams, TakePending(s) PROVE PlacesOf(t)'
  <2>0. InHand(t)' = InHand(t)
    BY <1>9 DEF TakePending, InHand
  <2>1. CASE s = t
    <3> DEFINE X == ToSet(pending[t])
    <3>1. /\ flush[t] = << >> /\ flush'[t] = pending[t] /\ pending'[t] = << >>
          /\ reg'[t] = "done"
      BY <1>9, <1>a, <1>b, <2>1 DEF TakePending
    <3>2. NoRepeats(t)'
      BY <1>9, <1>b, <3>1, EmptyQueue DEF TakePending, NoRepeats
    <3>3. /\ X \subseteq InPlace(t)["pending"]
          /\ InPlace(t)'["pending"] = InPlace(t)["pending"] \ X
          /\ InPlace(t)'["flush"] = InPlace(t)["flush"] \cup X
          /\ \A p \in Places : p \notin {"pending", "flush"} =>
               InPlace(t)'[p] = InPlace(t)[p]
      BY <1>9, <2>0, <3>1, EmptyQueue, InPlaceIs, InPlaceNext DEF TakePending, Places
    <3>4. arrived'[t] = arrived[t] /\ "pending" \in Places /\ "flush" \in Places
      BY <1>9, <1>d DEF TakePending
    <3> HIDE DEF X
    <3> QED BY <1>0, <3>1, <3>2, <3>3, <3>4, PlacesMove
  <2>2. CASE s # t
    <3>1. pending'[t] = pending[t] /\ flush'[t] = flush[t] /\ reg'[t] = reg[t]
      BY <1>9, <1>a, <2>2 DEF TakePending
    <3> QED BY <1>0, <1>9, <2>0, <3>1, PlacesSame DEF TakePending
  <2> QED BY <2>1, <2>2
<1>10. ASSUME NEW s \in Streams, Flush(s) PROVE PlacesOf(t)'
  <2>0. InHand(t)' = InHand(t)
    BY <1>10 DEF Flush, InHand
  <2>1. CASE s = t
    <3> DEFINE x == Head(flush[t])
    <3>1. /\ flush[t] # << >> /\ flush'[t] = Tail(flush[t])
          /\ chan'[t] = Append(chan[t], x)
      BY <1>10, <1>a, <2>1 DEF Flush
    <3>2. /\ x \in Numbers /\ x \in ToSet(flush[t])
          /\ ToSet(flush'[t]) = ToSet(flush[t]) \ {x}
          /\ IsInjective(flush'[t])
      BY <1>0, <1>b, <3>1, TailElements
    <3>3. ToSet(chan'[t]) = ToSet(chan[t]) \cup {x} /\ IsInjective(chan'[t])
      <4>1. x \notin ToSet(chan[t])
        BY <1>c, <3>2
      <4> HIDE DEF x
      <4> QED BY <1>0, <1>b, <3>1, <3>2, <4>1, AppendElements
    <3> HIDE DEF x
    <3>4. NoRepeats(t)' /\ (reg'[t] # "done" => flush'[t] = << >>)
      BY <1>10, <1>b, <3>1, <3>2, <3>3 DEF Flush, NoRepeats
    <3>5. /\ {x} \subseteq InPlace(t)["flush"]
          /\ InPlace(t)'["flush"] = InPlace(t)["flush"] \ {x}
          /\ InPlace(t)'["chan"] = InPlace(t)["chan"] \cup {x}
          /\ \A p \in Places : p \notin {"flush", "chan"} =>
               InPlace(t)'[p] = InPlace(t)[p]
      BY <1>10, <2>0, <3>2, <3>3, InPlaceIs, InPlaceNext DEF Flush, Places
    <3>6. arrived'[t] = arrived[t] /\ "flush" \in Places /\ "chan" \in Places
      BY <1>10, <1>d DEF Flush
    <3> QED BY <1>0, <3>4, <3>5, <3>6, PlacesMove
  <2>2. CASE s # t
    <3>1. chan'[t] = chan[t] /\ flush'[t] = flush[t]
      BY <1>10, <1>a, <2>2 DEF Flush
    <3> QED BY <1>0, <1>10, <2>0, <3>1, PlacesSame DEF Flush
  <2> QED BY <2>1, <2>2
<1>11. ASSUME NEW s \in Streams, FlushFails(s) PROVE PlacesOf(t)'
  <2>0. InHand(t)' = InHand(t)
    BY <1>11 DEF FlushFails, InHand
  <2>1. CASE s = t
    <3> DEFINE X == ToSet(flush[t])
    <3>1. flush'[t] = << >> /\ lost'[t] = lost[t] \cup X
      BY <1>11, <1>a, <2>1 DEF FlushFails
    <3>2. NoRepeats(t)'
      BY <1>11, <1>b, <3>1, EmptyQueue DEF FlushFails, NoRepeats
    <3>3. /\ X \subseteq InPlace(t)["flush"]
          /\ InPlace(t)'["flush"] = InPlace(t)["flush"] \ X
          /\ InPlace(t)'["lost"] = InPlace(t)["lost"] \cup X
          /\ \A p \in Places : p \notin {"flush", "lost"} =>
               InPlace(t)'[p] = InPlace(t)[p]
      BY <1>11, <2>0, <3>1, EmptyQueue, InPlaceIs, InPlaceNext DEF FlushFails, Places
    <3>4. arrived'[t] = arrived[t] /\ "flush" \in Places /\ "lost" \in Places
      BY <1>11, <1>d DEF FlushFails
    <3> HIDE DEF X
    <3> QED BY <1>0, <3>1, <3>2, <3>3, <3>4, PlacesMove
  <2>2. CASE s # t
    <3>1. lost'[t] = lost[t] /\ flush'[t] = flush[t]
      BY <1>11, <1>a, <2>2 DEF FlushFails
    <3> QED BY <1>0, <1>11, <2>0, <3>1, PlacesSame DEF FlushFails
  <2> QED BY <2>1, <2>2
<1>12. ASSUME NEW s \in Streams, Take(s) PROVE PlacesOf(t)'
  <2>0. InHand(t)' = InHand(t)
    BY <1>12 DEF Take, InHand
  <2>1. CASE s = t
    <3> DEFINE x == Head(chan[t])
    <3>1. /\ chan[t] # << >> /\ chan'[t] = Tail(chan[t])
          /\ got'[t] = Append(got[t], x)
      BY <1>12, <1>a, <2>1 DEF Take
    <3>2. /\ x \in Numbers /\ x \in ToSet(chan[t])
          /\ ToSet(chan'[t]) = ToSet(chan[t]) \ {x}
          /\ IsInjective(chan'[t])
      BY <1>0, <1>b, <3>1, TailElements
    <3>3. ToSet(got'[t]) = ToSet(got[t]) \cup {x} /\ IsInjective(got'[t])
      <4>1. x \notin ToSet(got[t])
        BY <1>c, <3>2
      <4> HIDE DEF x
      <4> QED BY <1>0, <1>b, <3>1, <3>2, <4>1, AppendElements
    <3> HIDE DEF x
    <3>4. NoRepeats(t)' /\ (reg'[t] # "done" => flush'[t] = << >>)
      BY <1>12, <1>b, <3>2, <3>3 DEF Take, NoRepeats
    <3>5. /\ {x} \subseteq InPlace(t)["chan"]
          /\ InPlace(t)'["chan"] = InPlace(t)["chan"] \ {x}
          /\ InPlace(t)'["got"] = InPlace(t)["got"] \cup {x}
          /\ \A p \in Places : p \notin {"chan", "got"} =>
               InPlace(t)'[p] = InPlace(t)[p]
      BY <1>12, <2>0, <3>2, <3>3, InPlaceIs, InPlaceNext DEF Take, Places
    <3>6. arrived'[t] = arrived[t] /\ "got" \in Places /\ "chan" \in Places
      BY <1>12, <1>d DEF Take
    <3> QED BY <1>0, <3>4, <3>5, <3>6, PlacesMove
  <2>2. CASE s # t
    <3>1. chan'[t] = chan[t] /\ got'[t] = got[t]
      BY <1>12, <1>a, <2>2 DEF Take
    <3> QED BY <1>0, <1>12, <2>0, <3>1, PlacesSame DEF Take
  <2> QED BY <2>1, <2>2
<1>13. ASSUME NEW s \in Streams, Die(s) PROVE PlacesOf(t)'
  <2>0. InHand(t)' = InHand(t)
    BY <1>13 DEF Die, InHand
  <2>1. CASE s = t
    <3> DEFINE X == ToSet(chan[t])
    <3>1. chan'[t] = << >> /\ lost'[t] = lost[t] \cup X
      BY <1>13, <1>a, <2>1 DEF Die
    <3>2. NoRepeats(t)' /\ (reg'[t] # "done" => flush'[t] = << >>)
      BY <1>13, <1>b, <3>1, EmptyQueue DEF Die, NoRepeats
    <3>3. /\ X \subseteq InPlace(t)["chan"]
          /\ InPlace(t)'["chan"] = InPlace(t)["chan"] \ X
          /\ InPlace(t)'["lost"] = InPlace(t)["lost"] \cup X
          /\ \A p \in Places : p \notin {"chan", "lost"} =>
               InPlace(t)'[p] = InPlace(t)[p]
      BY <1>13, <2>0, <3>1, EmptyQueue, InPlaceIs, InPlaceNext DEF Die, Places
    <3>4. arrived'[t] = arrived[t] /\ "chan" \in Places /\ "lost" \in Places
      BY <1>13, <1>d DEF Die
    <3> HIDE DEF X
    <3> QED BY <1>0, <3>1, <3>2, <3>3, <3>4, PlacesMove
  <2>2. CASE s # t
    <3>1. lost'[t] = lost[t] /\ chan'[t] = chan[t]
      BY <1>13, <1>a, <2>2 DEF Die
    <3> QED BY <1>0, <1>13, <2>0, <3>1, PlacesSame DEF Die
  <2> QED BY <2>1, <2>2
<1> QED BY <1>1, <1>2, <1>3, <1>4, <1>5, <1>6, <1>7, <1>8, <1>9, <1>10, <1>11,
        <1>12, <1>13 DEF RouterNext, RouterStep, StreamStep

LEMMA PlacesInit == RouterInit => PlacesInv
<1> SUFFICES ASSUME RouterInit, NEW s \in Streams PROVE PlacesOf(s)
  BY DEF PlacesInv, PlacesOf
<1>1. /\ pending[s] = << >> /\ chan[s] = << >> /\ flush[s] = << >>
      /\ got[s] = << >> /\ expired[s] = {} /\ refused[s] = {} /\ lost[s] = {}
      /\ arrived[s] = 0 /\ InHand(s) = {}
  BY DEF RouterInit, InHand
<1>2. NoRepeats(s)
  BY <1>1, EmptyQueue DEF NoRepeats
<1>3. \A p \in Places : InPlace(s)[p] = {}
  BY <1>1, EmptyQueue, InPlaceIs DEF Places
<1>4. Apart(InPlace(s)) /\ Everything(InPlace(s)) = {}
  BY <1>3 DEF Apart, Everything
<1>5. 1 .. 0 = {}
  OBVIOUS
<1> QED BY <1>1, <1>2, <1>4, <1>5 DEF PlacesOf

\* Every datagram the router ever took is in exactly one place, in every
\* interleaving of the router, the registrations, the flushes they spawn, the
\* cleanups and the ends of channels: none is lost unaccounted, none reaches
\* a stream twice, for any number of streams and any limits.
THEOREM PacketsAccounted == RouterSpec => []EachOnce
<1>1. RouterInit => PlacesInv
  BY PlacesInit
<1>2. RouterTypes /\ PlacesInv /\ [RouterNext]_rvars => PlacesInv'
  BY PlacesStep
<1>3. RouterTypes /\ PlacesInv => EachOnce
  <2> SUFFICES ASSUME RouterTypes, PlacesInv, NEW s \in Streams
               PROVE  LET queued == ToSet(Queued(s))
                          parts  == << queued, InHand(s), expired[s],
                                       refused[s], lost[s] >>
                      IN  /\ IsInjective(Queued(s))
                          /\ UNION Range(parts) = 1 .. arrived[s]
                          /\ \A i, j \in DOMAIN parts :
                               i # j => parts[i] \cap parts[j] = {}
    BY DEF EachOnce
  <2> DEFINE pc1 == pending[s] \o chan[s]
             pc2 == pc1 \o flush[s]
             A == ToSet(pending[s])
             B == ToSet(chan[s])
             C == ToSet(flush[s])
             D == ToSet(got[s])
             E == InHand(s)
             F == expired[s]
             G == refused[s]
             H == lost[s]
  <2>1. /\ pending[s] \in Seq(Numbers) /\ chan[s] \in Seq(Numbers)
        /\ flush[s] \in Seq(Numbers) /\ got[s] \in Seq(Numbers)
    BY DEF RouterTypes
  <2>2. /\ IsInjective(pending[s]) /\ IsInjective(chan[s])
        /\ IsInjective(flush[s]) /\ IsInjective(got[s])
        /\ Apart(InPlace(s)) /\ Everything(InPlace(s)) = 1 .. arrived[s]
    BY DEF PlacesInv, NoRepeats
  <2>3. /\ \A x : x \in A => x \notin B /\ x \notin C /\ x \notin D /\ x \notin E
                             /\ x \notin F /\ x \notin G /\ x \notin H
        /\ \A x : x \in B => x \notin C /\ x \notin D /\ x \notin E
                             /\ x \notin F /\ x \notin G /\ x \notin H
        /\ \A x : x \in C => x \notin D /\ x \notin E
                             /\ x \notin F /\ x \notin G /\ x \notin H
        /\ \A x : x \in D => x \notin E /\ x \notin F /\ x \notin G /\ x \notin H
        /\ \A x : x \in E => x \notin F /\ x \notin G /\ x \notin H
        /\ \A x : x \in F => x \notin G /\ x \notin H
        /\ \A x : x \in G => x \notin H
    <3>1. \A i, j \in Places : i # j =>
             \A x : x \in InPlace(s)[i] => x \notin InPlace(s)[j]
      BY <2>2 DEF Apart
    <3> HIDE DEF A, B, C, D, E, F, G, H
    <3>2. /\ InPlace(s)["pending"] = A /\ InPlace(s)["chan"] = B
          /\ InPlace(s)["flush"] = C /\ InPlace(s)["got"] = D
          /\ InPlace(s)["hand"] = E /\ InPlace(s)["expired"] = F
          /\ InPlace(s)["refused"] = G /\ InPlace(s)["lost"] = H
      BY InPlaceIs DEF A, B, C, D, E, F, G, H
    <3> QED BY <3>1, <3>2 DEF Places
  <2>4. \A x : x \in 1 .. arrived[s] <=>
           \/ x \in A \/ x \in B \/ x \in C \/ x \in D
           \/ x \in E \/ x \in F \/ x \in G \/ x \in H
    <3>1. \A x : x \in 1 .. arrived[s] <=> \E i \in Places : x \in InPlace(s)[i]
      BY <2>2 DEF Everything
    <3> HIDE DEF A, B, C, D, E, F, G, H
    <3>2. /\ InPlace(s)["pending"] = A /\ InPlace(s)["chan"] = B
          /\ InPlace(s)["flush"] = C /\ InPlace(s)["got"] = D
          /\ InPlace(s)["hand"] = E /\ InPlace(s)["expired"] = F
          /\ InPlace(s)["refused"] = G /\ InPlace(s)["lost"] = H
      BY InPlaceIs DEF A, B, C, D, E, F, G, H
    <3> QED BY <3>1, <3>2 DEF Places
  <2>5. /\ pc1 \in Seq(Numbers) /\ IsInjective(pc1) /\ ToSet(pc1) = A \cup B
    <3>1. A \cap B = {}
      BY <2>3
    <3> QED BY <2>1, <2>2, <3>1, JoinElements
  <2>6. /\ pc2 \in Seq(Numbers) /\ IsInjective(pc2)
        /\ ToSet(pc2) = (A \cup B) \cup C
    <3>1. (A \cup B) \cap C = {}
      BY <2>3
    <3> HIDE DEF pc1
    <3> QED BY <2>1, <2>2, <2>5, <3>1, JoinElements
  <2>7. /\ IsInjective(Queued(s))
        /\ ToSet(Queued(s)) = ((A \cup B) \cup C) \cup D
    <3>1. ((A \cup B) \cup C) \cap D = {}
      BY <2>3
    <3>2. Queued(s) = pc2 \o got[s]
      BY DEF Queued
    <3> HIDE DEF pc2
    <3> QED BY <2>1, <2>2, <2>6, <3>1, <3>2, JoinElements
  <2> DEFINE Q == ToSet(Queued(s))
             parts == << Q, E, F, G, H >>
  <2>8. \A x : x \in Q <=> x \in A \/ x \in B \/ x \in C \/ x \in D
    BY <2>7
  <2> HIDE DEF A, B, C, D, E, F, G, H, Q
  <2>9. /\ DOMAIN parts = 1 .. 5
        /\ parts[1] = Q /\ parts[2] = E /\ parts[3] = F /\ parts[4] = G
        /\ parts[5] = H
    OBVIOUS
  <2>10. 1 .. 5 = {1, 2, 3, 4, 5}
    OBVIOUS
  <2> HIDE DEF parts
  <2>11. UNION Range(parts) = 1 .. arrived[s]
    <3>1. \A x : x \in UNION Range(parts) <=> \E i \in 1 .. 5 : x \in parts[i]
      BY <2>9 DEF Range
    <3>2. \A x : x \in UNION Range(parts) <=>
                   x \in Q \/ x \in E \/ x \in F \/ x \in G \/ x \in H
      BY <2>9, <2>10, <3>1
    <3> QED BY <2>4, <2>8, <3>2
  <2>12. \A i, j \in DOMAIN parts : i # j => parts[i] \cap parts[j] = {}
    <3>1. /\ Q \cap E = {} /\ Q \cap F = {} /\ Q \cap G = {} /\ Q \cap H = {}
          /\ E \cap F = {} /\ E \cap G = {} /\ E \cap H = {}
          /\ F \cap G = {} /\ F \cap H = {} /\ G \cap H = {}
      BY <2>3, <2>8
    <3> QED BY <2>9, <2>10, <3>1
  <2> QED BY <2>7, <2>11, <2>12 DEF parts, Q, E, F, G, H
<1> QED BY <1>1, <1>2, <1>3, RouterInitTypes, RouterStepTypes, PTL DEF RouterSpec
-----------------------------------------------------------------------------
(* What a registration can leave behind                                     *)

LEMMA SendersStep ==
    ASSUME RouterTypes, SendersInv, [RouterNext]_rvars
    PROVE  SendersInv'
<1> USE DEF SendersInv, AtMostOneStranded
<1>0. /\ DOMAIN pending = Streams /\ DOMAIN reg = Streams
      /\ \A s \in Streams : pending[s] \in Seq(Numbers) /\ Len(pending[s]) \in Nat
      /\ at \in Streams /\ alive \subseteq Streams
      /\ MaxPending \in Nat
  BY RouterAssumption DEF RouterTypes
<1>1. CASE UNCHANGED rvars
  BY <1>1 DEF rvars
<1>2. ASSUME NEW s \in Streams, Receive(s) PROVE SendersInv'
  <2>1. /\ pc = "idle" /\ at' = s
        /\ pc' = IF s \in senders THEN "sending" ELSE "buffering"
        /\ UNCHANGED <<senders, pending, alive, reg>>
    BY <1>2 DEF Receive
  <2>2. ASSUME NEW t \in Streams \cap alive, reg[t] = "done"
        PROVE  Len(pending[t]) + (IF pc' = "buffering" /\ at' = t THEN 1 ELSE 0) <= 1
    <3>1. ~(pc' = "buffering" /\ at' = t)
      BY <2>1, <2>2
    <3>2. Len(pending[t]) + 0 <= 1
      BY <2>1, <2>2
    <3> QED BY <3>1, <3>2
  <2> QED BY <2>1, <2>2
<1>3. CASE Forward \/ ForwardFails \/ RemoveSender
  <2>1. /\ UNCHANGED <<pending, alive, reg, at>>
        /\ pc # "buffering" /\ pc' # "buffering"
        /\ pc' = "removing" => at \notin alive
        /\ senders' = senders \/ (pc = "removing" /\ senders' = senders \ {at})
    BY <1>3 DEF Forward, ForwardFails, RemoveSender
  <2> QED BY <2>1
<1>4. CASE Buffer
  <2>1. /\ pc = "buffering" /\ pc' = "idle"
        /\ UNCHANGED <<senders, alive, reg, at>>
        /\ \/ pending' = pending
           \/ pending' = [pending EXCEPT ![at] = Append(pending[at], Packet)]
    BY <1>4 DEF Buffer
  <2>2. ASSUME NEW t \in Streams \cap alive, reg[t] = "done"
        PROVE  Len(pending'[t]) <= 1
    <3>1. CASE t = at
      <4>1. Len(pending[t]) + 1 <= 1
        BY <2>1, <2>2, <3>1
      <4>2. pending[t] = << >>
        BY <1>0, <4>1
      <4>3. pending'[t] = pending[t] \/ pending'[t] = Append(pending[t], Packet)
        BY <1>0, <2>1, <3>1
      <4>4. Len(<< >>) = 0 /\ Len(Append(<< >>, Packet)) = 1
        OBVIOUS
      <4>5. Len(pending'[t]) = 0 \/ Len(pending'[t]) = 1
        BY ONLY <4>2, <4>3, <4>4, Zenon
      <4> DEFINE l == Len(pending'[t])
      <4>6. l = 0 \/ l = 1
        BY ONLY <4>5
      <4> HIDE DEF l
      <4>7. l <= 1
        BY ONLY <4>6
      <4> QED BY ONLY <4>7 DEF l
    <3>2. CASE t # at
      <4>1. pending'[t] = pending[t]
        BY <1>0, <2>1, <3>2
      <4>2. Len(pending[t]) + 0 <= 1
        BY <2>2, <3>2
      <4> QED BY <1>0, <4>1, <4>2
    <3> QED BY <3>1, <3>2
  <2>3. ASSUME NEW t \in Streams \cap alive, reg[t] = "done"
        PROVE  Len(pending'[t]) + 0 <= 1
    <3>1. Len(pending'[t]) \in Nat
      BY RouterStepTypes DEF RouterTypes
    <3> QED BY <2>2, <2>3, <3>1
  <2> QED BY <2>1, <2>3
<1>5. CASE Cleanup
  <2>1. UNCHANGED <<senders, alive, reg, pc, at>>
    BY <1>5 DEF Cleanup
  <2>2. \A t \in Streams : Len(pending'[t]) \in Nat /\ Len(pending'[t]) <= Len(pending[t])
    <3>1. PICK old \in [Streams -> 0 .. MaxPackets] :
            /\ \A s \in Streams : old[s] <= Len(pending[s])
            /\ pending' = [s \in Streams |->
                             SubSeq(pending[s], old[s] + 1, Len(pending[s]))]
      BY <1>5 DEF Cleanup
    <3>2. MaxPackets \in Nat
      BY RouterAssumption
    <3> SUFFICES ASSUME NEW t \in Streams
                 PROVE  Len(pending'[t]) \in Nat /\ Len(pending'[t]) <= Len(pending[t])
      OBVIOUS
    <3>3. old[t] \in Nat /\ old[t] <= Len(pending[t]) /\ pending[t] \in Seq(Numbers)
      BY <1>0, <3>1, <3>2
    <3>4. pending'[t] = SubSeq(pending[t], old[t] + 1, Len(pending[t]))
      BY <3>1
    <3>5. /\ SubSeq(pending[t], old[t] + 1, Len(pending[t])) \in Seq(Numbers)
          /\ Len(SubSeq(pending[t], old[t] + 1, Len(pending[t]))) <= Len(pending[t])
      BY <3>3, CleanupTypes
    <3> QED BY <3>4, <3>5
  <2>3. ASSUME NEW t \in Streams \cap alive, reg[t] = "done"
        PROVE  Len(pending'[t]) + (IF pc = "buffering" /\ at = t THEN 1 ELSE 0) <= 1
    <3> DEFINE b == IF pc = "buffering" /\ at = t THEN 1 ELSE 0
    <3>1. b \in Nat /\ Len(pending[t]) + b <= 1
      BY <2>3
    <3> HIDE DEF b
    <3>2. Len(pending'[t]) + b <= 1
      BY <1>0, <2>2, <3>1
    <3> QED BY <3>2 DEF b
  <2> QED BY <2>1, <2>3
<1>6. ASSUME NEW s \in Streams, Register(s) PROVE SendersInv'
  BY <1>0, <1>6 DEF Register
<1>7. ASSUME NEW s \in Streams, InsertSender(s) PROVE SendersInv'
  BY <1>0, <1>7 DEF InsertSender
<1>8. ASSUME NEW s \in Streams, TakePending(s) PROVE SendersInv'
  <2>1. /\ UNCHANGED <<senders, alive, pc, at>>
        /\ reg[s] = "inserted"
        /\ reg' = [reg EXCEPT ![s] = "done"]
        /\ pending' = [pending EXCEPT ![s] = << >>]
    BY <1>8 DEF TakePending
  <2>2. ASSUME NEW t \in Streams \cap alive, reg'[t] = "done"
        PROVE  Len(pending'[t]) + (IF pc = "buffering" /\ at = t THEN 1 ELSE 0) <= 1
    <3>1. CASE t = s
      <4>1. pending'[t] = << >> /\ Len(<< >>) = 0
        BY <1>0, <2>1, <3>1
      <4> QED BY <4>1
    <3>2. CASE t # s
      <4>1. pending'[t] = pending[t] /\ reg[t] = "done"
        BY <1>0, <2>1, <2>2, <3>2
      <4> QED BY <4>1
    <3> QED BY <3>1, <3>2
  <2>3. \A t \in Streams \cap alive : reg'[t] \in {"inserted", "done"} => t \in senders
    BY <1>0, <2>1
  <2> QED BY <2>1, <2>2, <2>3
<1>9. ASSUME NEW s \in Streams, Flush(s) \/ FlushFails(s) \/ Take(s) PROVE SendersInv'
  BY <1>9 DEF Flush, FlushFails, Take
<1>10. ASSUME NEW s \in Streams, Die(s) PROVE SendersInv'
  <2>1. UNCHANGED <<senders, pending, reg, pc, at>> /\ alive' = alive \ {s}
    BY <1>10 DEF Die
  <2> QED BY <2>1
<1> QED BY <1>1, <1>2, <1>3, <1>4, <1>5, <1>6, <1>7, <1>8, <1>9, <1>10
        DEF RouterNext, RouterStep, StreamStep

\* register() races with the router over a packet the router found no sender
\* for; that packet is all it can leave behind, on any number of workers and
\* whatever shards the streams share.
THEOREM OneStrandedAtMost == RouterSpec => []AtMostOneStranded
<1>1. RouterInit => SendersInv
  BY DEF RouterInit, SendersInv, AtMostOneStranded
<1>2. RouterTypes /\ SendersInv /\ [RouterNext]_rvars => SendersInv'
  BY SendersStep
<1>3. SendersInv => AtMostOneStranded
  BY DEF SendersInv
<1> QED BY <1>1, <1>2, <1>3, RouterInitTypes, RouterStepTypes, PTL DEF RouterSpec
-----------------------------------------------------------------------------
(* What is put aside or discarded                                           *)

\* The packets that did not go to the channel when they arrived.
Aside(s) == ToSet(pending[s]) \cup ToSet(flush[s]) \cup expired[s] \cup refused[s]

\* The inductive form of OnlyEarlyBuffered, which counts the packet the
\* router is about to put aside.
EarlyInv ==
    \A s \in Streams \cap alive :
        reg[s] \in {"inserted", "done"} =>
            /\ \A n \in Aside(s) : n <= ready[s]
            /\ pc = "buffering" /\ at = s => arrived[s] <= ready[s]

LEMMA EarlyMeans == RouterTypes /\ EarlyInv => OnlyEarlyBuffered
<1> SUFFICES ASSUME RouterTypes, EarlyInv PROVE OnlyEarlyBuffered
  OBVIOUS
<1> SUFFICES ASSUME NEW s \in Streams \cap alive, reg[s] \in {"inserted", "done"}
             PROVE  \A n \in ToSet(pending[s] \o flush[s]) \cup expired[s] \cup refused[s] :
                      n <= ready[s]
  BY DEF OnlyEarlyBuffered
<1>1. pending[s] \in Seq(Numbers) /\ flush[s] \in Seq(Numbers)
  BY DEF RouterTypes
<1>2. ToSet(pending[s] \o flush[s]) = ToSet(pending[s]) \cup ToSet(flush[s])
  BY <1>1, JoinElements
<1>3. \A n \in Aside(s) : n <= ready[s]
  BY DEF EarlyInv
<1> QED BY <1>2, <1>3 DEF Aside

LEMMA AsideArrived ==
    ASSUME RouterTypes, PlacesInv, NEW s \in Streams
    PROVE  \A n \in Aside(s) : n <= arrived[s]
<1>1. Everything(InPlace(s)) = 1 .. arrived[s]
  BY DEF PlacesInv
<1>2. {"pending", "flush", "expired", "refused"} \subseteq Places
  BY DEF Places
<1>3. \A p \in Places : InPlace(s)[p] \subseteq Everything(InPlace(s))
  BY DEF Everything
<1>4. Aside(s) \subseteq Everything(InPlace(s))
  BY <1>2, <1>3, InPlaceIs DEF Aside
<1>5. arrived[s] \in Int
  BY RouterAssumption DEF RouterTypes
<1> QED BY <1>1, <1>4, <1>5

LEMMA EarlyStep ==
    ASSUME RouterTypes, PlacesInv, SendersInv, EarlyInv, [RouterNext]_rvars
    PROVE  EarlyInv'
<1> SUFFICES ASSUME NEW t \in Streams \cap alive', reg'[t] \in {"inserted", "done"}
             PROVE  /\ \A n \in Aside(t)' : n <= ready'[t]
                    /\ pc' = "buffering" /\ at' = t => arrived'[t] <= ready'[t]
  BY DEF EarlyInv
<1>0. reg \in [Streams -> {"no", "entered", "inserted", "done"}]
      /\ \A q \in {pending, flush} : q[t] \in Seq(Numbers)
  BY DEF RouterTypes
\* What EarlyInv says of t before the step, if t was registered by then.
<1>a. ASSUME t \in alive, reg[t] \in {"inserted", "done"}
      PROVE  /\ \A n \in Aside(t) : n <= ready[t]
             /\ pc = "buffering" /\ at = t => arrived[t] <= ready[t]
             /\ t \in senders
  BY <1>a DEF EarlyInv, SendersInv
\* Enough for a step that adds nothing and starts no buffering.
<1>b. ASSUME Aside(t)' \subseteq Aside(t), UNCHANGED <<reg, ready>>, alive' \subseteq alive,
             \/ UNCHANGED <<pc, at, arrived>>
             \/ pc' # "buffering"
      PROVE  /\ \A n \in Aside(t)' : n <= ready'[t]
             /\ pc' = "buffering" /\ at' = t => arrived'[t] <= ready'[t]
  BY <1>a, <1>b
<1>1. CASE UNCHANGED rvars
  <2>1. Aside(t)' = Aside(t)
    BY <1>1 DEF rvars, Aside
  <2> QED BY <1>1, <1>b, <2>1 DEF rvars
<1>2. ASSUME NEW s \in Streams, Receive(s)
      PROVE  /\ \A n \in Aside(t)' : n <= ready'[t]
             /\ pc' = "buffering" /\ at' = t => arrived'[t] <= ready'[t]
  <2>1. Aside(t)' = Aside(t) /\ UNCHANGED <<reg, ready, alive>>
    BY <1>2 DEF Receive, Aside
  <2>2. ~(pc' = "buffering" /\ at' = t)
    BY <1>2, <1>a, <2>1 DEF Receive
  <2> QED BY <1>a, <2>1, <2>2
<1>3. CASE Forward \/ ForwardFails \/ RemoveSender
  <2>1. /\ Aside(t)' = Aside(t) /\ UNCHANGED <<reg, ready, alive>>
        /\ pc' # "buffering"
    BY <1>3 DEF Forward, ForwardFails, RemoveSender, Aside
  <2> QED BY <1>b, <2>1
<1>4. CASE Buffer
  <2>1. /\ UNCHANGED <<reg, ready, alive, flush, expired>>
        /\ pc = "buffering" /\ pc' # "buffering"
    BY <1>4 DEF Buffer
  <2>2. CASE at = t
    <3>1. arrived[t] \in Numbers
      BY <2>1, <2>2 DEF RouterTypes
    <3>2. ToSet(Append(pending[t], arrived[t])) = ToSet(pending[t]) \cup {arrived[t]}
      BY <1>0, <3>1, AppendElements
    <3>3. \/ pending'[t] = Append(pending[t], arrived[t]) /\ refused'[t] = refused[t]
          \/ pending'[t] = pending[t] /\ refused'[t] = refused[t] \cup {arrived[t]}
      BY <1>4, <2>2 DEF Buffer, Packet, RouterTypes
    <3>4. Aside(t)' = Aside(t) \cup {arrived[t]}
      BY <2>1, <3>2, <3>3 DEF Aside
    <3> QED BY <1>a, <2>1, <2>2, <3>4
  <2>3. CASE at # t
    <3>1. pending'[t] = pending[t] /\ refused'[t] = refused[t]
      BY <1>4, <2>3 DEF Buffer, RouterTypes
    <3>2. Aside(t)' = Aside(t)
      BY <2>1, <3>1 DEF Aside
    <3> QED BY <1>b, <2>1, <3>2
  <2> QED BY <2>2, <2>3
<1>5. CASE Cleanup
  <2>1. UNCHANGED <<reg, ready, alive, pc, at, arrived, flush, refused>>
    BY <1>5 DEF Cleanup
  <2>2. PICK old \in [Streams -> 0 .. MaxPackets] :
          /\ \A s \in Streams : old[s] <= Len(pending[s])
          /\ pending' = [s \in Streams |->
                           SubSeq(pending[s], old[s] + 1, Len(pending[s]))]
          /\ expired' = [s \in Streams |->
                           expired[s] \cup ToSet(SubSeq(pending[s], 1, old[s]))]
    BY <1>5 DEF Cleanup
  <2>3. old[t] \in 0 .. Len(pending[t])
    BY <1>0, <2>2, RouterAssumption
  <2>4. IsInjective(pending[t])
    BY DEF PlacesInv, NoRepeats
  <2>5. /\ ToSet(SubSeq(pending[t], 1, old[t])) \subseteq ToSet(pending[t])
        /\ ToSet(SubSeq(pending[t], old[t] + 1, Len(pending[t]))) \subseteq ToSet(pending[t])
    BY <1>0, <2>3, <2>4, SplitElements
  <2>6. /\ pending'[t] = SubSeq(pending[t], old[t] + 1, Len(pending[t]))
        /\ expired'[t] = expired[t] \cup ToSet(SubSeq(pending[t], 1, old[t]))
    BY <2>2
  <2>7. Aside(t)' \subseteq Aside(t)
    BY <2>1, <2>5, <2>6 DEF Aside
  <2> QED BY <1>b, <2>1, <2>7
<1>6. ASSUME NEW s \in Streams, Register(s)
      PROVE  /\ \A n \in Aside(t)' : n <= ready'[t]
             /\ pc' = "buffering" /\ at' = t => arrived'[t] <= ready'[t]
  <2>1. /\ Aside(t)' = Aside(t) /\ UNCHANGED <<ready, alive, pc, at, arrived>>
        /\ reg[t] \in {"inserted", "done"}
    BY <1>0, <1>6 DEF Register, Aside
  <2> QED BY <1>a, <2>1
<1>7. ASSUME NEW s \in Streams, InsertSender(s)
      PROVE  /\ \A n \in Aside(t)' : n <= ready'[t]
             /\ pc' = "buffering" /\ at' = t => arrived'[t] <= ready'[t]
  <2>1. /\ Aside(t)' = Aside(t) /\ UNCHANGED <<alive, pc, at, arrived>>
        /\ ready' = [ready EXCEPT ![s] = arrived[s]]
        /\ reg' = [reg EXCEPT ![s] = "inserted"]
    BY <1>7 DEF InsertSender, Aside
  <2>2. CASE t = s
    <3>1. ready'[t] = arrived[t] /\ arrived[t] \in Int
      BY <2>1, <2>2, RouterAssumption DEF RouterTypes
    <3>2. \A n \in Aside(t) : n <= arrived[t]
      BY AsideArrived
    <3> QED BY <2>1, <3>1, <3>2
  <2>3. CASE t # s
    <3>1. ready'[t] = ready[t] /\ reg'[t] = reg[t]
      BY <1>0, <2>1, <2>3
    <3> QED BY <1>a, <2>1, <3>1
  <2> QED BY <2>2, <2>3
<1>8. ASSUME NEW s \in Streams, TakePending(s)
      PROVE  /\ \A n \in Aside(t)' : n <= ready'[t]
             /\ pc' = "buffering" /\ at' = t => arrived'[t] <= ready'[t]
  <2>1. /\ UNCHANGED <<alive, pc, at, arrived, ready, expired, refused>>
        /\ reg[s] = "inserted"
        /\ flush' = [flush EXCEPT ![s] = pending[s]]
        /\ pending' = [pending EXCEPT ![s] = << >>]
        /\ reg' = [reg EXCEPT ![s] = "done"]
    BY <1>8 DEF TakePending
  <2>2. \/ flush'[t] = pending[t] /\ pending'[t] = << >>
        \/ flush'[t] = flush[t] /\ pending'[t] = pending[t]
    BY <2>1 DEF RouterTypes
  <2>3. Aside(t)' \subseteq Aside(t)
    BY <2>1, <2>2, EmptyQueue DEF Aside
  <2>4. reg[t] \in {"inserted", "done"}
    BY <1>0, <2>1
  <2> QED BY <1>a, <2>1, <2>3, <2>4
<1>9. ASSUME NEW s \in Streams, Flush(s) \/ FlushFails(s)
      PROVE  /\ \A n \in Aside(t)' : n <= ready'[t]
             /\ pc' = "buffering" /\ at' = t => arrived'[t] <= ready'[t]
  <2>1. /\ UNCHANGED <<reg, ready, alive, pc, at, arrived, pending, expired, refused>>
        /\ flush[s] # << >>
        /\ \/ flush' = [flush EXCEPT ![s] = Tail(flush[s])]
           \/ flush' = [flush EXCEPT ![s] = << >>]
    BY <1>9 DEF Flush, FlushFails
  <2>2. \/ flush'[t] = flush[t]
        \/ flush'[t] = << >>
        \/ flush[t] # << >> /\ flush'[t] = Tail(flush[t])
    BY <2>1 DEF RouterTypes
  <2>3. IsInjective(flush[t])
    BY DEF PlacesInv, NoRepeats
  <2>4. flush[t] # << >> => ToSet(Tail(flush[t])) \subseteq ToSet(flush[t])
    BY <1>0, <2>3, TailElements
  <2>5. Aside(t)' \subseteq Aside(t)
    BY <2>1, <2>2, <2>4, EmptyQueue DEF Aside
  <2> QED BY <1>b, <2>1, <2>5
<1>10. ASSUME NEW s \in Streams, Take(s) \/ Die(s)
       PROVE  /\ \A n \in Aside(t)' : n <= ready'[t]
              /\ pc' = "buffering" /\ at' = t => arrived'[t] <= ready'[t]
  <2>1. /\ UNCHANGED <<reg, ready, pc, at, arrived>> /\ alive' \subseteq alive
        /\ Aside(t)' = Aside(t)
    BY <1>10 DEF Take, Die, Aside
  <2> QED BY <1>b, <2>1
<1> QED BY <1>1, <1>2, <1>3, <1>4, <1>5, <1>6, <1>7, <1>8, <1>9, <1>10
        DEF RouterNext, RouterStep, StreamStep

\* No datagram is put aside, let alone discarded for its age or for want of
\* room, if it arrived when the stream's sender was in place already.
THEOREM LatePacketsNeverAside == RouterSpec => []OnlyEarlyBuffered
<1>1. RouterInit => SendersInv /\ EarlyInv
  BY DEF RouterInit, SendersInv, AtMostOneStranded, EarlyInv
<1>2. RouterInit => PlacesInv
  BY PlacesInit
<1>3. RouterTypes /\ PlacesInv /\ [RouterNext]_rvars => PlacesInv'
  BY PlacesStep
<1>4. RouterTypes /\ SendersInv /\ [RouterNext]_rvars => SendersInv'
  BY SendersStep
<1>5. RouterTypes /\ PlacesInv /\ SendersInv /\ EarlyInv /\ [RouterNext]_rvars
        => EarlyInv'
  BY EarlyStep
<1> QED BY <1>1, <1>2, <1>3, <1>4, <1>5, RouterInitTypes, RouterStepTypes,
        EarlyMeans, PTL DEF RouterSpec
=============================================================================
