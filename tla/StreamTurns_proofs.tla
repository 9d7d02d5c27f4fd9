------------------------- MODULE StreamTurns_proofs -------------------------
(****************************************************************************)
(* Proofs about StreamLifecycle when its applications take turns: each      *)
(* starts a transfer when it is its turn and what it can see of the others  *)
(* is over (Polite).  end() is then Ok only for a transfer that was         *)
(* acknowledged and read, no reliable sink ends early, and a task without a *)
(* handle acknowledges before it closes; none of the three holds otherwise. *)
(****************************************************************************)
EXTENDS StreamLifecycle_proofs

-----------------------------------------------------------------------------
(* Messages on their way.                                                   *)

Has(q, kind) == \E i \in DOMAIN q : q[i].kind = kind

Once(q, kind) ==
    \A i, j \in DOMAIN q : q[i].kind = kind /\ q[j].kind = kind => i = j

\* Every TransferEnd has a TransferStart before it.
EndsFollow(q) ==
    \A i \in DOMAIN q : q[i].kind = "End" =>
        \E j \in DOMAIN q : j < i /\ q[j].kind = "Start"

\* r has no message of a kind that q does not have.
Fewer(r, q, kind) ==
    /\ \A i \in DOMAIN r : r[i].kind = kind => \E j \in DOMAIN q : q[j] = r[i]
    /\ Once(q, kind) => Once(r, kind)

LEMMA FewerSame == ASSUME NEW q, NEW k PROVE Fewer(q, q, k)
BY DEF Fewer

LEMMA FewerHas ==
    ASSUME NEW q, NEW r, NEW k, Fewer(r, q, k), Has(r, k)
    PROVE  Has(q, k)
BY DEF Fewer, Has

LEMMA WireNone ==
    ASSUME NEW q
    PROVE  /\ \A k : Fewer(<< >>, q, k) /\ ~Has(<< >>, k)
           /\ EndsFollow(<< >>)
BY DEF Fewer, Has, Once, EndsFollow

LEMMA WireAppend ==
    ASSUME NEW q \in Seq(Messages), NEW m \in Messages
    PROVE  /\ \A k : k # m.kind => Fewer(Append(q, m), q, k)
           /\ \A k : Has(q, k) => Has(Append(q, m), k)
           /\ Has(Append(q, m), m.kind)
           /\ EndsFollow(q) /\ (m.kind # "End" \/ Has(q, "Start"))
                => EndsFollow(Append(q, m))
           /\ ~Has(q, m.kind) =>
                /\ Once(Append(q, m), m.kind)
                /\ \A i \in DOMAIN Append(q, m) :
                      Append(q, m)[i].kind = m.kind => Append(q, m)[i] = m
<1>. DEFINE r == Append(q, m)
            e == Len(q) + 1
<1>1. /\ Len(q) \in Nat /\ e \in Nat /\ DOMAIN q = 1 .. Len(q) /\ DOMAIN r = 1 .. e
      /\ r[e] = m /\ e \in DOMAIN r /\ e \notin DOMAIN q
  BY AppendProperties, LenProperties
<1>2. /\ \A i \in DOMAIN q : i \in DOMAIN r /\ r[i] = q[i] /\ i < e
      /\ \A i \in DOMAIN r : i = e \/ i \in DOMAIN q
  BY <1>1, AppendProperties
<1>. HIDE DEF r, e
<1>3. ASSUME NEW k, k # m.kind PROVE Fewer(r, q, k)
  BY <1>1, <1>2, <1>3 DEF Fewer, Once
<1>4. ASSUME NEW k, Has(q, k) PROVE Has(r, k)
  BY <1>2, <1>4 DEF Has
<1>5. Has(r, m.kind)
  BY <1>1 DEF Has
<1>6. ASSUME EndsFollow(q), m.kind # "End" \/ Has(q, "Start")
      PROVE  EndsFollow(r)
  <2>. SUFFICES ASSUME NEW i \in DOMAIN r, r[i].kind = "End"
                PROVE  \E j \in DOMAIN r : j < i /\ r[j].kind = "Start"
    BY DEF EndsFollow
  <2>1. CASE i \in DOMAIN q
    BY <1>2, <1>6, <2>1 DEF EndsFollow
  <2>2. CASE i = e
    <3>1. PICK j \in DOMAIN q : q[j].kind = "Start"
      BY <1>1, <1>6, <2>2 DEF Has
    <3>. QED  BY <1>2, <2>2, <3>1
  <2>. QED  BY <1>2, <2>1, <2>2
<1>7. ASSUME ~Has(q, m.kind)
      PROVE  /\ Once(r, m.kind)
             /\ \A i \in DOMAIN r : r[i].kind = m.kind => r[i] = m
  <2>1. \A i \in DOMAIN r : r[i].kind = m.kind => i = e
    BY <1>2, <1>7 DEF Has
  <2>. QED  BY <1>1, <2>1 DEF Once
<1>. QED  BY <1>3, <1>4, <1>5, <1>6, <1>7 DEF r

LEMMA WireTail ==
    ASSUME NEW q \in Seq(Messages), q # << >>
    PROVE  /\ Has(q, Head(q).kind)
           /\ \A k : /\ Fewer(Tail(q), q, k)
                     /\ Has(q, k) /\ k # Head(q).kind => Has(Tail(q), k)
           /\ Once(q, Head(q).kind) => ~Has(Tail(q), Head(q).kind)
           /\ EndsFollow(q) => /\ Head(q).kind # "End"
                               /\ Head(q).kind # "Start" => EndsFollow(Tail(q))
<1>. DEFINE r == Tail(q)
            h == Head(q)
<1>1. /\ Len(q) \in Nat /\ Len(q) > 0 /\ DOMAIN q = 1 .. Len(q)
      /\ DOMAIN r = 1 .. Len(q) - 1 /\ h = q[1] /\ 1 \in DOMAIN q
      /\ \A i \in DOMAIN r : r[i] = q[i + 1]
  BY HeadTailProperties, EmptySeq, LenProperties
<1>2. /\ \A i \in DOMAIN r : i + 1 \in DOMAIN q /\ i + 1 # 1 /\ r[i] = q[i + 1]
      /\ \A i \in DOMAIN q : i # 1 => i - 1 \in DOMAIN r /\ r[i - 1] = q[i]
      /\ DOMAIN r \subseteq Int /\ DOMAIN q \subseteq Int
  BY <1>1
<1>. HIDE DEF r, h
<1>3. Has(q, h.kind)
  BY <1>1 DEF Has
<1>4. ASSUME NEW k PROVE Fewer(r, q, k)
  <2>1. \A i, j \in DOMAIN r : i + 1 = j + 1 => i = j
    BY <1>2
  <2>. QED  BY <1>2, <2>1 DEF Fewer, Once
<1>5. ASSUME NEW k, Has(q, k), k # h.kind PROVE Has(r, k)
  BY <1>1, <1>2, <1>5 DEF Has
<1>6. ASSUME Once(q, h.kind) PROVE ~Has(r, h.kind)
  BY <1>1, <1>2, <1>6 DEF Once, Has
<1>7. ASSUME EndsFollow(q) PROVE h.kind # "End"
  <2>1. ~\E j \in DOMAIN q : j < 1
    BY <1>1
  <2>. QED  BY <1>1, <1>7, <2>1 DEF EndsFollow
<1>8. ASSUME EndsFollow(q), h.kind # "Start" PROVE EndsFollow(r)
  <2>. SUFFICES ASSUME NEW i \in DOMAIN r, r[i].kind = "End"
                PROVE  \E j \in DOMAIN r : j < i /\ r[j].kind = "Start"
    BY DEF EndsFollow
  <2>1. PICK j \in DOMAIN q : j < i + 1 /\ q[j].kind = "Start"
    BY <1>2, <1>8 DEF EndsFollow
  <2>2. j # 1
    BY <1>1, <1>8, <2>1
  <2>3. j - 1 \in DOMAIN r /\ r[j - 1] = q[j]
    BY <1>2, <2>2
  <2>4. j - 1 < i
    BY <1>2, <2>1
  <2>. QED  BY <2>1, <2>3, <2>4
<1>. QED  BY <1>3, <1>4, <1>5, <1>6, <1>7, <1>8 DEF r, h

LEMMA WireCut ==
    ASSUME NEW q \in Seq(Messages), q # << >>
    PROVE  /\ \A k : Fewer(<<Head(q)>>, q, k)
           /\ EndsFollow(q) => EndsFollow(<<Head(q)>>)
<1>. DEFINE r == <<Head(q)>>
<1>1. DOMAIN r = {1} /\ r[1] = q[1] /\ 1 \in DOMAIN q /\ DOMAIN q = 1 .. Len(q)
  BY HeadTailProperties, EmptySeq, LenProperties
<1>. HIDE DEF r
<1>2. ASSUME NEW k PROVE Fewer(r, q, k)
  BY <1>1 DEF Fewer, Once
<1>3. ASSUME EndsFollow(q) PROVE EndsFollow(r)
  <2>1. ~\E j \in DOMAIN q : j < 1
    BY <1>1
  <2>. QED  BY <1>1, <1>3, <2>1 DEF EndsFollow
<1>. QED  BY <1>2, <1>3 DEF r

-----------------------------------------------------------------------------
(* The transfers of one side.                                               *)

Begun(s) == Len(out[s])
Came(s) == Len(sinks[Other(s)])
Call(s) == out[s][Begun(s)].call

\* The other side has read what the transfer had to be read.
Whole(s, n) ==
    out[s][n].dual /\ ~out[s][n].empty => sinks[Other(s)][n].full

\* A side has at most one transfer that the other has not heard of, and all
\* before its last were acknowledged; what ends a transfer comes after what
\* starts it.
Begins(s) ==
    /\ Came(s) <= Begun(s) /\ Begun(s) <= Came(s) + 1
    /\ \A n \in 1 .. Begun(s) - 1 : out[s][n].call = "ok"
    /\ cmd[s] = "start" => /\ Came(s) < Begun(s)
                           /\ Call(s) = "starting"
                           /\ ~Has(wire[s], "Start")
    /\ Once(wire[s], "Start")
    /\ \A i \in DOMAIN wire[s] :
         wire[s][i].kind = "Start" => wire[s][i].n = Begun(s) /\ Came(s) < Begun(s)
    /\ Came(s) < Begun(s) => EndsFollow(wire[s])
    /\ Came(s) < Begun(s) /\ Call(s) \in {"held", "ending", "gone"}
         /\ {s, Other(s)} \cap (lost \cup over) = {} => Has(wire[s], "Start")
    /\ role[Other(s)].is = "receiver" =>
         Came(s) > 0 /\ role[Other(s)].n = Came(s)

Waits(S, kind) == \E m \in S : m.kind = kind

\* Where the end of a transfer is, or the answer to it: in the queue of the
\* sender's task, sent, in the sink's pipeline, known to the sink, answered,
\* or acknowledged.
Places == {"queued", "sent", "asked", "known", "answered", "acked"}
Tokens(s) ==
    {p \in Places :
        \/ p = "queued" /\ Waits(sends[s], "End")
        \/ p = "sent" /\ Has(wire[s], "End")
        \/ p = "asked" /\ \E r \in DOMAIN sinks[Other(s)] : sinks[Other(s)][r].ask # 0
        \/ p = "known" /\ \E r \in DOMAIN sinks[Other(s)] : sinks[Other(s)][r].final # 0
        \/ p = "answered" /\ Waits(sends[Other(s)], "Ack")
        \/ p = "acked" /\ Has(wire[Other(s)], "Ack")}

\* It is in one place at most, and it is that of the last transfer.
Alone(s) ==
    /\ \A p, q \in Tokens(s) : p = q
    /\ Tokens(s) # {} => Begun(s) > 0 /\ Call(s) \notin {"starting", "held", "ok"}

Numbered(s) ==
    LET o == Other(s)
        l == Begun(s)
    IN  /\ \A m \in sends[s] : m.kind = "End" =>
              m.n = l /\ Call(s) \in {"ending", "gone"}
        /\ Once(wire[s], "End")
        /\ \A i \in DOMAIN wire[s] : wire[s][i].kind = "End" => wire[s][i].n = l
        /\ \A r \in DOMAIN sinks[o] :
              /\ sinks[o][r].ask # 0 => r = l /\ sinks[o][r].ask = l
              /\ sinks[o][r].final # 0 => r = l /\ sinks[o][r].final = l
        /\ \A m \in sends[o] : m.kind = "Ack" => m.n = l /\ Came(s) = l /\ Whole(s, l)
        /\ Once(wire[o], "Ack")
        /\ \A i \in DOMAIN wire[o] : wire[o][i].kind = "Ack" =>
              wire[o][i].n = l /\ Came(s) = l /\ Whole(s, l) /\ l \in acked[o]

\* What has been acknowledged or ended was read.
Outcomes(s) ==
    /\ \A n \in 1 .. Begun(s) : out[s][n].call = "ok" =>
          n \in acked[Other(s)] /\ n <= Came(s) /\ Whole(s, n)
    /\ acked[Other(s)] \subseteq 1 .. Came(s)
    /\ \A n \in 1 .. Came(s) : sinks[Other(s)][n].rel = "ended" => Whole(s, n)

TurnInv(s) == Begins(s) /\ Alone(s) /\ Numbered(s) /\ Outcomes(s)

-----------------------------------------------------------------------------
(* Steps that do nothing for the transfers of a side.                       *)

\* Its calls may fail, and what it was about to say may be dropped.
CallKept(s, n) ==
    /\ out'[s][n].dual = out[s][n].dual
    /\ out'[s][n].empty = out[s][n].empty
    /\ \/ out'[s][n].call = out[s][n].call
       \/ out[s][n].call = "awaiting" /\ out'[s][n].call = "error"
       \/ /\ out[s][n].call \in InCall /\ out'[s][n].call = "error"
          /\ s \in over' /\ sends'[s] = {} /\ cmd'[s] # "start"

SenderQuiet(s) ==
    /\ Len(out'[s]) = Len(out[s])
    /\ \A n \in 1 .. Len(out[s]) : CallKept(s, n)
    /\ cmd'[s] = "start" => cmd[s] = "start"
    /\ \A m \in sends'[s] : m.kind = "End" => m \in sends[s]

SinkKept(s, n) ==
    /\ sinks'[s][n].ask \in {0, sinks[s][n].ask}
    /\ sinks'[s][n].final \in {0, sinks[s][n].final}
    /\ sinks[s][n].full => sinks'[s][n].full
    /\ sinks'[s][n].rel = "ended" => sinks[s][n].rel = "ended"

ReceiverQuiet(s) ==
    /\ Len(sinks'[s]) = Len(sinks[s])
    /\ \A n \in 1 .. Len(sinks[s]) : SinkKept(s, n)
    /\ role'[s].is = "receiver" => role[s].is = "receiver" /\ role'[s].n = role[s].n
    /\ acked'[s] = acked[s]
    /\ \A m \in sends'[s] : m.kind = "Ack" => m \in sends[s]

\* What it has written is read, or lost with a task or the connection.
Forth(s) ==
    /\ Fewer(wire'[s], wire[s], "Start")
    /\ Fewer(wire'[s], wire[s], "End")
    /\ EndsFollow(wire[s]) => EndsFollow(wire'[s])
    /\ {s, Other(s)} \cap (lost' \cup over') = {} /\ Has(wire[s], "Start")
            => Has(wire'[s], "Start")

Back(s) == Fewer(wire'[s], wire[s], "Ack")

Lasting == over \subseteq over' /\ lost \subseteq lost'

\* No transfer is begun, and at most the last one is heard of.
Kept(s) == Begun(s)' = Begun(s) /\ (Came(s)' = Came(s) \/ Came(s)' = Begun(s))

Quiet(s) ==
    /\ SenderQuiet(s) /\ Forth(s)
    /\ ReceiverQuiet(Other(s)) /\ Back(Other(s))

\* The lengths are numbers and the domains of sequences intervals.
LEMMA Lengths ==
    ASSUME LifecycleTypeOK, NEW s \in Sides
    PROVE  /\ Begun(s) \in Nat /\ DOMAIN out[s] = 1 .. Begun(s)
           /\ Came(s) \in Nat /\ DOMAIN sinks[Other(s)] = 1 .. Came(s)
           /\ Other(s) \in Sides /\ Other(s) # s
<1>1. Other(s) \in Sides /\ Other(s) # s
  BY Others
<1>2. out[s] \in Seq(Transfers) /\ sinks[Other(s)] \in Seq(SinkPairs)
  BY <1>1 DEF LifecycleTypeOK
<1>. QED  BY <1>1, <1>2, LenProperties DEF Begun, Came

LEMMA QuietBegins ==
    ASSUME LifecycleTypeOK, NEW s \in Sides, Begins(s), Quiet(s), Lasting
    PROVE  Begins(s)'
<1>. DEFINE o == Other(s)
<1>0. Begun(s) \in Nat /\ Came(s) \in Nat
  BY Lengths
<1>1. Begun(s)' = Begun(s) /\ Came(s)' = Came(s)
  BY DEF Quiet, SenderQuiet, ReceiverQuiet, Begun, Came
<1>2. \A n \in 1 .. Begun(s) : CallKept(s, n)
  BY DEF Quiet, SenderQuiet, Begun
<1>3. Came(s) < Begun(s) => CallKept(s, Begun(s))
  BY <1>0, <1>2
<1>4. \A n \in 1 .. Begun(s)' - 1 : out'[s][n].call = "ok"
  <2>. SUFFICES ASSUME NEW n \in 1 .. Begun(s)' - 1 PROVE out'[s][n].call = "ok"
    OBVIOUS
  <2>1. n \in 1 .. Begun(s) - 1 /\ n \in 1 .. Begun(s)
    BY <1>0, <1>1
  <2>2. out[s][n].call = "ok" /\ CallKept(s, n)
    BY <1>2, <2>1 DEF Begins
  <2>. QED  BY <2>2 DEF CallKept, InCall
<1>5. Has(wire'[s], "Start") => Has(wire[s], "Start")
  BY FewerHas DEF Quiet, Forth
<1>6. cmd'[s] = "start" => /\ Came(s)' < Begun(s)'
                           /\ Call(s)' = "starting"
                           /\ ~Has(wire'[s], "Start")
  <2>. SUFFICES ASSUME cmd'[s] = "start"
                PROVE  /\ Came(s) < Begun(s) /\ Call(s)' = "starting"
                       /\ ~Has(wire'[s], "Start")
    BY <1>1
  <2>1. cmd[s] = "start"
    BY DEF Quiet, SenderQuiet
  <2>2. Came(s) < Begun(s) /\ Call(s) = "starting" /\ ~Has(wire[s], "Start")
    BY <2>1 DEF Begins
  <2>3. out'[s][Begun(s)].call = "starting"
    BY <1>3, <2>2 DEF CallKept, Call
  <2>. QED  BY <1>1, <1>5, <2>2, <2>3 DEF Call
<1>7. /\ Once(wire'[s], "Start")
      /\ \A i \in DOMAIN wire'[s] : wire'[s][i].kind = "Start" =>
            wire'[s][i].n = Begun(s)' /\ Came(s)' < Begun(s)'
  <2>1. Fewer(wire'[s], wire[s], "Start")
    BY DEF Quiet, Forth
  <2>. QED  BY <1>1, <2>1 DEF Begins, Fewer
<1>8. Came(s)' < Begun(s)' => EndsFollow(wire'[s])
  BY <1>1 DEF Begins, Quiet, Forth
<1>9. ASSUME Came(s)' < Begun(s)', Call(s)' \in {"held", "ending", "gone"},
             {s, o} \cap (lost' \cup over') = {}
      PROVE  Has(wire'[s], "Start")
  <2>1. Came(s) < Begun(s) /\ out'[s][Begun(s)].call \in {"held", "ending", "gone"}
    BY <1>1, <1>9 DEF Call
  <2>2. Call(s) \in {"held", "ending", "gone"}
    BY <1>3, <2>1 DEF CallKept, Call
  <2>3. {s, o} \cap (lost \cup over) = {}
    BY <1>9 DEF Lasting
  <2>4. Has(wire[s], "Start")
    BY <2>1, <2>2, <2>3 DEF Begins
  <2>. QED  BY <1>9, <2>4 DEF Quiet, Forth
<1>10. role'[o].is = "receiver" => Came(s)' > 0 /\ role'[o].n = Came(s)'
  BY <1>1 DEF Begins, Quiet, ReceiverQuiet
<1>. QED  BY <1>0, <1>1, <1>4, <1>6, <1>7, <1>8, <1>9, <1>10 DEF Begins

\* The message of the last transfer that is under way fixes its call.
LEMMA QuietTokens ==
    ASSUME LifecycleTypeOK, NEW s \in Sides, Quiet(s)
    PROVE  Tokens(s)' \subseteq Tokens(s)
<1>. DEFINE o == Other(s)
<1>1. \A r \in DOMAIN sinks'[o] : r \in DOMAIN sinks[o] /\ SinkKept(o, r)
  <2>1. sinks[o] \in Seq(SinkPairs) /\ DOMAIN sinks[o] = 1 .. Len(sinks[o])
    BY Lengths DEF Came, LifecycleTypeOK
  <2>. QED  BY Lengths DEF Quiet, ReceiverQuiet, Came
<1>2. /\ Waits(sends'[s], "End") => Waits(sends[s], "End")
      /\ Waits(sends'[o], "Ack") => Waits(sends[o], "Ack")
  BY DEF Quiet, SenderQuiet, ReceiverQuiet, Waits
<1>3. /\ Has(wire'[s], "End") => Has(wire[s], "End")
      /\ Has(wire'[o], "Ack") => Has(wire[o], "Ack")
  BY FewerHas DEF Quiet, Forth, Back
<1>4. \A r \in DOMAIN sinks'[o] : /\ sinks'[o][r].ask # 0 => sinks[o][r].ask # 0
                                  /\ sinks'[o][r].final # 0 => sinks[o][r].final # 0
  BY <1>1 DEF SinkKept
<1>. QED  BY <1>1, <1>2, <1>3, <1>4 DEF Tokens

LEMMA TokenPlaces ==
    ASSUME NEW s \in Sides
    PROVE  /\ Tokens(s) \subseteq Places
           /\ "queued" \in Tokens(s) <=> Waits(sends[s], "End")
           /\ "sent" \in Tokens(s) <=> Has(wire[s], "End")
           /\ "asked" \in Tokens(s) <=>
                \E r \in DOMAIN sinks[Other(s)] : sinks[Other(s)][r].ask # 0
           /\ "known" \in Tokens(s) <=>
                \E r \in DOMAIN sinks[Other(s)] : sinks[Other(s)][r].final # 0
           /\ "answered" \in Tokens(s) <=> Waits(sends[Other(s)], "Ack")
           /\ "acked" \in Tokens(s) <=> Has(wire[Other(s)], "Ack")
BY DEF Tokens, Places

LEMMA QuietWhole ==
    ASSUME LifecycleTypeOK, NEW s \in Sides, Quiet(s), NEW n \in 1 .. Begun(s),
           Whole(s, n), n \in 1 .. Came(s)
    PROVE  Whole(s, n)'
<1>1. CallKept(s, n) /\ SinkKept(Other(s), n)
  BY DEF Quiet, SenderQuiet, ReceiverQuiet, Begun, Came
<1>. QED  BY <1>1 DEF CallKept, SinkKept, Whole

\* A call whose end is under way does not change, as long as its task lives.
LEMMA QuietAlone ==
    ASSUME LifecycleTypeOK, NEW s \in Sides, Alone(s), Quiet(s)
    PROVE  Alone(s)'
<1>1. Tokens(s)' \subseteq Tokens(s)
  BY QuietTokens
<1>2. ASSUME Tokens(s)' # {}
      PROVE  Begun(s)' > 0 /\ Call(s)' \notin {"starting", "held", "ok"}
  <2>1. Begun(s) \in Nat /\ Begun(s) > 0 /\ Begun(s)' = Begun(s)
        /\ Call(s) \notin {"starting", "held", "ok"}
    BY <1>1, <1>2, Lengths DEF Alone, Quiet, SenderQuiet, Begun
  <2>2. CallKept(s, Begun(s))
    BY <2>1 DEF Quiet, SenderQuiet, Begun
  <2>. QED  BY <2>1, <2>2 DEF CallKept, Call
<1>3. \A p, q \in Tokens(s)' : p = q
  BY <1>1 DEF Alone
<1>. QED  BY <1>2, <1>3 DEF Alone

LEMMA QuietNumbered ==
    ASSUME LifecycleTypeOK, NEW s \in Sides, Begins(s), Alone(s), Numbered(s),
           Quiet(s)
    PROVE  Numbered(s)'
<1>. DEFINE o == Other(s)
            l == Begun(s)
<1>1. l \in Nat /\ Begun(s)' = l /\ Came(s)' = Came(s) /\ Came(s) \in Nat
  BY Lengths DEF Quiet, SenderQuiet, ReceiverQuiet, Begun, Came
<1>2. ASSUME Came(s) = l, Whole(s, l), l > 0 PROVE Whole(s, l)'
  BY <1>1, <1>2, QuietWhole
<1>3. ASSUME NEW m \in sends'[s], m.kind = "End"
      PROVE  m.n = l /\ Call(s)' \in {"ending", "gone"}
  <2>1. m \in sends[s] /\ sends'[s] # {}
    BY <1>3 DEF Quiet, SenderQuiet
  <2>2. m.n = l /\ Call(s) \in {"ending", "gone"}
    BY <1>3, <2>1 DEF Numbered
  <2>3. l > 0
    BY <1>3, <2>1, TokenPlaces DEF Waits, Alone
  <2>4. CallKept(s, l)
    BY <1>1, <2>3 DEF Quiet, SenderQuiet, Begun
  <2>. QED  BY <1>1, <2>1, <2>2, <2>4 DEF CallKept, Call
<1>4. /\ Once(wire'[s], "End")
      /\ \A i \in DOMAIN wire'[s] : wire'[s][i].kind = "End" => wire'[s][i].n = l
  <2>1. Fewer(wire'[s], wire[s], "End")
    BY DEF Quiet, Forth
  <2>. QED  BY <2>1 DEF Numbered, Fewer
<1>5. ASSUME NEW r \in DOMAIN sinks'[o]
      PROVE  /\ sinks'[o][r].ask # 0 => r = l /\ sinks'[o][r].ask = l
             /\ sinks'[o][r].final # 0 => r = l /\ sinks'[o][r].final = l
  <2>1. r \in DOMAIN sinks[o] /\ SinkKept(o, r)
    BY <1>5, Lengths DEF Quiet, ReceiverQuiet, Came
  <2>2. /\ sinks[o][r].ask # 0 => r = l /\ sinks[o][r].ask = l
        /\ sinks[o][r].final # 0 => r = l /\ sinks[o][r].final = l
    BY <2>1 DEF Numbered
  <2>. QED  BY <2>1, <2>2 DEF SinkKept
<1>6. ASSUME NEW m \in sends'[o], m.kind = "Ack"
      PROVE  m.n = l /\ Came(s) = l /\ Whole(s, l)'
  <2>1. m \in sends[o]
    BY <1>6 DEF Quiet, ReceiverQuiet
  <2>2. m.n = l /\ Came(s) = l /\ Whole(s, l)
    BY <1>6, <2>1 DEF Numbered
  <2>3. l > 0
    BY <1>6, <2>1, TokenPlaces DEF Waits, Alone
  <2>. QED  BY <1>2, <2>2, <2>3
<1>7. /\ Once(wire'[o], "Ack")
      /\ \A i \in DOMAIN wire'[o] : wire'[o][i].kind = "Ack" =>
            wire'[o][i].n = l /\ Came(s) = l /\ Whole(s, l)' /\ l \in acked'[o]
  <2>1. Fewer(wire'[o], wire[o], "Ack") /\ acked'[o] = acked[o]
    BY DEF Quiet, Back, ReceiverQuiet
  <2>2. Once(wire'[o], "Ack")
    BY <2>1 DEF Fewer, Numbered
  <2>3. ASSUME NEW i \in DOMAIN wire'[o], wire'[o][i].kind = "Ack"
        PROVE  wire'[o][i].n = l /\ Came(s) = l /\ Whole(s, l)' /\ l \in acked'[o]
    <3>1. PICK j \in DOMAIN wire[o] : wire[o][j] = wire'[o][i]
      BY <2>1, <2>3 DEF Fewer
    <3>2. wire'[o][i].n = l /\ Came(s) = l /\ Whole(s, l) /\ l \in acked[o]
      BY <2>3, <3>1 DEF Numbered
    <3>3. l > 0
      BY <2>3, <3>1, TokenPlaces DEF Has, Alone
    <3>. QED  BY <1>2, <2>1, <3>2, <3>3
  <2>. QED  BY <2>2, <2>3
<1>8. /\ \A m \in sends'[s] : m.kind = "End" =>
            m.n = Begun(s)' /\ Call(s)' \in {"ending", "gone"}
      /\ \A i \in DOMAIN wire'[s] : wire'[s][i].kind = "End" => wire'[s][i].n = Begun(s)'
      /\ \A r \in DOMAIN sinks'[o] :
            /\ sinks'[o][r].ask # 0 => r = Begun(s)' /\ sinks'[o][r].ask = Begun(s)'
            /\ sinks'[o][r].final # 0 => r = Begun(s)' /\ sinks'[o][r].final = Begun(s)'
  BY <1>1, <1>3, <1>4, <1>5
<1>9. /\ \A m \in sends'[o] : m.kind = "Ack" =>
            m.n = Begun(s)' /\ Came(s)' = Begun(s)' /\ Whole(s, Begun(s))'
      /\ \A i \in DOMAIN wire'[o] : wire'[o][i].kind = "Ack" =>
            /\ wire'[o][i].n = Begun(s)' /\ Came(s)' = Begun(s)'
            /\ Whole(s, Begun(s))' /\ Begun(s)' \in acked'[o]
  BY <1>1, <1>6, <1>7
<1>. QED  BY <1>4, <1>7, <1>8, <1>9, Zenon DEF Numbered

LEMMA QuietOutcomes ==
    ASSUME LifecycleTypeOK, NEW s \in Sides, Begins(s), Outcomes(s), Quiet(s)
    PROVE  Outcomes(s)'
<1>. DEFINE o == Other(s)
<1>1. /\ Begun(s) \in Nat /\ Begun(s)' = Begun(s)
      /\ Came(s)' = Came(s) /\ Came(s) \in Nat /\ Came(s) <= Begun(s)
  BY Lengths DEF Quiet, SenderQuiet, ReceiverQuiet, Begun, Came, Begins
<1>2. acked'[o] = acked[o]
  BY DEF Quiet, ReceiverQuiet
<1>3. ASSUME NEW n \in 1 .. Begun(s), out'[s][n].call = "ok"
      PROVE  n \in acked'[o] /\ n <= Came(s) /\ Whole(s, n)'
  <2>1. CallKept(s, n)
    BY DEF Quiet, SenderQuiet, Begun
  <2>2. out[s][n].call = "ok"
    BY <1>3, <2>1 DEF CallKept
  <2>3. n \in acked[o] /\ n <= Came(s) /\ Whole(s, n)
    BY <2>2 DEF Outcomes
  <2>. QED  BY <1>1, <1>2, <2>3, QuietWhole
<1>4. ASSUME NEW n \in 1 .. Came(s), sinks'[o][n].rel = "ended"
      PROVE  Whole(s, n)'
  <2>1. SinkKept(o, n) /\ n \in 1 .. Begun(s)
    BY <1>1 DEF Quiet, ReceiverQuiet, Came
  <2>2. Whole(s, n)
    BY <1>4, <2>1 DEF SinkKept, Outcomes
  <2>. QED  BY <2>1, <2>2, QuietWhole
<1>5. acked[o] \subseteq 1 .. Came(s)
  BY DEF Outcomes
<1>. QED  BY <1>1, <1>2, <1>3, <1>4, <1>5 DEF Outcomes

\* A step that does nothing for a side's transfers keeps what is known of them.
LEMMA QuietStep ==
    ASSUME LifecycleTypeOK, NEW s \in Sides, TurnInv(s), Quiet(s), Lasting
    PROVE  TurnInv(s)' /\ Kept(s)
<1>1. Kept(s)
  BY DEF Kept, Quiet, SenderQuiet, ReceiverQuiet, Begun, Came
<1>. QED  BY <1>1, QuietBegins, QuietAlone, QuietNumbered, QuietOutcomes DEF TurnInv

-----------------------------------------------------------------------------
(* Steps that do nothing for either side's transfers.                       *)

AllQuiet ==
    \A t \in Sides : SenderQuiet(t) /\ ReceiverQuiet(t) /\ Forth(t) /\ Back(t)

LEMMA AllQuietStep ==
    ASSUME LifecycleTypeOK, \A t \in Sides : TurnInv(t), AllQuiet, Lasting
    PROVE  \A t \in Sides : TurnInv(t)' /\ Kept(t)
BY Others, QuietStep DEF AllQuiet, Quiet

\* What a side does not touch.
LEMMA SenderSame ==
    ASSUME NEW s \in Sides, UNCHANGED <<out[s], cmd[s], sends[s]>>
    PROVE  SenderQuiet(s)
BY DEF SenderQuiet, CallKept

LEMMA ReceiverSame ==
    ASSUME NEW s \in Sides, UNCHANGED <<sinks[s], role[s], acked[s], sends[s]>>
    PROVE  ReceiverQuiet(s)
BY DEF ReceiverQuiet, SinkKept

LEMMA WireSame ==
    ASSUME NEW s \in Sides, wire'[s] = wire[s]
    PROVE  Forth(s) /\ Back(s)
BY FewerSame DEF Forth, Back

\* A message that starts, ends and answers nothing.
LEMMA WireIdle ==
    ASSUME LifecycleTypeOK, NEW s \in Sides, NEW m \in Messages,
           m.kind \in {"Payload", "Fin"}, wire'[s] = Append(wire[s], m)
    PROVE  Forth(s) /\ Back(s)
<1>1. wire[s] \in Seq(Messages)
  BY DEF LifecycleTypeOK
<1>. QED  BY <1>1, WireAppend DEF Forth, Back

\* Any message but a TransferStart is read.
LEMMA WireRead ==
    ASSUME LifecycleTypeOK, NEW s \in Sides, wire[s] # << >>,
           Head(wire[s]).kind # "Start", wire'[s] = Tail(wire[s])
    PROVE  Forth(s) /\ Back(s)
<1>1. wire[s] \in Seq(Messages)
  BY DEF LifecycleTypeOK
<1>. QED  BY <1>1, WireTail DEF Forth, Back

LEMMA WireLost ==
    ASSUME LifecycleTypeOK, NEW s \in Sides,
           {s, Other(s)} \cap (lost' \cup over') # {},
           wire'[s] = << >> \/ (wire[s] # << >> /\ wire'[s] = <<Head(wire[s])>>)
    PROVE  Forth(s) /\ Back(s)
<1>1. wire[s] \in Seq(Messages)
  BY DEF LifecycleTypeOK
<1>. QED  BY <1>1, WireNone, WireCut DEF Forth, Back

LEMMA Putting ==
    ASSUME LifecycleTypeOK, NEW s \in Sides, NEW m \in Messages,
           NEW q \in [Sides -> Seq(Messages)]
    PROVE  /\ Put(q, s, m)[Other(s)] = q[Other(s)]
           /\ Put(q, s, m)[s] \in {q[s], Append(q[s], m)}
           /\ {s, Other(s)} \cap (lost \cup over) = {} =>
                Put(q, s, m)[s] = Append(q[s], m)
           /\ {s, Other(s)} \cap lost # {} \/ Other(s) \in over =>
                Put(q, s, m)[s] = q[s]
BY Others DEF Put

\* A task that leaves run() lets its own calls fail and the other's messages go.
LEMMA LeaveQuiet ==
    ASSUME LifecycleTypeOK, NEW s \in Sides, Leave(s)
    PROVE  /\ \A t \in Sides : SenderQuiet(t) /\ Forth(t) /\ Back(t)
           /\ s \in over' /\ over \subseteq over'
           /\ role'[s] = Unknown /\ role'[Other(s)] = role[Other(s)]
           /\ sends'[s] = {} /\ sends'[Other(s)] = sends[Other(s)]
           /\ cmd'[s] = "none" /\ cmd'[Other(s)] = cmd[Other(s)]
           /\ out'[Other(s)] = out[Other(s)]
<1>. DEFINE o == Other(s)
            p == Put(wire, s, Msg("Fin", 0))
<1>0. o \in Sides /\ o # s /\ \A t \in Sides : t = s \/ t = o
  BY Others DEF Sides, Other
<1>1. /\ s \in over' /\ over \subseteq over'
      /\ role'[s] = Unknown /\ role'[o] = role[o]
      /\ sends'[s] = {} /\ sends'[o] = sends[o]
      /\ cmd'[s] = "none" /\ cmd'[o] = cmd[o]
      /\ out'[o] = out[o] /\ out'[s] = Failed(s, InCall)
  BY <1>0 DEF Leave, LifecycleTypeOK
<1>2. SenderQuiet(o)
  BY <1>0, <1>1, SenderSame
<1>3. SenderQuiet(s)
  <2>1. /\ Len(Failed(s, InCall)) = Len(out[s])
        /\ DOMAIN out[s] = 1 .. Len(out[s])
    <3>1. Failed(s, InCall) \in Seq(Transfers) /\ out[s] \in Seq(Transfers)
          /\ DOMAIN Failed(s, InCall) = DOMAIN out[s]
      BY FailedType DEF LifecycleTypeOK
    <3>. QED  BY <3>1, LenProperties
  <2>2. ASSUME NEW n \in 1 .. Len(out[s]) PROVE CallKept(s, n)
    <3>1. out[s][n] \in Transfers
      BY <2>1 DEF LifecycleTypeOK
    <3>2. out'[s][n] = IF out[s][n].call \in InCall
                       THEN [out[s][n] EXCEPT !.call = "error"] ELSE out[s][n]
      BY <1>1, <2>1 DEF Failed
    <3>. QED  BY <1>1, <3>1, <3>2 DEF CallKept, Transfers
  <2>. QED  BY <1>1, <2>1, <2>2 DEF SenderQuiet
<1>4. Msg("Fin", 0) \in Messages /\ Msg("Fin", 0).kind = "Fin"
  BY MsgType DEF Msg
<1>5. p[s] \in {wire[s], Append(wire[s], Msg("Fin", 0))} /\ wire \in [Sides -> Seq(Messages)]
      /\ p \in [Sides -> Seq(Messages)]
  BY <1>4, Putting, PutType DEF LifecycleTypeOK
<1>6. wire' = [p EXCEPT ![o] = << >>]
  BY DEF Leave
<1>. HIDE DEF p
<1>7. wire'[o] = << >> /\ wire'[s] = p[s]
  BY <1>0, <1>5, <1>6
<1>8. Forth(s) /\ Back(s)
  BY <1>4, <1>5, <1>7, WireSame, WireIdle
<1>9. Forth(o) /\ Back(o)
  <2>1. Other(o) = s
    BY DEF Sides, Other
  <2>. QED  BY <1>0, <1>1, <1>7, <2>1, WireLost
<1>. QED  BY <1>0, <1>1, <1>2, <1>3, <1>8, <1>9

\* It takes the receiver's role with it and nothing that was acknowledged.
LEMMA LeaveReceiver ==
    ASSUME LifecycleTypeOK, NEW s \in Sides, Leave(s), UNCHANGED <<sinks, acked>>
    PROVE  \A t \in Sides : ReceiverQuiet(t)
<1>1. \A t \in Sides : t = s \/ t = Other(s)
  BY DEF Sides, Other
<1>2. ReceiverQuiet(Other(s))
  BY Others, LeaveQuiet, ReceiverSame
<1>3. ReceiverQuiet(s)
  BY LeaveQuiet DEF ReceiverQuiet, SinkKept, Unknown
<1>. QED  BY <1>1, <1>2, <1>3

\* The sinks when those of one transfer change.
LEMMA SinkTouched ==
    ASSUME LifecycleTypeOK, NEW s \in Sides, NEW n \in DOMAIN sinks[s], NEW e,
           sinks' = [sinks EXCEPT ![s][n] = e]
    PROVE  /\ Len(sinks'[s]) = Len(sinks[s]) /\ DOMAIN sinks'[s] = DOMAIN sinks[s]
           /\ sinks'[s][n] = e
           /\ \A r \in DOMAIN sinks[s] : r # n => sinks'[s][r] = sinks[s][r]
           /\ \A t \in Sides : t # s => sinks'[t] = sinks[t]
           /\ DOMAIN sinks[s] = 1 .. Len(sinks[s]) /\ sinks[s][n] \in SinkPairs
<1>1. sinks[s] \in Seq(SinkPairs) /\ s \in DOMAIN sinks /\ DOMAIN sinks = Sides
  BY DEF LifecycleTypeOK
<1>2. DOMAIN sinks[s] = 1 .. Len(sinks[s]) /\ Len(sinks[s]) \in Nat
      /\ sinks[s][n] \in SinkPairs
  BY <1>1, LenProperties
<1>3. sinks'[s] = [sinks[s] EXCEPT ![n] = e]
      /\ \A t \in Sides : t # s => sinks'[t] = sinks[t]
  BY <1>1
<1>4. sinks[s] \in Seq(SinkPairs \cup {e})
  BY <1>1
<1>5. Len(sinks'[s]) = Len(sinks[s])
  BY <1>3, <1>4, ExceptSeq
<1>. QED  BY <1>2, <1>3, <1>5

\* A sink that is looked at, read or dropped, and asked for no answer.
LEMMA SinkQuiet ==
    ASSUME LifecycleTypeOK, NEW s \in Sides, NEW n \in DOMAIN sinks[s], NEW e,
           sinks' = [sinks EXCEPT ![s][n] = e],
           e.ask \in {0, sinks[s][n].ask}, e.final \in {0, sinks[s][n].final},
           sinks[s][n].full => e.full,
           e.rel = "ended" => sinks[s][n].rel = "ended",
           UNCHANGED <<role, acked, sends>>
    PROVE  \A t \in Sides : ReceiverQuiet(t)
<1>1. \A t \in Sides \ {s} : ReceiverQuiet(t)
  BY SinkTouched, ReceiverSame
<1>2. ReceiverQuiet(s)
  BY SinkTouched DEF ReceiverQuiet, SinkKept
<1>. QED  BY <1>1, <1>2

LEMMA StreamQuiet ==
    ASSUME LifecycleTypeOK, NEW s \in Sides,
           \/ SendPayload(s) \/ SeeDropped(s) \/ Close(s) \/ Block(s)
           \/ HandlePayload(s) \/ HandleEof(s)
    PROVE  AllQuiet /\ Lasting
<1>. DEFINE o == Other(s)
<1>0. o \in Sides /\ o # s /\ \A t \in Sides : t = s \/ t = o
  BY Others DEF Sides, Other
<1>1. CASE SeeDropped(s) \/ Block(s)
  <2>1. UNCHANGED <<out, cmd, sends, sinks, role, acked, wire, over, lost>>
    BY <1>1 DEF SeeDropped, Block
  <2>. QED  BY <2>1, SenderSame, ReceiverSame, WireSame DEF AllQuiet, Lasting
<1>2. CASE Close(s) \/ HandleEof(s)
  <2>1. Leave(s) /\ UNCHANGED <<sinks, acked, lost>>
    BY <1>2 DEF Close, HandleEof
  <2>. QED  BY <2>1, LeaveQuiet, LeaveReceiver DEF AllQuiet, Lasting
<1>3. CASE SendPayload(s)
  <2>. DEFINE p == Put(wire, s, Msg("Payload", 0))
  <2>1. /\ cmd' = [cmd EXCEPT ![s] = "none"]
        /\ wire' = p \/ wire' = wire
        /\ UNCHANGED <<out, sends, sinks, role, acked, over, lost>>
    BY <1>3 DEF SendPayload, Written
  <2>2. Msg("Payload", 0) \in Messages /\ Msg("Payload", 0).kind = "Payload"
    BY MsgType DEF Msg
  <2>3. p[o] = wire[o] /\ p[s] \in {wire[s], Append(wire[s], Msg("Payload", 0))}
    BY <2>2, Putting DEF LifecycleTypeOK
  <2>. HIDE DEF p
  <2>4. \A t \in Sides : Forth(t) /\ Back(t)
    BY <1>0, <2>1, <2>2, <2>3, WireSame, WireIdle
  <2>5. \A t \in Sides : ReceiverQuiet(t)
    BY <2>1, ReceiverSame
  <2>6. \A t \in Sides : SenderQuiet(t)
    <3>1. SenderQuiet(o)
      BY <1>0, <2>1, SenderSame DEF LifecycleTypeOK
    <3>2. cmd'[s] = "none"
      BY <2>1 DEF LifecycleTypeOK
    <3>3. SenderQuiet(s)
      BY <2>1, <3>2 DEF SenderQuiet, CallKept
    <3>. QED  BY <1>0, <3>1, <3>3
  <2>. QED  BY <2>1, <2>4, <2>5, <2>6 DEF AllQuiet, Lasting
<1>4. CASE HandlePayload(s)
  <2>1. /\ wire[o] # << >> /\ Head(wire[o]).kind = "Payload"
        /\ UNCHANGED <<sinks, acked, lost>>
    BY <1>4 DEF HandlePayload, Reads, First
  <2>2. CASE s \in handle
    <3>1. wire' = Rest(s) /\ UNCHANGED <<over, sends, cmd, role, out>>
      BY <1>4, <2>2 DEF HandlePayload, PassOn
    <3>2. wire'[o] = Tail(wire[o]) /\ wire'[s] = wire[s]
      BY <1>0, <3>1 DEF Rest, LifecycleTypeOK
    <3>3. \A t \in Sides : Forth(t) /\ Back(t)
      BY <1>0, <2>1, <3>2, WireSame, WireRead
    <3>. QED  BY <2>1, <3>1, <3>3, SenderSame, ReceiverSame DEF AllQuiet, Lasting
  <2>3. CASE s \notin handle
    <3>1. Leave(s)
      BY <1>4, <2>3 DEF HandlePayload, PassOn
    <3>. QED  BY <2>1, <3>1, LeaveQuiet, LeaveReceiver DEF AllQuiet, Lasting
  <2>. QED  BY <2>2, <2>3
<1>. QED  BY <1>1, <1>2, <1>3, <1>4

LEMMA HandleQuiet ==
    ASSUME LifecycleTypeOK, NEW s \in Sides,
           CallPayload(s) \/ Accept(s) \/ DropHandle(s) \/ \E n \in DOMAIN out[s] : Expire(s, n)
    PROVE  AllQuiet /\ Lasting
<1>. DEFINE o == Other(s)
<1>0. o \in Sides /\ o # s /\ \A t \in Sides : t = s \/ t = o
  BY Others DEF Sides, Other
<1>1. UNCHANGED <<wire, over, lost>>
  BY DEF CallPayload, Accept, DropHandle, Expire
<1>2. \A t \in Sides : Forth(t) /\ Back(t)
  BY <1>1, WireSame
<1>3. CASE CallPayload(s)
  <2>1. /\ cmd' = [cmd EXCEPT ![s] = "payload"]
        /\ UNCHANGED <<out, sends, sinks, role, acked>>
    BY <1>3 DEF CallPayload
  <2>2. cmd'[s] = "payload" /\ cmd'[o] = cmd[o]
    BY <1>0, <2>1 DEF LifecycleTypeOK
  <2>3. SenderQuiet(o) /\ SenderQuiet(s)
    <3>1. SenderQuiet(o)
      BY <1>0, <2>1, <2>2, SenderSame
    <3>. QED  BY <2>1, <2>2, <3>1 DEF SenderQuiet, CallKept
  <2>. QED  BY <1>0, <1>1, <1>2, <2>1, <2>3, ReceiverSame DEF AllQuiet, Lasting
<1>4. CASE Accept(s)
  <2>. DEFINE n == Head(messages[s])
  <2>1. /\ sinks' = sinks \/ sinks' = [sinks EXCEPT ![s][n] = Taken(sinks[s][n])]
        /\ UNCHANGED <<out, cmd, sends, role, acked>>
    BY <1>4 DEF Accept
  <2>. HIDE DEF n
  <2>2. \A t \in Sides : ReceiverQuiet(t)
    <3>1. CASE sinks' = sinks
      BY <2>1, <3>1, ReceiverSame
    <3>2. CASE /\ n \in DOMAIN sinks[s]
               /\ sinks' = [sinks EXCEPT ![s][n] = Taken(sinks[s][n])]
      <4>1. sinks[s] \in Seq(SinkPairs)
        BY DEF LifecycleTypeOK
      <4>2. sinks[s][n] \in SinkPairs
        BY <3>2, <4>1
      <4>3. /\ Taken(sinks[s][n]).ask = sinks[s][n].ask
            /\ Taken(sinks[s][n]).final = sinks[s][n].final
            /\ Taken(sinks[s][n]).full = sinks[s][n].full
            /\ Taken(sinks[s][n]).rel = "ended" => sinks[s][n].rel = "ended"
        BY <4>2 DEF Taken, SinkPairs
      <4>. HIDE DEF Taken
      <4>. QED  BY <2>1, <3>2, <4>3, SinkQuiet
    <3>3. CASE /\ n \notin DOMAIN sinks[s]
               /\ sinks' = [sinks EXCEPT ![s][n] = Taken(sinks[s][n])]
      <4>1. sinks[s] \in Seq(SinkPairs) /\ s \in DOMAIN sinks
        BY DEF LifecycleTypeOK
      <4>2. [sinks[s] EXCEPT ![n] = Taken(sinks[s][n])] = sinks[s]
        BY <3>3, <4>1, sinks[s] = [i \in 1 .. Len(sinks[s]) |-> sinks[s][i]]
      <4>3. \A t \in Sides : sinks'[t] = sinks[t]
        BY <3>3, <4>1, <4>2 DEF LifecycleTypeOK
      <4>. QED  BY <2>1, <4>3, ReceiverSame
    <3>. QED  BY <2>1, <3>1, <3>2, <3>3
  <2>. QED  BY <1>1, <1>2, <2>1, <2>2, SenderSame DEF AllQuiet, Lasting
<1>5. CASE DropHandle(s)
  <2>. DEFINE d(n) == IF sinks[s][n].unrel = "queued"
                      THEN [sinks[s][n] EXCEPT !.rel = "dropped",
                                               !.unrel = "dropped", !.ask = 0]
                      ELSE sinks[s][n]
              q == [n \in DOMAIN sinks[s] |-> d(n)]
  <2>1. sinks' = [sinks EXCEPT ![s] = q] /\ UNCHANGED <<out, cmd, sends, role, acked>>
    BY <1>5, Zenon DEF DropHandle
  <2>2. sinks[s] \in Seq(SinkPairs) /\ DOMAIN sinks[s] = 1 .. Len(sinks[s])
        /\ Len(sinks[s]) \in Nat
    BY LenProperties DEF LifecycleTypeOK
  <2>3. \A n \in 1 .. Len(sinks[s]) :
          /\ d(n) \in SinkPairs
          /\ d(n).ask \in {0, sinks[s][n].ask} /\ d(n).final = sinks[s][n].final
          /\ d(n).full = sinks[s][n].full
          /\ d(n).rel = "ended" => sinks[s][n].rel = "ended"
    <3>. SUFFICES ASSUME NEW n \in 1 .. Len(sinks[s])
                  PROVE  /\ d(n) \in SinkPairs
                         /\ d(n).ask \in {0, sinks[s][n].ask}
                         /\ d(n).final = sinks[s][n].final
                         /\ d(n).full = sinks[s][n].full
                         /\ d(n).rel = "ended" => sinks[s][n].rel = "ended"
      OBVIOUS
    <3>1. sinks[s][n] \in SinkPairs
      BY <2>2
    <3>. QED  BY <3>1 DEF SinkPairs, SinkStates
  <2>. HIDE DEF d
  <2>4. q \in [1 .. Len(sinks[s]) -> SinkPairs]
    BY <2>2, <2>3
  <2>5. q \in Seq(SinkPairs) /\ Len(q) = Len(sinks[s])
    BY <2>2, <2>4
  <2>6. sinks'[s] = q /\ sinks'[o] = sinks[o]
    BY <1>0, <2>1 DEF LifecycleTypeOK
  <2>7. ReceiverQuiet(s)
    <3>1. \A n \in 1 .. Len(sinks[s]) : sinks'[s][n] = d(n)
      BY <2>2, <2>6
    <3>2. Len(sinks'[s]) = Len(sinks[s])
      BY <2>5, <2>6
    <3>. HIDE DEF q
    <3>. QED  BY <2>1, <2>3, <3>1, <3>2 DEF ReceiverQuiet, SinkKept
  <2>8. ReceiverQuiet(o)
    BY <1>0, <2>1, <2>6, ReceiverSame
  <2>. QED  BY <1>0, <1>1, <1>2, <2>1, <2>7, <2>8, SenderSame DEF AllQuiet, Lasting
<1>6. ASSUME NEW n \in DOMAIN out[s], Expire(s, n) PROVE AllQuiet /\ Lasting
  <2>1. /\ out[s][n].call = "awaiting"
        /\ out' = [out EXCEPT ![s] = [out[s] EXCEPT ![n] =
                        [out[s][n] EXCEPT !.call = "error"]]]
        /\ UNCHANGED <<cmd, sends, sinks, role, acked>>
    BY <1>6 DEF Expire
  <2>2. /\ out[s] \in Seq(Transfers) /\ DOMAIN out[s] = 1 .. Len(out[s])
        /\ out[s][n] \in Transfers
        /\ [out[s][n] EXCEPT !.call = "error"] \in Transfers
    <3>1. out[s] \in Seq(Transfers)
      BY DEF LifecycleTypeOK
    <3>2. DOMAIN out[s] = 1 .. Len(out[s]) /\ out[s][n] \in Transfers
      BY <1>6, <3>1, LenProperties
    <3>. QED  BY <3>1, <3>2 DEF Transfers
  <2>3. /\ out'[o] = out[o]
        /\ out'[s] = [out[s] EXCEPT ![n] = [out[s][n] EXCEPT !.call = "error"]]
    BY <1>0, <2>1 DEF LifecycleTypeOK
  <2>4. Len(out'[s]) = Len(out[s])
    BY <1>6, <2>2, <2>3, ExceptSeq
  <2>5. \A m \in 1 .. Len(out[s]) : CallKept(s, m)
    BY <2>1, <2>2, <2>3 DEF CallKept, Transfers
  <2>6. SenderQuiet(s) /\ SenderQuiet(o)
    <3>1. SenderQuiet(o)
      BY <1>0, <2>1, <2>3, SenderSame
    <3>. QED  BY <2>1, <2>4, <2>5, <3>1 DEF SenderQuiet
  <2>. QED  BY <1>0, <1>1, <1>2, <2>1, <2>6, ReceiverSame DEF AllQuiet, Lasting
<1>. QED  BY <1>3, <1>4, <1>5, <1>6

LEMMA SinksQuiet ==
    ASSUME LifecycleTypeOK, NEW s \in Sides, NEW n \in DOMAIN sinks[s],
           \/ RelRead(s, n) \/ UnrelCheck(s, n) \/ UnrelWait(s, n)
           \/ DropRel(s, n) \/ DropUnrel(s, n)
    PROVE  AllQuiet /\ Lasting
<1>1. UNCHANGED <<out, cmd, sends, role, acked, wire, over, lost>>
  BY DEF RelRead, UnrelCheck, UnrelWait, DropRel, DropUnrel
<1>2. sinks[s][n] \in SinkPairs
  <2>1. sinks[s] \in Seq(SinkPairs)
    BY DEF LifecycleTypeOK
  <2>. QED  BY <2>1
<1>3. ASSUME NEW e, sinks' = [sinks EXCEPT ![s][n] = e],
             e.ask \in {0, sinks[s][n].ask}, e.final \in {0, sinks[s][n].final},
             sinks[s][n].full => e.full, e.rel = "ended" => sinks[s][n].rel = "ended"
      PROVE  AllQuiet /\ Lasting
  <2>1. \A t \in Sides : ReceiverQuiet(t)
    BY <1>1, <1>3, SinkQuiet
  <2>. QED  BY <1>1, <2>1, SenderSame, WireSame DEF AllQuiet, Lasting
<1>4. CASE RelRead(s, n)
  <2>. DEFINE e == [sinks[s][n] EXCEPT !.full = TRUE, !.rel = "idle"]
  <2>1. sinks' = [sinks EXCEPT ![s][n] = e]
    BY <1>4 DEF RelRead
  <2>. QED  BY <1>2, <1>3, <2>1 DEF SinkPairs
<1>5. ASSUME NEW u, sinks' = [sinks EXCEPT ![s][n].unrel = u]
      PROVE  AllQuiet /\ Lasting
  <2>. DEFINE e == [sinks[s][n] EXCEPT !.unrel = u]
  <2>1. sinks' = [sinks EXCEPT ![s][n] = e]
    BY <1>5
  <2>. QED  BY <1>2, <1>3, <2>1 DEF SinkPairs
<1>6. CASE UnrelCheck(s, n) \/ UnrelWait(s, n) \/ DropUnrel(s, n)
  BY <1>5, <1>6 DEF UnrelCheck, UnrelWait, DropUnrel
<1>7. CASE DropRel(s, n)
  <2>. DEFINE e == [sinks[s][n] EXCEPT !.rel = "dropped", !.ask = 0, !.final = 0]
  <2>1. sinks' = [sinks EXCEPT ![s][n] = e]
    BY <1>7 DEF DropRel
  <2>. QED  BY <1>2, <1>3, <2>1 DEF SinkPairs
<1>. QED  BY <1>4, <1>6, <1>7

LEMMA LoseQuiet ==
    ASSUME LifecycleTypeOK, NEW s \in Sides, Lose(s)
    PROVE  AllQuiet /\ Lasting
<1>1. UNCHANGED <<out, cmd, sends, sinks, role, acked, over>> /\ lost' = lost \cup {s}
  BY DEF Lose
<1>2. \A t \in Sides : {t, Other(t)} \cap (lost' \cup over') # {}
  <2>1. s \in lost' /\ \A t \in Sides : t = s \/ Other(t) = s
    BY <1>1 DEF Sides, Other
  <2>. QED  BY <2>1
<1>3. ASSUME NEW t \in Sides PROVE Forth(t) /\ Back(t)
  <2>1. \/ wire'[t] = << >>
        \/ wire[t] # << >> /\ wire'[t] = <<Head(wire[t])>>
    BY DEF Lose
  <2>. QED  BY <1>2, <2>1, WireLost
<1>. QED  BY <1>1, <1>3, SenderSame, ReceiverSame DEF AllQuiet, Lasting

-----------------------------------------------------------------------------
(* What the sender does for its transfer.                                   *)

Tokenless(s) ==
    /\ ~Waits(sends[s], "End") /\ ~Has(wire[s], "End")
    /\ \A r \in DOMAIN sinks[Other(s)] :
          sinks[Other(s)][r].ask = 0 /\ sinks[Other(s)][r].final = 0
    /\ ~Waits(sends[Other(s)], "Ack") /\ ~Has(wire[Other(s)], "Ack")

LEMMA NoTokens ==
    ASSUME NEW s \in Sides
    PROVE  Tokens(s) = {} <=> Tokenless(s)
<1>1. Tokenless(s) <=> \A p \in Places : p \notin Tokens(s)
  BY TokenPlaces DEF Tokenless, Places
<1>. QED  BY <1>1, TokenPlaces

\* Before a transfer is given up nothing ends it.
LEMMA NoTokensYet ==
    ASSUME NEW s \in Sides, Alone(s),
           Begun(s) = 0 \/ Call(s) \in {"starting", "held", "ok"}
    PROVE  Tokenless(s)
BY NoTokens DEF Alone

\* Without a message that ends it a transfer has nothing to be numbered.
LEMMA FreshTokens ==
    ASSUME NEW s \in Sides, Tokenless(s)'
    PROVE  Alone(s)' /\ Numbered(s)'
<1>1. Tokens(s)' = {}
  BY DEF Tokens, Tokenless
<1>2. Alone(s)'
  BY <1>1 DEF Alone
<1>3. /\ \A m \in sends'[s] : m.kind # "End"
      /\ \A i \in DOMAIN wire'[s] : wire'[s][i].kind # "End"
      /\ \A m \in sends'[Other(s)] : m.kind # "Ack"
      /\ \A i \in DOMAIN wire'[Other(s)] : wire'[Other(s)][i].kind # "Ack"
      /\ \A r \in DOMAIN sinks'[Other(s)] :
          sinks'[Other(s)][r].ask = 0 /\ sinks'[Other(s)][r].final = 0
  BY DEF Tokenless, Waits, Has
<1>4. Once(wire'[s], "End") /\ Once(wire'[Other(s)], "Ack")
  BY <1>3 DEF Once
<1>5. Numbered(s)'
  BY <1>3, <1>4, Zenon DEF Numbered
<1>. QED  BY <1>2, <1>5

\* A side that may start a transfer has had every other one answered.
LEMMA AllCame ==
    ASSUME LifecycleTypeOK, NEW s \in Sides, TurnInv(s),
           \A n \in DOMAIN out[s] : out[s][n].call = "ok"
    PROVE  Came(s) = Begun(s) /\ Tokenless(s) /\ ~Has(wire[s], "Start")
<1>1. Begun(s) \in Nat /\ Came(s) \in Nat /\ DOMAIN out[s] = 1 .. Begun(s)
  BY Lengths
<1>2. Begun(s) = 0 \/ Call(s) = "ok"
  BY <1>1 DEF Call
<1>3. Tokenless(s)
  BY <1>2, NoTokensYet DEF TurnInv
<1>4. Came(s) = Begun(s)
  <2>1. Came(s) <= Begun(s)
    BY DEF TurnInv, Begins
  <2>2. Begun(s) > 0 => Begun(s) <= Came(s)
    BY <1>1, <1>2 DEF TurnInv, Outcomes, Call
  <2>. QED  BY <1>1, <2>1, <2>2
<1>5. ~Has(wire[s], "Start")
  BY <1>1, <1>4 DEF TurnInv, Begins, Has
<1>. QED  BY <1>3, <1>4, <1>5

LEMMA CallStartTurn ==
    ASSUME LifecycleTypeOK, NEW s \in Sides, TurnInv(s), CallStart(s), Polite
    PROVE  TurnInv(s)' /\ Quiet(Other(s)) /\ Lasting /\ Begun(s)' = Begun(s) + 1
<1>. DEFINE o == Other(s)
            l == Begun(s)
<1>0. /\ l \in Nat /\ Came(s) \in Nat /\ DOMAIN out[s] = 1 .. l
      /\ o \in Sides /\ o # s /\ Other(o) = s
  BY Lengths DEF Sides, Other
<1>1. \A n \in DOMAIN out[s] : out[s][n].call = "ok"
  BY DEF CallStart, MyTurn, Idle
<1>2. Came(s) = l /\ Tokenless(s) /\ ~Has(wire[s], "Start")
  BY <1>1, AllCame
<1>3. PICK k \in Kinds : out' = [out EXCEPT ![s] = Append(out[s],
                [dual |-> k.dual, empty |-> k.empty, call |-> "starting"])]
  BY DEF CallStart
<1>. DEFINE new == [dual |-> k.dual, empty |-> k.empty, call |-> "starting"]
<1>4. /\ cmd' = [cmd EXCEPT ![s] = "start"]
      /\ UNCHANGED <<sends, role, over, lost, wire, sinks, acked>>
  BY DEF CallStart
<1>5. out'[s] = Append(out[s], new) /\ out'[o] = out[o] /\ cmd'[o] = cmd[o]
  BY <1>0, <1>3, <1>4 DEF LifecycleTypeOK
<1>6. /\ Begun(s)' = l + 1 /\ out'[s][l + 1] = new
      /\ \A n \in 1 .. l : out'[s][n] = out[s][n]
  <2>1. out[s] \in Seq(Transfers) /\ new \in Transfers
    <3>1. k \in [dual : BOOLEAN, empty : BOOLEAN]
      BY LifecycleAssumption
    <3>. QED  BY <3>1 DEF Transfers, InCall, LifecycleTypeOK
  <2>. HIDE DEF new
  <2>. QED  BY <1>5, <2>1, AppendProperties DEF Begun
<1>7. Came(s)' = Came(s) /\ Call(s)' = "starting"
  BY <1>4, <1>6 DEF Came, Call
<1>8. Alone(s)' /\ Numbered(s)'
  <2>1. Tokenless(s)'
    BY <1>2, <1>4 DEF Tokenless
  <2>. QED  BY <2>1, FreshTokens
<1>9. Begins(s)'
  <2>1. \A n \in 1 .. Begun(s)' - 1 : out'[s][n].call = "ok"
    BY <1>0, <1>1, <1>6
  <2>2. \A i \in DOMAIN wire'[s] : wire'[s][i].kind \notin {"Start", "End"}
    BY <1>2, <1>4 DEF Tokenless, Has
  <2>3. Once(wire'[s], "Start") /\ EndsFollow(wire'[s]) /\ ~Has(wire'[s], "Start")
    BY <2>2 DEF Once, EndsFollow, Has
  <2>4. role'[o].is = "receiver" => Came(s)' > 0 /\ role'[o].n = Came(s)'
    BY <1>4, <1>7 DEF TurnInv, Begins
  <2>. QED  BY <1>0, <1>2, <1>6, <1>7, <2>1, <2>2, <2>3, <2>4 DEF Begins
<1>10. Outcomes(s)'
  <2>1. \A n \in 1 .. l : Whole(s, n)' <=> Whole(s, n)
    BY <1>4, <1>6 DEF Whole
  <2>2. \A n \in 1 .. Begun(s)' : n \in 1 .. l \/ out'[s][n].call = "starting"
    BY <1>0, <1>6
  <2>3. \A n \in 1 .. Begun(s)' : out'[s][n].call = "ok" =>
            n \in acked'[o] /\ n <= Came(s)' /\ Whole(s, n)'
    BY <1>4, <1>6, <1>7, <2>1, <2>2 DEF TurnInv, Outcomes
  <2>4. \A n \in 1 .. Came(s)' : sinks'[o][n].rel = "ended" => Whole(s, n)'
    BY <1>2, <1>4, <1>7, <2>1 DEF TurnInv, Outcomes
  <2>5. acked'[o] \subseteq 1 .. Came(s)'
    BY <1>4, <1>7 DEF TurnInv, Outcomes
  <2>. QED  BY <2>3, <2>4, <2>5 DEF Outcomes
<1>11. Quiet(o) /\ Lasting
  <2>1. SenderQuiet(o) /\ Forth(o) /\ Back(s)
    BY <1>0, <1>4, <1>5, SenderSame, WireSame
  <2>2. ReceiverQuiet(s)
    BY <1>4, ReceiverSame
  <2>. QED  BY <1>0, <1>4, <2>1, <2>2 DEF Quiet, Lasting
<1>. QED  BY <1>6, <1>8, <1>9, <1>10, <1>11 DEF TurnInv

\* Only the last call of a side may have yet to return.
LEMMA EarlierCalls ==
    ASSUME LifecycleTypeOK, NEW s \in Sides, Begins(s), NEW n \in DOMAIN out[s],
           out[s][n].call # "ok"
    PROVE  n = Begun(s) /\ Begun(s) > 0 /\ Call(s) = out[s][n].call
<1>1. Begun(s) \in Nat /\ n \in 1 .. Begun(s) /\ (n = Begun(s) \/ n \in 1 .. Begun(s) - 1)
  BY Lengths
<1>. QED  BY <1>1 DEF Begins, Call

LEMMA FailedIs ==
    ASSUME LifecycleTypeOK, NEW s \in Sides, NEW calls
    PROVE  /\ Len(Failed(s, calls)) = Begun(s)
           /\ \A n \in 1 .. Begun(s) :
                Failed(s, calls)[n] = IF out[s][n].call \in calls
                                      THEN [out[s][n] EXCEPT !.call = "error"]
                                      ELSE out[s][n]
<1>1. Failed(s, calls) \in Seq(Transfers) /\ DOMAIN Failed(s, calls) = DOMAIN out[s]
  BY FailedType
<1>2. Begun(s) \in Nat /\ DOMAIN out[s] = 1 .. Begun(s)
  BY Lengths
<1>3. Len(Failed(s, calls)) = Begun(s)
  BY <1>1, <1>2, LenProperties
<1>. QED  BY <1>2, <1>3 DEF Failed

\* The call on the last transfer changes, and nothing is acknowledged or read.
LEMMA CallMoves ==
    ASSUME LifecycleTypeOK, NEW s \in Sides, Begins(s), Outcomes(s),
           Begun(s)' = Begun(s),
           \A n \in 1 .. Begun(s) :
                /\ out'[s][n].dual = out[s][n].dual
                /\ out'[s][n].empty = out[s][n].empty
                /\ out'[s][n].call = "ok" => out[s][n].call = "ok",
           UNCHANGED <<sinks[Other(s)], acked[Other(s)]>>
    PROVE  Outcomes(s)' /\ Came(s)' = Came(s)
<1>1. Came(s)' = Came(s) /\ Came(s) \in Nat /\ Begun(s) \in Nat /\ Came(s) <= Begun(s)
  BY Lengths DEF Came, Begins
<1>2. \A n \in 1 .. Begun(s) : Whole(s, n)' <=> Whole(s, n)
  BY DEF Whole
<1>3. \A n \in 1 .. Begun(s)' : out'[s][n].call = "ok" =>
            n \in acked'[Other(s)] /\ n <= Came(s)' /\ Whole(s, n)'
  BY <1>1, <1>2 DEF Outcomes
<1>4. \A n \in 1 .. Came(s)' : sinks'[Other(s)][n].rel = "ended" => Whole(s, n)'
  BY <1>1, <1>2 DEF Outcomes
<1>5. acked'[Other(s)] \subseteq 1 .. Came(s)'
  BY <1>1 DEF Outcomes
<1>. QED  BY <1>1, <1>3, <1>4, <1>5 DEF Outcomes

LEMMA StartTransferTurn ==
    ASSUME LifecycleTypeOK, NEW s \in Sides, TurnInv(s), StartTransfer(s)
    PROVE  TurnInv(s)' /\ Quiet(Other(s)) /\ Lasting /\ Kept(s)
<1>. DEFINE o == Other(s)
            l == Begun(s)
            m == Msg("Start", l)
            p == Put(wire, s, m)
<1>0. /\ l \in Nat /\ Came(s) \in Nat /\ DOMAIN out[s] = 1 .. l
      /\ o \in Sides /\ o # s /\ Other(o) = s /\ Len(out[s]) = l
      /\ out[s] \in Seq(Transfers)
  BY Lengths DEF Sides, Other, Begun, LifecycleTypeOK
<1>1. /\ cmd[s] = "start" /\ cmd' = [cmd EXCEPT ![s] = "none"] /\ s \notin over
      /\ UNCHANGED <<sends, over, lost, sinks, acked>>
  BY DEF StartTransfer, Running
<1>2. /\ Came(s) < l /\ l > 0 /\ l \in 1 .. l /\ Call(s) = "starting"
      /\ ~Has(wire[s], "Start") /\ EndsFollow(wire[s])
  BY <1>0, <1>1 DEF TurnInv, Begins
<1>3. \A n \in 1 .. l : out[s][n].call \in {"ok", "starting"} /\ out[s][n] \in Transfers
  <2>1. \A n \in 1 .. l : out[s][n].call = "ok" \/ n = l
    BY <1>0, EarlierCalls DEF TurnInv
  <2>. QED  BY <1>0, <1>2, <2>1 DEF Call
<1>. DEFINE e(c) == [out[s] EXCEPT ![l] = [out[s][l] EXCEPT !.call = c]]
<1>4. PICK c \in {"held", "error"} :
        /\ out' = [out EXCEPT ![s] = e(c)]
        /\ c = "held" => wire' = p
        /\ c = "error" => wire' = wire
  <2>1. \/ /\ wire' = p
           /\ out' = [out EXCEPT ![s] = [Failed(s, {"awaiting"}) EXCEPT ![l].call = "held"]]
        \/ wire' = wire /\ out' = [out EXCEPT ![s][l].call = "error"]
    BY DEF StartTransfer, Written, Begun
  <2>2. Failed(s, {"awaiting"}) = out[s]
    <3>1. Failed(s, {"awaiting"}) \in Seq(Transfers)
      BY FailedType
    <3>2. ASSUME NEW n \in 1 .. l PROVE Failed(s, {"awaiting"})[n] = out[s][n]
      <4>1. out[s][n].call \notin {"awaiting"}
        BY <1>3
      <4>2. Failed(s, {"awaiting"})[n] = IF out[s][n].call \in {"awaiting"}
                                        THEN [out[s][n] EXCEPT !.call = "error"]
                                        ELSE out[s][n]
        BY FailedIs
      <4>. QED  BY <4>1, <4>2, Zenon
    <3>. QED  BY <1>0, <3>1, <3>2, FailedIs, SeqEqual
  <2>3. CASE /\ wire' = p
             /\ out' = [out EXCEPT ![s] = [Failed(s, {"awaiting"}) EXCEPT ![l].call = "held"]]
    BY <2>2, <2>3
  <2>4. CASE wire' = wire /\ out' = [out EXCEPT ![s][l].call = "error"]
    BY <2>4
  <2>. QED  BY <2>1, <2>3, <2>4
<1>5. /\ out'[o] = out[o] /\ cmd'[o] = cmd[o] /\ cmd'[s] = "none"
      /\ out'[s] = e(c)
  BY <1>0, <1>1, <1>4 DEF LifecycleTypeOK
<1>6. /\ Begun(s)' = l
      /\ \A n \in 1 .. l : /\ out'[s][n].dual = out[s][n].dual
                           /\ out'[s][n].empty = out[s][n].empty
                           /\ out'[s][n].call = IF n = l THEN c ELSE out[s][n].call
  <2>1. [out[s][l] EXCEPT !.call = c] \in Transfers
    BY <1>2, <1>3 DEF Transfers
  <2>2. Len(e(c)) = l
    BY <1>0, <1>2, <2>1, ExceptSeq
  <2>. QED  BY <1>0, <1>2, <1>3, <1>5, <2>2 DEF Begun, Transfers
<1>7. Outcomes(s)' /\ Came(s)' = Came(s) /\ Call(s)' = c
  BY <1>0, <1>1, <1>2, <1>6, CallMoves DEF TurnInv, Call
<1>8. m \in Messages /\ m.kind = "Start" /\ m.n = l
  BY <1>0, MsgType DEF Msg
<1>. HIDE DEF m, e
<1>9. /\ wire[s] \in Seq(Messages)
      /\ wire'[o] = wire[o] /\ wire'[s] \in {wire[s], Append(wire[s], m)}
      /\ c = "held" /\ {s, o} \cap (lost \cup over) = {} => wire'[s] = Append(wire[s], m)
  <2>1. wire \in [Sides -> Seq(Messages)] /\ wire[s] \in Seq(Messages)
    BY DEF LifecycleTypeOK
  <2>2. /\ p[o] = wire[o] /\ p[s] \in {wire[s], Append(wire[s], m)}
        /\ {s, o} \cap (lost \cup over) = {} => p[s] = Append(wire[s], m)
    BY <1>8, <2>1, Putting
  <2>. HIDE DEF p
  <2>. QED  BY <1>4, <2>1, <2>2
<1>. HIDE DEF p
<1>10. /\ Fewer(wire'[s], wire[s], "End") /\ Fewer(wire'[s], wire[s], "Ack")
       /\ EndsFollow(wire'[s]) /\ Once(wire'[s], "Start")
       /\ \A i \in DOMAIN wire'[s] : wire'[s][i].kind = "Start" => wire'[s][i].n = l
       /\ c = "held" /\ {s, o} \cap (lost \cup over) = {} => Has(wire'[s], "Start")
  <2>1. CASE wire'[s] = wire[s]
    BY <1>2, <1>8, <1>9, <2>1, FewerSame, WireAppend DEF Has, Once
  <2>2. CASE wire'[s] = Append(wire[s], m)
    BY <1>2, <1>8, <1>9, <2>2, WireAppend
  <2>. QED  BY <1>9, <2>1, <2>2
<1>11. Alone(s)' /\ Numbered(s)'
  <2>1. Tokenless(s)
    BY <1>2, NoTokensYet DEF TurnInv
  <2>2. ~Has(wire'[s], "End")
    BY <1>10, <2>1, FewerHas DEF Tokenless
  <2>3. Tokenless(s)'
    BY <1>1, <1>9, <2>1, <2>2 DEF Tokenless
  <2>. QED  BY <2>3, FreshTokens
<1>12. Begins(s)'
  <2>1. \A n \in 1 .. Begun(s)' - 1 : out'[s][n].call = "ok"
    BY <1>0, <1>6 DEF TurnInv, Begins
  <2>2. role'[o] = role[o]
    BY <1>0 DEF StartTransfer, LifecycleTypeOK
  <2>. QED  BY <1>1, <1>2, <1>5, <1>6, <1>7, <1>10, <2>1, <2>2 DEF TurnInv, Begins
<1>13. Quiet(o) /\ Lasting
  <2>1. SenderQuiet(o) /\ Forth(o)
    BY <1>0, <1>1, <1>5, <1>9, SenderSame, WireSame
  <2>2. Back(s)
    BY <1>10 DEF Back
  <2>3. ReceiverQuiet(s)
    <3>1. role'[s] = role[s] \/ role'[s].is = "sender"
      BY DEF StartTransfer, Sender, LifecycleTypeOK
    <3>. QED  BY <1>1, <3>1 DEF ReceiverQuiet, SinkKept
  <2>. QED  BY <1>0, <1>1, <2>1, <2>2, <2>3 DEF Quiet, Lasting
<1>. QED  BY <1>6, <1>7, <1>11, <1>12, <1>13 DEF TurnInv, Kept

\* One end under way, in the queue of its task or written.
LEMMA EndAlone ==
    ASSUME NEW s \in Sides, NEW l, l = Begun(s)', l > 0,
           Call(s)' \notin {"starting", "held", "ok"},
           ~Waits(sends'[s], "End") \/ ~Has(wire'[s], "End"),
           \A m \in sends'[s] : m.kind = "End" =>
                m.n = l /\ Call(s)' \in {"ending", "gone"},
           Once(wire'[s], "End"),
           \A i \in DOMAIN wire'[s] : wire'[s][i].kind = "End" => wire'[s][i].n = l,
           \A r \in DOMAIN sinks'[Other(s)] :
                sinks'[Other(s)][r].ask = 0 /\ sinks'[Other(s)][r].final = 0,
           ~Waits(sends'[Other(s)], "Ack"), ~Has(wire'[Other(s)], "Ack")
    PROVE  Alone(s)' /\ Numbered(s)'
<1>1. \A p \in Tokens(s)' : \/ p = "queued" /\ Waits(sends'[s], "End")
                            \/ p = "sent" /\ Has(wire'[s], "End")
  BY DEF Tokens
<1>2. Alone(s)'
  BY <1>1 DEF Alone
<1>3. /\ \A m \in sends'[Other(s)] : m.kind # "Ack"
      /\ \A i \in DOMAIN wire'[Other(s)] : wire'[Other(s)][i].kind # "Ack"
  BY DEF Waits, Has
<1>4. Once(wire'[Other(s)], "Ack")
  BY <1>3 DEF Once
<1>5. Numbered(s)'
  BY <1>3, <1>4, Zenon DEF Numbered
<1>. QED  BY <1>2, <1>5

LEMMA GiveUpTurn ==
    ASSUME LifecycleTypeOK, NEW s \in Sides, TurnInv(s), NEW n, NEW call,
           GiveUpStream(s, n, call), call \in {"ending", "gone"}
    PROVE  TurnInv(s)' /\ Quiet(Other(s)) /\ Lasting /\ Kept(s)
<1>. DEFINE o == Other(s)
            l == Begun(s)
            m == Msg("End", l)
            c == IF call = "ending" /\ s \in over THEN "error" ELSE call
            e == [out[s] EXCEPT ![l] = [out[s][l] EXCEPT !.call = c]]
<1>0. /\ l \in Nat /\ Came(s) \in Nat /\ DOMAIN out[s] = 1 .. l
      /\ o \in Sides /\ o # s /\ Other(o) = s /\ Len(out[s]) = l
      /\ out[s] \in Seq(Transfers)
  BY Lengths DEF Sides, Other, Begun, LifecycleTypeOK
<1>1. /\ n = l /\ l > 0 /\ l \in 1 .. l /\ Call(s) = "held"
  <2>1. n \in DOMAIN out[s] /\ out[s][n].call = "held"
    BY DEF GiveUpStream
  <2>. QED  BY <1>0, <2>1, EarlierCalls DEF TurnInv
<1>2. /\ out' = [out EXCEPT ![s] = e]
      /\ sends' = IF s \in over THEN sends
                  ELSE [sends EXCEPT ![s] = sends[s] \cup {m}]
      /\ UNCHANGED <<cmd, role, over, lost, wire, sinks, acked>>
  BY <1>1 DEF GiveUpStream
<1>3. c \in {"ending", "gone", "error"} /\ (s \notin over => c \in {"ending", "gone"})
  OBVIOUS
<1>4. m \in Messages /\ m.kind = "End" /\ m.n = l
  BY <1>0, MsgType DEF Msg
<1>. HIDE DEF c, m
<1>5. /\ out'[o] = out[o] /\ out'[s] = e /\ sends'[o] = sends[o]
      /\ sends'[s] \subseteq sends[s] \cup (IF s \in over THEN {} ELSE {m})
  BY <1>0, <1>2 DEF LifecycleTypeOK
<1>6. /\ Begun(s)' = l
      /\ \A i \in 1 .. l : /\ out'[s][i].dual = out[s][i].dual
                           /\ out'[s][i].empty = out[s][i].empty
                           /\ out'[s][i].call = IF i = l THEN c ELSE out[s][i].call
  <2>1. out[s][l] \in Transfers
    BY <1>0, <1>1
  <2>2. [out[s][l] EXCEPT !.call = c] \in Transfers
    BY <1>3, <2>1 DEF Transfers, InCall
  <2>3. Len(e) = l
    BY <1>0, <1>1, <2>2, ExceptSeq
  <2>. QED  BY <1>0, <1>1, <1>5, <2>1, <2>3 DEF Begun, Transfers
<1>. HIDE DEF e
<1>7. Outcomes(s)' /\ Came(s)' = Came(s) /\ Call(s)' = c
  BY <1>0, <1>1, <1>2, <1>3, <1>6, CallMoves DEF TurnInv, Call
<1>8. Tokenless(s)
  BY <1>1, NoTokensYet DEF TurnInv
<1>9. Alone(s)' /\ Numbered(s)'
  <2>1. \A i \in sends'[s] : i.kind = "End" => i.n = l /\ c \in {"ending", "gone"}
    BY <1>3, <1>4, <1>5, <1>8 DEF Tokenless, Waits
  <2>2. /\ ~Waits(sends'[o], "Ack") /\ ~Has(wire'[o], "Ack") /\ ~Has(wire'[s], "End")
        /\ \A r \in DOMAIN sinks'[o] : sinks'[o][r].ask = 0 /\ sinks'[o][r].final = 0
    BY <1>2, <1>5, <1>8 DEF Tokenless
  <2>3. /\ Once(wire'[s], "End")
        /\ \A i \in DOMAIN wire'[s] : wire'[s][i].kind = "End" => wire'[s][i].n = l
    BY <2>2 DEF Has, Once
  <2>. QED  BY <1>1, <1>3, <1>6, <1>7, <2>1, <2>2, <2>3, EndAlone
<1>10. Begins(s)'
  <2>1. \A i \in 1 .. Begun(s)' - 1 : out'[s][i].call = "ok"
    <3>. SUFFICES ASSUME NEW i \in 1 .. Begun(s)' - 1 PROVE out'[s][i].call = "ok"
      OBVIOUS
    <3>1. i \in 1 .. l - 1 /\ i \in 1 .. l /\ i # l
      BY <1>0, <1>6
    <3>2. out[s][i].call = "ok"
      BY <3>1 DEF TurnInv, Begins
    <3>. QED  BY <1>6, <3>1, <3>2
  <2>2. cmd'[s] # "start"
    BY <1>1, <1>2 DEF TurnInv, Begins
  <2>. QED  BY <1>1, <1>2, <1>6, <1>7, <2>1, <2>2 DEF TurnInv, Begins
<1>11. Quiet(o) /\ Lasting
  <2>1. SenderQuiet(o) /\ Forth(o) /\ Back(s)
    BY <1>0, <1>2, <1>5, SenderSame, WireSame
  <2>2. \A i \in sends'[s] : i.kind = "Ack" => i \in sends[s]
    BY <1>4, <1>5
  <2>3. ReceiverQuiet(s)
    BY <1>2, <2>2 DEF ReceiverQuiet, SinkKept
  <2>. QED  BY <1>0, <1>2, <2>1, <2>3 DEF Quiet, Lasting
<1>. QED  BY <1>6, <1>7, <1>9, <1>10, <1>11 DEF TurnInv, Kept

\* A message of a known kind and number is that message.
LEMMA OnlyMessage ==
    ASSUME NEW m \in Messages
    PROVE  m = Msg(m.kind, m.n)
BY DEF Messages, Msg

\* The last transfer's one token excludes the others.
LEMMA OnlyToken ==
    ASSUME NEW s \in Sides, Alone(s), NEW p \in Tokens(s)
    PROVE  /\ \A q \in Places : q # p => q \notin Tokens(s)
           /\ Begun(s) > 0 /\ Call(s) \notin {"starting", "held", "ok"}
BY DEF Alone

LEMMA EndTransferTurn ==
    ASSUME LifecycleTypeOK, NEW s \in Sides, TurnInv(s), NEW n, EndTransfer(s, n)
    PROVE  TurnInv(s)' /\ Quiet(Other(s)) /\ Lasting /\ Kept(s)
<1>. DEFINE o == Other(s)
            l == Begun(s)
            m == Msg("End", l)
            F == Failed(s, {"awaiting"})
            p == Put(wire, s, m)
            e(c) == [i \in DOMAIN out[s] |-> IF i = l /\ out[s][i].call = "ending"
                                THEN [out[s][i] EXCEPT !.call = c] ELSE out[s][i]]
<1>0. /\ l \in Nat /\ Came(s) \in Nat /\ DOMAIN out[s] = 1 .. l
      /\ o \in Sides /\ o # s /\ Other(o) = s /\ Len(out[s]) = l
      /\ out[s] \in Seq(Transfers)
  BY Lengths DEF Sides, Other, Begun, LifecycleTypeOK
<1>1. /\ Msg("End", n) \in sends[s] /\ s \notin over
      /\ sends' = [sends EXCEPT ![s] = sends[s] \ {Msg("End", n)}]
      /\ UNCHANGED <<cmd, over, lost, sinks, acked>>
  BY DEF EndTransfer, Running
<1>2. /\ n = l /\ Call(s) \in {"ending", "gone"}
      /\ \A i \in sends[s] : i.kind = "End" => i.n = l
  <2>1. \A i \in sends[s] : i.kind = "End" => i.n = l /\ Call(s) \in {"ending", "gone"}
    BY DEF TurnInv, Numbered
  <2>2. Msg("End", n).kind = "End" /\ Msg("End", n).n = n
    BY DEF Msg
  <2>. QED  BY <1>1, <2>1, <2>2
<1>3. "queued" \in Tokens(s)
  <2>1. Msg("End", n).kind = "End"
    BY DEF Msg
  <2>. QED  BY <1>1, <2>1, TokenPlaces DEF Waits
<1>4. /\ l > 0 /\ l \in 1 .. l
      /\ \A q \in Places : q # "queued" => q \notin Tokens(s)
  BY <1>0, <1>3, OnlyToken DEF TurnInv
<1>5. /\ ~Has(wire[s], "End") /\ ~Waits(sends[o], "Ack") /\ ~Has(wire[o], "Ack")
      /\ \A r \in DOMAIN sinks[o] : sinks[o][r].ask = 0 /\ sinks[o][r].final = 0
  BY <1>4, TokenPlaces DEF Places
<1>6. /\ m \in Messages /\ m.kind = "End" /\ m.n = l
      /\ sends'[o] = sends[o] /\ sends'[s] = sends[s] \ {m}
      /\ ~Waits(sends'[s], "End")
  <2>1. m \in Messages /\ m.kind = "End" /\ m.n = l
    BY <1>0, MsgType DEF Msg
  <2>2. sends'[o] = sends[o] /\ sends'[s] = sends[s] \ {m}
    BY <1>0, <1>1, <1>2 DEF LifecycleTypeOK
  <2>3. \A i \in sends[s] : i.kind = "End" => i = m
    BY <1>2, OnlyMessage DEF LifecycleTypeOK
  <2>. QED  BY <2>1, <2>2, <2>3 DEF Waits
<1>7. \A i \in 1 .. l : /\ F[i] = out[s][i] /\ out[s][i] \in Transfers
                        /\ out[s][i].call = "ending" => i = l
                        /\ out[s][i].call \in {"ok", "ending", "gone"}
  <2>. SUFFICES ASSUME NEW i \in 1 .. l
                PROVE  /\ F[i] = out[s][i] /\ out[s][i] \in Transfers
                       /\ out[s][i].call = "ending" => i = l
                       /\ out[s][i].call \in {"ok", "ending", "gone"}
    OBVIOUS
  <2>1. out[s][i].call = "ok" \/ (i = l /\ out[s][i].call \in {"ending", "gone"})
    BY <1>0, <1>2, EarlierCalls DEF TurnInv
  <2>2. F[i] = IF out[s][i].call \in {"awaiting"}
               THEN [out[s][i] EXCEPT !.call = "error"] ELSE out[s][i]
    BY FailedIs
  <2>3. out[s][i].call \notin {"awaiting"} /\ out[s][i] \in Transfers
    BY <1>0, <2>1
  <2>. QED  BY <2>1, <2>2, <2>3
<1>. HIDE DEF m, F
<1>8. PICK c \in {"awaiting", "error"} :
        /\ out' = [out EXCEPT ![s] = e(c)]
        /\ role'[o] = role[o] /\ role'[s].is = role[s].is /\ role'[s].n = role[s].n
        /\ wire' = wire \/ wire' = p
  <2>1. CASE role[s].is = "sender"
    <3>1. PICK ok \in BOOLEAN :
            /\ role' = [role EXCEPT ![s] = [role[s] EXCEPT !.waiter = n]]
            /\ wire' = IF ok THEN Put(wire, s, Msg("End", n)) ELSE wire
            /\ out' = [out EXCEPT ![s] =
                        [i \in DOMAIN out[s] |->
                          LET d == Failed(s, {"awaiting"})[i] IN
                          IF i = n /\ d.call = "ending"
                          THEN [d EXCEPT !.call = IF ok THEN "awaiting" ELSE "error"]
                          ELSE d]]
      BY <2>1, Zenon DEF EndTransfer, Written
    <3>2. PICK c \in {"awaiting", "error"} : c = IF ok THEN "awaiting" ELSE "error"
      OBVIOUS
    <3>3. wire' = wire \/ wire' = p
      BY <1>2, <3>1 DEF m
    <3>4. [i \in DOMAIN out[s] |-> LET d == Failed(s, {"awaiting"})[i] IN
                          IF i = n /\ d.call = "ending"
                          THEN [d EXCEPT !.call = IF ok THEN "awaiting" ELSE "error"]
                          ELSE d]
            = [i \in DOMAIN out[s] |-> IF i = l /\ F[i].call = "ending"
                          THEN [F[i] EXCEPT !.call = c] ELSE F[i]]
      BY <1>2, <3>2 DEF F
    <3>5. \A i \in DOMAIN out[s] :
            (IF i = l /\ F[i].call = "ending" THEN [F[i] EXCEPT !.call = c] ELSE F[i])
              = IF i = l /\ out[s][i].call = "ending"
                THEN [out[s][i] EXCEPT !.call = c] ELSE out[s][i]
      BY <1>0, <1>7
    <3>6. out' = [out EXCEPT ![s] = e(c)]
      BY <3>1, <3>4, <3>5, Zenon
    <3>7. role'[o] = role[o] /\ role'[s].is = role[s].is /\ role'[s].n = role[s].n
      BY <1>0, <3>1 DEF LifecycleTypeOK, Roles
    <3>. QED  BY <3>3, <3>6, <3>7
  <2>2. CASE role[s].is # "sender"
    <3>1. /\ UNCHANGED <<role, wire>>
          /\ out' = IF out[s][l].call = "ending"
                    THEN [out EXCEPT ![s] = [out[s] EXCEPT ![l] =
                                                [out[s][l] EXCEPT !.call = "error"]]]
                    ELSE out
      BY <1>2, <2>2 DEF EndTransfer
    <3>2. out \in [Sides -> Seq(Transfers)]
      BY DEF LifecycleTypeOK
    <3>3. CASE out[s][l].call = "ending"
      <4>1. e("error") = [out[s] EXCEPT ![l] = [out[s][l] EXCEPT !.call = "error"]]
        BY <1>0, <1>4, <3>3
      <4>2. out' = [out EXCEPT ![s] = e("error")]
        BY <3>1, <3>3, <4>1
      <4>. QED  BY <3>1, <4>2
    <3>4. CASE out[s][l].call # "ending"
      <4>1. e("error") = out[s]
        BY <1>0, <3>4, out[s] = [i \in 1 .. l |-> out[s][i]]
      <4>2. out' = [out EXCEPT ![s] = e("error")]
        BY <3>1, <3>2, <3>4, <4>1
      <4>. QED  BY <3>1, <4>2
    <3>. QED  BY <3>3, <3>4
  <2>. QED  BY <2>1, <2>2
<1>9. out'[o] = out[o] /\ out'[s] = e(c)
  <2>1. out \in [Sides -> Seq(Transfers)]
    BY DEF LifecycleTypeOK
  <2>. HIDE DEF e
  <2>. QED  BY <1>0, <1>8, <2>1
<1>10. /\ Begun(s)' = l
       /\ \A i \in 1 .. l : /\ out'[s][i].dual = out[s][i].dual
                            /\ out'[s][i].empty = out[s][i].empty
                            /\ i # l => out'[s][i].call = out[s][i].call
                            /\ out'[s][i].call = "ok" => out[s][i].call = "ok"
       /\ out'[s][l].call \in {"gone", "awaiting", "error"}
  <2>1. \A i \in 1 .. l : /\ out'[s][i] \in Transfers
                          /\ out'[s][i].dual = out[s][i].dual
                          /\ out'[s][i].empty = out[s][i].empty
                          /\ out'[s][i].call = IF i = l /\ out[s][i].call = "ending"
                                               THEN c ELSE out[s][i].call
    <3>. SUFFICES ASSUME NEW i \in 1 .. l
                  PROVE  /\ out'[s][i] \in Transfers
                         /\ out'[s][i].dual = out[s][i].dual
                         /\ out'[s][i].empty = out[s][i].empty
                         /\ out'[s][i].call = IF i = l /\ out[s][i].call = "ending"
                                              THEN c ELSE out[s][i].call
      OBVIOUS
    <3>1. out'[s][i] = IF i = l /\ out[s][i].call = "ending"
                       THEN [out[s][i] EXCEPT !.call = c] ELSE out[s][i]
      BY <1>0, <1>9
    <3>2. out[s][i] \in Transfers
      BY <1>7
    <3>. QED  BY ONLY <3>1, <3>2, c \in {"awaiting", "error"} DEF Transfers, InCall
  <2>2. e(c) \in [1 .. l -> Transfers]
    <3>1. \A i \in 1 .. l : e(c)[i] \in Transfers
      BY <1>9, <2>1
    <3>. QED  BY <1>0, <3>1
  <2>3. Len(e(c)) = l
    BY <1>0, <2>2
  <2>. HIDE DEF e
  <2>4. \A i \in 1 .. l : i # l => out'[s][i].call = out[s][i].call
    BY <2>1
  <2>5. /\ out'[s][l].call \in {"gone", "awaiting", "error"}
        /\ \A i \in 1 .. l : out'[s][i].call = "ok" => out[s][i].call = "ok"
    BY <1>2, <1>4, <2>1 DEF Call
  <2>. QED  BY <1>9, <2>1, <2>3, <2>4, <2>5 DEF Begun
<1>. HIDE DEF e
<1>11. Outcomes(s)' /\ Came(s)' = Came(s) /\ Call(s)' \in {"gone", "awaiting", "error"}
  BY <1>0, <1>1, <1>4, <1>10, CallMoves DEF TurnInv, Call
<1>12. /\ wire[s] \in Seq(Messages) /\ wire'[o] = wire[o]
       /\ \/ wire'[s] = wire[s]
          \/ wire'[s] = Append(wire[s], m) /\ {s, o} \cap (lost \cup over) = {}
  <2>1. wire \in [Sides -> Seq(Messages)] /\ wire[s] \in Seq(Messages)
    BY DEF LifecycleTypeOK
  <2>2. /\ p[o] = wire[o] /\ p[s] \in {wire[s], Append(wire[s], m)}
        /\ {s, o} \cap lost # {} \/ o \in over => p[s] = wire[s]
    BY <1>6, <2>1, Putting
  <2>. HIDE DEF p
  <2>. QED  BY <1>1, <1>8, <2>1, <2>2
<1>. HIDE DEF p
<1>13. /\ Fewer(wire'[s], wire[s], "Start") /\ Fewer(wire'[s], wire[s], "Ack")
       /\ Has(wire[s], "Start") => Has(wire'[s], "Start")
       /\ Came(s) < l => EndsFollow(wire'[s])
       /\ Once(wire'[s], "End")
       /\ \A i \in DOMAIN wire'[s] : wire'[s][i].kind = "End" => wire'[s][i].n = l
  <2>1. CASE wire'[s] = wire[s]
    BY <1>5, <2>1, FewerSame DEF Has, Once, TurnInv, Begins
  <2>2. CASE wire'[s] = Append(wire[s], m) /\ {s, o} \cap (lost \cup over) = {}
    <3>1. Came(s) < l => Has(wire[s], "Start") /\ EndsFollow(wire[s])
      <4>1. Call(s) \in {"held", "ending", "gone"}
        BY <1>2
      <4>2. {s, Other(s)} \cap (lost \cup over) = {}
        BY <2>2
      <4>3. Begins(s)
        BY DEF TurnInv
      <4>. QED  BY ONLY <4>1, <4>2, <4>3 DEF Begins
    <3>2. /\ Fewer(wire'[s], wire[s], "Start") /\ Fewer(wire'[s], wire[s], "Ack")
          /\ Has(wire[s], "Start") => Has(wire'[s], "Start")
          /\ EndsFollow(wire[s]) /\ Has(wire[s], "Start") => EndsFollow(wire'[s])
      BY <1>6, <1>12, <2>2, WireAppend
    <3>3. /\ Once(wire'[s], "End")
          /\ \A i \in DOMAIN wire'[s] : wire'[s][i].kind = "End" => wire'[s][i] = m
      BY <1>5, <1>6, <1>12, <2>2, WireAppend
    <3>. QED  BY <1>6, <3>1, <3>2, <3>3
  <2>. QED  BY <1>12, <2>1, <2>2
<1>14. Alone(s)' /\ Numbered(s)'
  <2>1. /\ ~Waits(sends'[o], "Ack") /\ ~Has(wire'[o], "Ack")
        /\ \A r \in DOMAIN sinks'[o] : sinks'[o][r].ask = 0 /\ sinks'[o][r].final = 0
    BY <1>1, <1>5, <1>6, <1>12
  <2>2. \A i \in sends'[s] : i.kind # "End"
    BY <1>6 DEF Waits
  <2>. QED  BY <1>4, <1>6, <1>10, <1>11, <1>13, <2>1, <2>2, EndAlone
<1>15. Begins(s)'
  <2>1. \A i \in 1 .. Begun(s)' - 1 : out'[s][i].call = "ok"
    <3>. SUFFICES ASSUME NEW i \in 1 .. Begun(s)' - 1 PROVE out'[s][i].call = "ok"
      OBVIOUS
    <3>1. i \in 1 .. l - 1 /\ i \in 1 .. l /\ i # l
      BY <1>0, <1>10
    <3>2. out[s][i].call = "ok"
      BY <3>1 DEF TurnInv, Begins
    <3>. QED  BY <1>10, <3>1, <3>2
  <2>2. cmd'[s] # "start"
    BY <1>1, <1>2 DEF TurnInv, Begins
  <2>3. /\ Once(wire'[s], "Start")
        /\ \A i \in DOMAIN wire'[s] : wire'[s][i].kind = "Start" =>
              wire'[s][i].n = l /\ Came(s) < l
    BY <1>13 DEF Fewer, TurnInv, Begins
  <2>4. Came(s) < l /\ {s, o} \cap (lost \cup over) = {} => Has(wire'[s], "Start")
    BY <1>2, <1>13 DEF TurnInv, Begins
  <2>. QED  BY <1>1, <1>8, <1>10, <1>11, <1>13, <2>1, <2>2, <2>3, <2>4 DEF TurnInv, Begins
<1>16. Quiet(o) /\ Lasting
  <2>1. SenderQuiet(o) /\ Forth(o)
    BY <1>0, <1>1, <1>6, <1>9, <1>12, SenderSame, WireSame
  <2>2. Back(s)
    BY <1>13 DEF Back
  <2>3. ReceiverQuiet(s)
    BY <1>1, <1>6, <1>8 DEF ReceiverQuiet, SinkKept
  <2>. QED  BY <1>0, <1>1, <2>1, <2>2, <2>3 DEF Quiet, Lasting
<1>. QED  BY <1>10, <1>11, <1>14, <1>15, <1>16 DEF TurnInv, Kept

-----------------------------------------------------------------------------
(* What the receiver does for it.                                           *)

LEMMA HeadIs ==
    ASSUME LifecycleTypeOK, NEW s \in Sides, wire[s] # << >>
    PROVE  /\ 1 \in DOMAIN wire[s] /\ Head(wire[s]) = wire[s][1]
           /\ Has(wire[s], Head(wire[s]).kind)
           /\ wire[s] \in Seq(Messages)
<1>1. wire[s] \in Seq(Messages)
  BY DEF LifecycleTypeOK
<1>2. 1 \in DOMAIN wire[s] /\ Head(wire[s]) = wire[s][1]
  BY <1>1, HeadTailProperties, EmptySeq, LenProperties
<1>. QED  BY <1>1, <1>2 DEF Has

\* The calls that wait when a task's role changes fail.
LEMMA AwaitingQuiet ==
    ASSUME LifecycleTypeOK, NEW s \in Sides, UNCHANGED <<cmd[s], sends[s]>>,
           out'[s] = Failed(s, {"awaiting"})
    PROVE  SenderQuiet(s)
<1>1. /\ Len(out'[s]) = Len(out[s]) /\ Begun(s) = Len(out[s])
      /\ DOMAIN out[s] = 1 .. Len(out[s])
  BY FailedIs, Lengths DEF Begun
<1>2. ASSUME NEW n \in 1 .. Len(out[s]) PROVE CallKept(s, n)
  <2>1. out[s][n] \in Transfers
    BY <1>1 DEF LifecycleTypeOK
  <2>2. out'[s][n] = IF out[s][n].call \in {"awaiting"}
                     THEN [out[s][n] EXCEPT !.call = "error"] ELSE out[s][n]
    BY <1>1, FailedIs
  <2>. QED  BY <2>1, <2>2 DEF CallKept, Transfers
<1>. QED  BY <1>1, <1>2 DEF SenderQuiet

\* The TransferStart of r's peer s is read.
LEMMA HandleStartDoes ==
    ASSUME LifecycleTypeOK, NEW s \in Sides, NEW r \in Sides, r = Other(s),
           HandleStart(r)
    PROVE  LET n == Head(wire[s]).n IN
           /\ wire[s] # << >> /\ Head(wire[s]).kind = "Start"
           /\ UNCHANGED <<out[s], cmd[s], sends[s], role[s], acked, lost, sinks[s]>>
           /\ sends'[r] \subseteq sends[r] /\ over \subseteq over'
           /\ wire'[s] = Tail(wire[s]) \/ wire'[s] = << >>
           /\ Forth(r) /\ Back(r) /\ SenderQuiet(r)
           /\ role'[r] \in {Receiver(n), Unknown}
           /\ sinks'[r] = Append(sinks[r], NewSink(r, out[s][n]))
<1>. DEFINE n == Head(wire[s]).n
<1>0. /\ Other(r) = s /\ s # r /\ First(r) = Head(wire[s])
      /\ \A t \in Sides : t = s \/ t = r
  BY DEF Sides, Other, First
<1>1. /\ wire[s] # << >> /\ Head(wire[s]).kind = "Start"
      /\ sinks' = [sinks EXCEPT ![r] = Append(sinks[r], NewSink(r, out[s][n]))]
      /\ UNCHANGED <<acked, lost>>
      /\ PassOn(r, n)
      /\ r \in handle => /\ role' = [role EXCEPT ![r] = Receiver(n)]
                         /\ out' = [out EXCEPT ![r] = Failed(r, {"awaiting"})]
  BY <1>0, Zenon DEF HandleStart, Reads
<1>. HIDE DEF n
<1>2. /\ sinks'[r] = Append(sinks[r], NewSink(r, out[s][n]))
      /\ sinks'[s] = sinks[s]
  BY <1>0, <1>1 DEF LifecycleTypeOK
<1>3. CASE r \in handle
  <2>1. /\ wire' = [wire EXCEPT ![s] = Tail(wire[s])]
        /\ UNCHANGED <<over, sends, cmd>>
    BY <1>0, <1>1, <1>3 DEF PassOn, Rest
  <2>2. wire'[s] = Tail(wire[s]) /\ wire'[r] = wire[r]
    BY <1>0, <2>1 DEF LifecycleTypeOK
  <2>3. role'[r] = Receiver(n) /\ role'[s] = role[s]
    BY <1>0, <1>1, <1>3 DEF LifecycleTypeOK
  <2>4. out'[r] = Failed(r, {"awaiting"}) /\ out'[s] = out[s]
    BY <1>0, <1>1, <1>3 DEF LifecycleTypeOK
  <2>5. SenderQuiet(r) /\ Forth(r) /\ Back(r)
    BY <2>1, <2>2, <2>4, AwaitingQuiet, WireSame
  <2>. QED  BY <1>1, <1>2, <2>1, <2>2, <2>3, <2>4, <2>5 DEF n
<1>4. CASE r \notin handle
  <2>1. Leave(r)
    BY <1>1, <1>4 DEF PassOn
  <2>2. wire'[s] = << >>
    <3>1. Put(wire, r, Msg("Fin", 0)) \in [Sides -> Seq(Messages)]
      BY PutType, MsgType DEF LifecycleTypeOK
    <3>2. wire' = [Put(wire, r, Msg("Fin", 0)) EXCEPT ![s] = << >>]
      BY <1>0, <2>1 DEF Leave
    <3>. QED  BY <3>1, <3>2
  <2>3. /\ UNCHANGED <<out[s], cmd[s], sends[s], role[s]>>
        /\ sends'[r] = {} /\ over \subseteq over' /\ role'[r] = Unknown
        /\ SenderQuiet(r) /\ Forth(r) /\ Back(r)
    BY <1>0, <2>1, LeaveQuiet
  <2>. QED  BY <1>1, <1>2, <2>2, <2>3 DEF n
<1>. QED  BY <1>3, <1>4

LEMMA HandleStartTurn ==
    ASSUME LifecycleTypeOK, NEW s \in Sides, TurnInv(s), HandleStart(Other(s))
    PROVE  TurnInv(s)' /\ Quiet(Other(s)) /\ Lasting /\ Kept(s)
<1>. DEFINE r == Other(s)
            l == Begun(s)
            n == Head(wire[s]).n
            e == NewSink(r, out[s][l])
<1>0. /\ l \in Nat /\ Came(s) \in Nat /\ DOMAIN out[s] = 1 .. l
      /\ r \in Sides /\ r # s /\ Other(r) = s
      /\ DOMAIN sinks[r] = 1 .. Came(s) /\ Came(s) = Len(sinks[r])
      /\ sinks[r] \in Seq(SinkPairs)
  BY Lengths DEF Sides, Other, Came, LifecycleTypeOK
<1>1. /\ wire[s] # << >> /\ Head(wire[s]).kind = "Start"
      /\ UNCHANGED <<out[s], cmd[s], sends[s], role[s], acked, lost, sinks[s]>>
      /\ sends'[r] \subseteq sends[r] /\ over \subseteq over'
      /\ wire'[s] = Tail(wire[s]) \/ wire'[s] = << >>
      /\ Forth(r) /\ Back(r) /\ SenderQuiet(r)
      /\ role'[r] \in {Receiver(n), Unknown}
      /\ sinks'[r] = Append(sinks[r], NewSink(r, out[s][n]))
  BY <1>0, HandleStartDoes
<1>2. /\ 1 \in DOMAIN wire[s] /\ Head(wire[s]) = wire[s][1]
      /\ Has(wire[s], "Start") /\ wire[s] \in Seq(Messages)
  BY <1>1, HeadIs
<1>3. /\ n = l /\ Came(s) < l /\ l = Came(s) + 1 /\ cmd[s] # "start"
      /\ Once(wire[s], "Start")
  BY <1>0, <1>1, <1>2 DEF TurnInv, Begins
<1>4. /\ \A k : Fewer(wire'[s], wire[s], k)
      /\ ~Has(wire'[s], "Start")
  BY <1>1, <1>2, <1>3, WireTail, WireNone
<1>5. e.ask = 0 /\ e.final = 0 /\ e.rel # "ended" /\ e \in SinkPairs
  BY DEF NewSink, SinkState, SinkPairs, SinkStates
<1>6. sinks'[r] = Append(sinks[r], e)
  BY <1>1, <1>3
<1>. HIDE DEF n, e
<1>7. /\ Came(s)' = l /\ Begun(s)' = l /\ Call(s)' = Call(s)
      /\ sinks'[r][l] = e /\ DOMAIN sinks'[r] = 1 .. l
      /\ \A i \in 1 .. Came(s) : sinks'[r][i] = sinks[r][i]
      /\ \A i \in 1 .. l : i = l \/ i \in 1 .. Came(s)
  <2>1. /\ Len(sinks'[r]) = Came(s) + 1 /\ sinks'[r][Came(s) + 1] = e
        /\ DOMAIN sinks'[r] = 1 .. Came(s) + 1
        /\ \A i \in 1 .. Came(s) : sinks'[r][i] = sinks[r][i]
    BY <1>0, <1>5, <1>6, AppendProperties
  <2>2. \A i \in 1 .. l : i = l \/ i \in 1 .. Came(s)
    BY <1>0, <1>3
  <2>. QED  BY <1>1, <1>3, <2>1, <2>2 DEF Came, Begun, Call
<1>8. Begins(s)'
  <2>1. /\ \A i \in DOMAIN wire'[s] : wire'[s][i].kind # "Start"
        /\ Once(wire'[s], "Start")
    BY <1>4 DEF Has, Once
  <2>2. role'[r].is = "receiver" => l > 0 /\ role'[r].n = l
    BY <1>0, <1>1, <1>3 DEF Receiver, Unknown
  <2>3. \A i \in 1 .. l - 1 : out'[s][i].call = "ok"
    BY <1>1 DEF TurnInv, Begins
  <2>. QED  BY <1>0, <1>1, <1>3, <1>4, <1>7, <2>1, <2>2, <2>3 DEF Begins
<1>9. /\ \A m \in sends'[r] : m.kind # "Ack"
      /\ \A i \in DOMAIN wire'[r] : wire'[r][i].kind # "Ack"
  <2>1. \A m \in sends[r] : m.kind # "Ack"
    BY <1>0, <1>3 DEF TurnInv, Numbered
  <2>2. ~Has(wire[r], "Ack")
    BY <1>0, <1>3 DEF TurnInv, Numbered, Has
  <2>3. ~Has(wire'[r], "Ack")
    BY <1>1, <2>2, FewerHas DEF Back
  <2>. QED  BY <1>1, <2>1, <2>3 DEF Has
<1>10. \A i \in DOMAIN sinks'[r] : sinks'[r][i].ask = 0 /\ sinks'[r][i].final = 0
  <2>1. \A i \in DOMAIN sinks[r] : sinks[r][i].ask = 0 /\ sinks[r][i].final = 0
    BY <1>0, <1>3 DEF TurnInv, Numbered
  <2>. QED  BY <1>0, <1>5, <1>7, <2>1
<1>11. Alone(s)' /\ Numbered(s)'
  <2>1. CASE l = 0 \/ Call(s) \in {"starting", "held", "ok"}
    <3>1. ~Waits(sends[s], "End") /\ ~Has(wire[s], "End")
      BY <2>1, NoTokensYet DEF TurnInv, Tokenless
    <3>2. ~Waits(sends'[s], "End") /\ ~Has(wire'[s], "End")
      BY <1>1, <1>4, <3>1, FewerHas
    <3>3. Tokenless(s)'
      BY <1>9, <1>10, <3>2 DEF Tokenless, Waits, Has
    <3>. QED  BY <3>3, FreshTokens
  <2>2. CASE l > 0 /\ Call(s) \notin {"starting", "held", "ok"}
    <3>1. ~Waits(sends[s], "End") \/ ~Has(wire[s], "End")
      BY TokenPlaces DEF TurnInv, Alone
    <3>2. ~Waits(sends'[s], "End") \/ ~Has(wire'[s], "End")
      BY <1>1, <1>4, <3>1, FewerHas
    <3>3. Once(wire'[s], "End")
      BY <1>4 DEF TurnInv, Numbered, Fewer
    <3>4. \A i \in DOMAIN wire'[s] : wire'[s][i].kind = "End" => wire'[s][i].n = l
      BY <1>4 DEF TurnInv, Numbered, Fewer
    <3>5. \A m \in sends'[s] : m.kind = "End" =>
                m.n = l /\ Call(s)' \in {"ending", "gone"}
      BY <1>1, <1>7 DEF TurnInv, Numbered
    <3>6. ~Waits(sends'[r], "Ack") /\ ~Has(wire'[r], "Ack")
      BY <1>9 DEF Waits, Has
    <3>. QED  BY <1>7, <1>10, <2>2, <3>2, <3>3, <3>4, <3>5, <3>6, EndAlone
  <2>. QED  BY <1>0, <2>1, <2>2
<1>12. Outcomes(s)'
  <2>1. \A i \in 1 .. Came(s) : Whole(s, i)' <=> Whole(s, i)
    BY <1>1, <1>7 DEF Whole
  <2>2. ASSUME NEW i \in 1 .. l, out'[s][i].call = "ok"
        PROVE  i \in acked'[r] /\ i <= l /\ Whole(s, i)'
    <3>1. i \in acked[r] /\ i <= Came(s) /\ Whole(s, i)
      BY <1>1, <2>2 DEF TurnInv, Outcomes
    <3>2. i \in 1 .. Came(s)
      BY <1>0, <3>1
    <3>. QED  BY <1>1, <2>1, <3>1, <3>2
  <2>3. acked'[r] \subseteq 1 .. l
    BY <1>0, <1>1, <1>3 DEF TurnInv, Outcomes
  <2>4. ASSUME NEW i \in 1 .. l, sinks'[r][i].rel = "ended" PROVE Whole(s, i)'
    <3>1. i \in 1 .. Came(s) /\ sinks[r][i].rel = "ended"
      BY <1>5, <1>7, <2>4
    <3>. QED  BY <2>1, <3>1 DEF TurnInv, Outcomes
  <2>. QED  BY <1>7, <2>2, <2>3, <2>4 DEF Outcomes
<1>13. Quiet(r) /\ Lasting
  <2>1. ReceiverQuiet(s)
    BY <1>1, ReceiverSame
  <2>2. Back(s)
    BY <1>4 DEF Back
  <2>. QED  BY <1>0, <1>1, <2>1, <2>2 DEF Quiet, Lasting
<1>. QED  BY <1>7, <1>8, <1>11, <1>12, <1>13 DEF TurnInv, Kept

\* The sinks after end().
LEMMA EndDoes ==
    ASSUME LifecycleTypeOK, NEW s \in Sides, End(s)
    PROVE  /\ Len(sinks'[s]) = Len(sinks[s])
           /\ \A n \in 1 .. Len(sinks[s]) :
                /\ sinks'[s][n].ask = sinks[s][n].ask
                /\ sinks'[s][n].final = sinks[s][n].final
                /\ sinks'[s][n].full = sinks[s][n].full
<1>1. /\ sinks[s] \in Seq(SinkPairs) /\ Len(sinks[s]) \in Nat
      /\ DOMAIN sinks[s] = 1 .. Len(sinks[s])
      /\ \A n \in 1 .. Len(sinks[s]) : sinks[s][n] \in SinkPairs
  BY LenProperties DEF LifecycleTypeOK
<1>2. sinks'[s] = [n \in DOMAIN sinks[s] |-> Woken(sinks[s][n])]
  BY DEF End, LifecycleTypeOK
<1>3. \A n \in 1 .. Len(sinks[s]) :
        /\ Woken(sinks[s][n]) \in SinkPairs
        /\ Woken(sinks[s][n]).ask = sinks[s][n].ask
        /\ Woken(sinks[s][n]).final = sinks[s][n].final
        /\ Woken(sinks[s][n]).full = sinks[s][n].full
  <2>. SUFFICES ASSUME NEW n \in 1 .. Len(sinks[s])
                PROVE  /\ Woken(sinks[s][n]) \in SinkPairs
                       /\ Woken(sinks[s][n]).ask = sinks[s][n].ask
                       /\ Woken(sinks[s][n]).final = sinks[s][n].final
                       /\ Woken(sinks[s][n]).full = sinks[s][n].full
    OBVIOUS
  <2>1. sinks[s][n] \in SinkPairs
    BY <1>1
  <2>. QED  BY <2>1 DEF Woken, SinkPairs, SinkStates
<1>4. sinks'[s] \in [1 .. Len(sinks[s]) -> SinkPairs]
  BY <1>1, <1>2, <1>3
<1>5. Len(sinks'[s]) = Len(sinks[s])
  BY <1>1, <1>4
<1>6. \A n \in 1 .. Len(sinks[s]) : sinks'[s][n] = Woken(sinks[s][n])
  BY <1>1, <1>2
<1>. QED  BY <1>3, <1>5, <1>6

\* An answer is written, or its task leaves.
LEMMA AcknowledgeDoes ==
    ASSUME LifecycleTypeOK, NEW s \in Sides, NEW r \in Sides, r = Other(s), NEW l \in Nat,
           NEW unread \in [Sides -> Seq(Messages)], unread[r] = wire[r],
           NEW queue \in [Sides -> SUBSET Messages], queue[r] \subseteq sends[r],
           queue[s] = sends[s], lost' = lost,
           Acknowledge(r, l, unread, queue)
    PROVE  /\ UNCHANGED <<out[s], cmd[s], sends[s], role[s], sinks[s], acked[s]>>
           /\ wire'[s] \in {unread[s], << >>}
           /\ sends'[r] \subseteq queue[r]
           /\ role'[r] \in {role[r], Unknown}
           /\ SenderQuiet(r) /\ Forth(r) /\ Lasting
           /\ \/ acked'[r] = acked[r] /\ Back(r)
              \/ /\ acked'[r] = acked[r] \cup {l}
                 /\ wire'[r] \in {wire[r], Append(wire[r], Msg("Ack", l))}
<1>. DEFINE m == Msg("Ack", l)
            p == Put(unread, r, m)
<1>0. /\ Other(r) = s /\ s # r /\ \A t \in Sides : t = s \/ t = r
  BY DEF Sides, Other
<1>1. m \in Messages /\ m.kind = "Ack"
  BY MsgType DEF Msg
<1>2. End(r) /\ sinks'[s] = sinks[s]
  BY <1>0 DEF Acknowledge, End, LifecycleTypeOK
<1>3. \/ /\ wire' = p /\ sends' = queue
         /\ acked' = [acked EXCEPT ![r] = acked[r] \cup {l}]
         /\ UNCHANGED <<over, role, cmd, out>>
      \/ Leave(r) /\ UNCHANGED acked
  BY DEF Acknowledge
<1>4. /\ p[s] = unread[s] /\ p[r] \in {wire[r], Append(wire[r], m)}
  BY <1>0, <1>1, Putting
<1>. HIDE DEF p, m
<1>5. CASE /\ wire' = p /\ sends' = queue
           /\ acked' = [acked EXCEPT ![r] = acked[r] \cup {l}]
           /\ UNCHANGED <<over, role, cmd, out>>
  <2>1. acked'[r] = acked[r] \cup {l} /\ acked'[s] = acked[s]
    BY <1>0, <1>5 DEF LifecycleTypeOK
  <2>2. SenderQuiet(r)
    BY <1>5 DEF SenderQuiet, CallKept
  <2>3. Forth(r)
    <3>1. CASE wire'[r] = wire[r]
      BY <3>1, WireSame
    <3>2. CASE wire'[r] = Append(wire[r], m)
      <4>1. wire[r] \in Seq(Messages)
        BY DEF LifecycleTypeOK
      <4>2. /\ Fewer(wire'[r], wire[r], "Start") /\ Fewer(wire'[r], wire[r], "End")
            /\ Has(wire[r], "Start") => Has(wire'[r], "Start")
            /\ EndsFollow(wire[r]) => EndsFollow(wire'[r])
        BY <1>1, <3>2, <4>1, WireAppend
      <4>. QED  BY <4>2 DEF Forth
    <3>. QED  BY <1>4, <1>5, <3>1, <3>2
  <2>. QED  BY <1>0, <1>2, <1>4, <1>5, <2>1, <2>2, <2>3 DEF Lasting, m
<1>6. CASE Leave(r) /\ UNCHANGED acked
  <2>1. wire'[s] = << >>
    <3>1. Put(wire, r, Msg("Fin", 0)) \in [Sides -> Seq(Messages)]
      BY PutType, MsgType DEF LifecycleTypeOK
    <3>2. wire' = [Put(wire, r, Msg("Fin", 0)) EXCEPT ![s] = << >>]
      BY <1>0, <1>6 DEF Leave
    <3>. QED  BY <3>1, <3>2
  <2>2. /\ UNCHANGED <<out[s], cmd[s], sends[s], role[s]>>
        /\ sends'[r] = {} /\ over \subseteq over' /\ role'[r] = Unknown
        /\ SenderQuiet(r) /\ Forth(r) /\ Back(r)
    BY <1>0, <1>6, LeaveQuiet
  <2>. QED  BY <1>2, <1>6, <2>1, <2>2 DEF Lasting
<1>. QED  BY <1>3, <1>5, <1>6

\* Everything the other side has heard of before the last transfer was read.
LEMMA EarlierWhole ==
    ASSUME LifecycleTypeOK, NEW s \in Sides, Begins(s), Outcomes(s),
           Begun(s) > 0 => Whole(s, Begun(s))
    PROVE  \A n \in 1 .. Begun(s) : Whole(s, n)
<1>. SUFFICES ASSUME NEW n \in 1 .. Begun(s) PROVE Whole(s, n)
  OBVIOUS
<1>1. Begun(s) \in Nat /\ (n = Begun(s) \/ n \in 1 .. Begun(s) - 1)
  BY Lengths
<1>2. CASE n \in 1 .. Begun(s) - 1
  BY <1>2 DEF Begins, Outcomes
<1>. QED  BY <1>1, <1>2

\* The last transfer of s, read, is answered by a message that is written.
LEMMA AcknowledgeTurn ==
    ASSUME LifecycleTypeOK, NEW s \in Sides, NEW r \in Sides, r = Other(s),
           TurnInv(s), lost' = lost,
           NEW unread \in [Sides -> Seq(Messages)], unread[r] = wire[r],
           \A k : Fewer(unread[s], wire[s], k), ~Has(unread[s], "End"),
           NEW queue \in [Sides -> SUBSET Messages], queue[r] \subseteq sends[r],
           queue[s] = sends[s], ~Waits(queue[r], "Ack"),
           Begun(s) > 0, Came(s) = Begun(s), Whole(s, Begun(s)),
           Call(s) \notin {"starting", "held", "ok"},
           ~Waits(sends[s], "End"), ~Has(wire[r], "Ack"),
           \A i \in DOMAIN sinks[r] : sinks[r][i].ask = 0 /\ sinks[r][i].final = 0,
           Acknowledge(r, Begun(s), unread, queue)
    PROVE  TurnInv(s)' /\ Quiet(r) /\ Lasting /\ Kept(s)
<1>. DEFINE l == Begun(s)
            m == Msg("Ack", l)
<1>0. /\ l \in Nat /\ DOMAIN out[s] = 1 .. l /\ l \in 1 .. l
      /\ r # s /\ Other(r) = s
      /\ DOMAIN sinks[r] = 1 .. l /\ l = Len(sinks[r])
      /\ wire[r] \in Seq(Messages)
  <2>1. l \in Nat /\ DOMAIN out[s] = 1 .. l /\ DOMAIN sinks[r] = 1 .. Came(s)
    BY Lengths
  <2>2. Other(r) = s /\ r # s
    BY DEF Sides, Other
  <2>3. l \in 1 .. l
    BY <2>1
  <2>4. wire[r] \in Seq(Messages) /\ Len(sinks[r]) = Came(s)
    BY DEF LifecycleTypeOK, Came
  <2>. QED  BY <2>1, <2>2, <2>3, <2>4
<1>1. /\ UNCHANGED <<out[s], cmd[s], sends[s], role[s], sinks[s], acked[s]>>
      /\ wire'[s] \in {unread[s], << >>}
      /\ sends'[r] \subseteq queue[r]
      /\ role'[r] \in {role[r], Unknown}
      /\ SenderQuiet(r) /\ Forth(r) /\ Lasting
      /\ \/ acked'[r] = acked[r] /\ Back(r)
         \/ /\ acked'[r] = acked[r] \cup {l}
            /\ wire'[r] \in {wire[r], Append(wire[r], m)}
  <2>. HIDE DEF l
  <2>1. Acknowledge(r, l, unread, queue)
    BY DEF l
  <2>2. /\ LifecycleTypeOK /\ s \in Sides /\ r \in Sides /\ r = Other(s) /\ l \in Nat
        /\ unread \in [Sides -> Seq(Messages)] /\ unread[r] = wire[r]
        /\ queue \in [Sides -> SUBSET Messages] /\ queue[r] \subseteq sends[r]
        /\ queue[s] = sends[s] /\ lost' = lost
    BY <1>0
  <2>3. /\ UNCHANGED <<out[s], cmd[s], sends[s], role[s], sinks[s], acked[s]>>
        /\ wire'[s] \in {unread[s], << >>}
        /\ sends'[r] \subseteq queue[r]
        /\ role'[r] \in {role[r], Unknown}
        /\ SenderQuiet(r) /\ Forth(r) /\ Lasting
    BY ONLY <2>1, <2>2, AcknowledgeDoes
  <2>4. \/ acked'[r] = acked[r] /\ Back(r)
        \/ /\ acked'[r] = acked[r] \cup {l}
           /\ wire'[r] \in {wire[r], Append(wire[r], Msg("Ack", l))}
    BY ONLY <2>1, <2>2, AcknowledgeDoes
  <2>. QED  BY ONLY <2>3, <2>4
<1>2. /\ Len(sinks'[r]) = l
      /\ \A n \in 1 .. l : /\ sinks'[r][n].ask = 0
                           /\ sinks'[r][n].final = 0
                           /\ sinks'[r][n].full = sinks[r][n].full
  <2>1. End(r)
    BY DEF Acknowledge
  <2>. QED  BY <1>0, <2>1, EndDoes
<1>3. m \in Messages /\ m.kind = "Ack" /\ m.n = l
  BY <1>0, MsgType DEF Msg
<1>. HIDE DEF m
<1>4. /\ Came(s)' = l /\ Begun(s)' = l /\ Call(s)' = Call(s)
      /\ \A n \in 1 .. l : Whole(s, n)'
  <2>1. \A n \in 1 .. l : Whole(s, n)
    BY EarlierWhole DEF TurnInv
  <2>2. \A n \in 1 .. l : Whole(s, n)' <=> Whole(s, n)
    BY <1>1, <1>2 DEF Whole
  <2>. QED  BY <1>1, <1>2, <2>1, <2>2 DEF Came, Begun, Call
<1>5. /\ \A k : Fewer(wire'[s], wire[s], k)
      /\ ~Has(wire'[s], "End")
  <2>1. CASE wire'[s] = unread[s]
    BY <2>1
  <2>2. CASE wire'[s] = << >>
    BY <2>2, WireNone
  <2>. QED  BY <1>1, <2>1, <2>2
<1>6. Begins(s)'
  <2>1. ~Has(wire[s], "Start") /\ cmd[s] # "start"
    BY <1>0 DEF TurnInv, Begins, Has
  <2>2. ~Has(wire'[s], "Start")
    BY <1>5, <2>1, FewerHas
  <2>3. /\ \A i \in DOMAIN wire'[s] : wire'[s][i].kind # "Start"
        /\ Once(wire'[s], "Start")
    BY <2>2 DEF Has, Once
  <2>4. role'[r].is = "receiver" => l > 0 /\ role'[r].n = l
    BY <1>0, <1>1 DEF Unknown, TurnInv, Begins
  <2>5. \A i \in 1 .. l - 1 : out'[s][i].call = "ok"
    BY <1>1 DEF TurnInv, Begins
  <2>. QED  BY <1>0, <1>1, <1>4, <2>1, <2>3, <2>4, <2>5 DEF Begins
<1>7. /\ \A i \in sends'[s] : i.kind # "End"
      /\ \A i \in sends'[r] : i.kind # "Ack"
      /\ \A i \in DOMAIN wire'[s] : wire'[s][i].kind # "End"
      /\ \A i \in DOMAIN sinks'[r] : sinks'[r][i].ask = 0 /\ sinks'[r][i].final = 0
  <2>1. DOMAIN sinks'[r] = 1 .. l
    <3>1. sinks'[r] \in Seq(SinkPairs)
      BY EndType DEF Acknowledge
    <3>. QED  BY <1>2, <3>1, LenProperties
  <2>. QED  BY <1>1, <1>2, <1>5, <2>1 DEF Waits, Has
<1>8. Alone(s)'
  <2>1. \A p \in Tokens(s)' : p = "acked"
    BY <1>0, <1>7 DEF Tokens, Waits, Has
  <2>. QED  BY <1>4, <2>1 DEF Alone
<1>9. /\ Once(wire'[r], "Ack")
      /\ \A i \in DOMAIN wire'[r] : wire'[r][i].kind = "Ack" =>
            wire'[r][i].n = l /\ l \in acked'[r]
  <2>1. CASE Back(r) \/ wire'[r] = wire[r]
    <3>1. ~Has(wire'[r], "Ack")
      BY <2>1, FewerHas DEF Back
    <3>. QED  BY <3>1 DEF Has, Once
  <2>2. CASE wire'[r] = Append(wire[r], m) /\ acked'[r] = acked[r] \cup {l}
    <3>1. /\ Once(wire'[r], "Ack")
          /\ \A i \in DOMAIN wire'[r] : wire'[r][i].kind = "Ack" => wire'[r][i] = m
      BY <1>0, <1>3, <2>2, WireAppend
    <3>. QED  BY <1>3, <2>2, <3>1
  <2>. QED  BY <1>1, <2>1, <2>2
<1>10. Numbered(s)'
  <2>1. Once(wire'[s], "End")
    BY <1>7 DEF Once
  <2>. QED  BY <1>0, <1>4, <1>7, <1>9, <2>1, Zenon DEF Numbered
<1>11. Outcomes(s)'
  <2>1. acked[r] \subseteq acked'[r] /\ acked'[r] \subseteq 1 .. l
    BY <1>0, <1>1 DEF TurnInv, Outcomes
  <2>2. \A n \in 1 .. l : out'[s][n].call = "ok" => n \in acked[r] /\ n <= l
    BY <1>0, <1>1 DEF TurnInv, Outcomes
  <2>. QED  BY <1>0, <1>4, <2>1, <2>2 DEF Outcomes
<1>12. Quiet(r) /\ Lasting
  <2>1. ReceiverQuiet(s)
    BY <1>1, ReceiverSame
  <2>2. Back(s)
    BY <1>5 DEF Back
  <2>. QED  BY <1>0, <1>1, <2>1, <2>2 DEF Quiet
<1>. QED  BY <1>4, <1>6, <1>8, <1>10, <1>11, <1>12 DEF TurnInv, Kept

LEMMA SendAckTurn ==
    ASSUME LifecycleTypeOK, NEW s \in Sides, TurnInv(s), NEW n,
           SendAck(Other(s), n)
    PROVE  TurnInv(s)' /\ Quiet(Other(s)) /\ Lasting /\ Kept(s)
<1>. DEFINE r == Other(s)
            l == Begun(s)
            m == Msg("Ack", l)
            queue == [sends EXCEPT ![r] = sends[r] \ {m}]
<1>0. /\ l \in Nat /\ Came(s) \in Nat /\ r \in Sides /\ r # s /\ Other(r) = s
  BY Lengths DEF Sides, Other
<1>1. /\ Msg("Ack", n) \in sends[r] /\ lost' = lost
      /\ Acknowledge(r, n, wire, [sends EXCEPT ![r] = sends[r] \ {Msg("Ack", n)}])
  BY DEF SendAck
<1>2. Msg("Ack", n).kind = "Ack" /\ Msg("Ack", n).n = n
  BY DEF Msg
<1>3. n = l /\ Came(s) = l /\ Whole(s, l)
  BY <1>1, <1>2 DEF TurnInv, Numbered
<1>4. "answered" \in Tokens(s)
  BY <1>1, <1>2, TokenPlaces DEF Waits
<1>5. /\ l > 0 /\ Call(s) \notin {"starting", "held", "ok"}
      /\ \A q \in Places : q # "answered" => q \notin Tokens(s)
  BY <1>4, OnlyToken DEF TurnInv
<1>6. /\ ~Waits(sends[s], "End") /\ ~Has(wire[s], "End") /\ ~Has(wire[r], "Ack")
      /\ \A i \in DOMAIN sinks[r] : sinks[r][i].ask = 0 /\ sinks[r][i].final = 0
  BY <1>5, TokenPlaces DEF Places
<1>7. /\ queue \in [Sides -> SUBSET Messages] /\ queue[s] = sends[s]
      /\ queue[r] = sends[r] \ {m} /\ wire \in [Sides -> Seq(Messages)]
  BY <1>0 DEF LifecycleTypeOK
<1>8. ~Waits(queue[r], "Ack")
  <2>1. \A i \in sends[r] : i.kind = "Ack" => i.n = l /\ i \in Messages
    BY <1>0 DEF TurnInv, Numbered, LifecycleTypeOK
  <2>2. \A i \in sends[r] : i.kind = "Ack" => i = m
    BY <2>1, OnlyMessage
  <2>. QED  BY <1>7, <2>2 DEF Waits
<1>9. Acknowledge(r, l, wire, queue)
  BY <1>1, <1>3
<1>10. \A k : Fewer(wire[s], wire[s], k)
  BY FewerSame
<1>. HIDE DEF m, queue
<1>. QED  BY <1>0, <1>1, <1>3, <1>5, <1>6, <1>7, <1>8, <1>9, <1>10, AcknowledgeTurn

\* One end read by the other side, that its reliable sink has yet to take or
\* to answer, or that it has answered.
LEMMA AskAlone ==
    ASSUME NEW s \in Sides, NEW r \in Sides, r = Other(s),
           NEW l, l = Begun(s)', l > 0,
           Call(s)' \notin {"starting", "held", "ok"},
           ~Waits(sends'[s], "End"), ~Has(wire'[s], "End"), ~Has(wire'[r], "Ack"),
           \A i \in DOMAIN sinks'[r] :
                /\ sinks'[r][i].ask # 0 => i = l /\ sinks'[r][i].ask = l
                /\ sinks'[r][i].final # 0 => i = l /\ sinks'[r][i].final = l,
           \A m \in sends'[r] : m.kind = "Ack" =>
                m.n = l /\ Came(s)' = l /\ Whole(s, l)',
           \/ /\ \A i \in DOMAIN sinks'[r] : sinks'[r][i].final = 0
              /\ ~Waits(sends'[r], "Ack")
           \/ /\ \A i \in DOMAIN sinks'[r] : sinks'[r][i].ask = 0
              /\ ~Waits(sends'[r], "Ack")
           \/ \A i \in DOMAIN sinks'[r] : sinks'[r][i].ask = 0 /\ sinks'[r][i].final = 0
    PROVE  Alone(s)' /\ Numbered(s)'
<1>1. \A p \in Tokens(s)' :
        \/ p = "asked" /\ \E i \in DOMAIN sinks'[r] : sinks'[r][i].ask # 0
        \/ p = "known" /\ \E i \in DOMAIN sinks'[r] : sinks'[r][i].final # 0
        \/ p = "answered" /\ Waits(sends'[r], "Ack")
  BY DEF Tokens
<1>2. \A p, q \in Tokens(s)' : p = q
  BY <1>1
<1>3. Alone(s)'
  BY <1>2 DEF Alone
<1>4. /\ \A m \in sends'[s] : m.kind # "End"
      /\ \A i \in DOMAIN wire'[s] : wire'[s][i].kind # "End"
      /\ \A i \in DOMAIN wire'[r] : wire'[r][i].kind # "Ack"
  BY DEF Waits, Has
<1>5. Once(wire'[s], "End") /\ Once(wire'[r], "Ack")
  BY <1>4 DEF Once
<1>6. Numbered(s)'
  BY <1>4, <1>5, Zenon DEF Numbered
<1>. QED  BY <1>3, <1>6

\* A TransferEnd that s has sent and r reads is that of the last transfer, of
\* which r has heard.
LEMMA EndIs ==
    ASSUME LifecycleTypeOK, NEW s \in Sides, NEW r \in Sides, r = Other(s),
           TurnInv(s), wire[s] # << >>, Head(wire[s]).kind = "End"
    PROVE  LET l == Begun(s) IN
           /\ Head(wire[s]).n = l /\ Came(s) = l /\ l > 0
           /\ Call(s) \notin {"starting", "held", "ok"}
           /\ ~Waits(sends[s], "End") /\ ~Waits(sends[r], "Ack") /\ ~Has(wire[r], "Ack")
           /\ \A i \in DOMAIN sinks[r] : sinks[r][i].ask = 0 /\ sinks[r][i].final = 0
           /\ wire[s] \in Seq(Messages)
           /\ \A k : Fewer(Tail(wire[s]), wire[s], k)
           /\ ~Has(Tail(wire[s]), "End")
           /\ ~Has(wire[s], "Start") /\ cmd[s] # "start"
<1>. DEFINE l == Begun(s)
<1>1. /\ 1 \in DOMAIN wire[s] /\ Head(wire[s]) = wire[s][1]
      /\ Has(wire[s], "End") /\ wire[s] \in Seq(Messages)
  BY HeadIs
<1>2. "sent" \in Tokens(s)
  BY <1>1, TokenPlaces
<1>3. /\ l > 0 /\ Call(s) \notin {"starting", "held", "ok"}
      /\ \A q \in Places : q # "sent" => q \notin Tokens(s)
  BY <1>2, OnlyToken DEF TurnInv
<1>4. /\ ~Waits(sends[s], "End") /\ ~Waits(sends[r], "Ack") /\ ~Has(wire[r], "Ack")
      /\ \A i \in DOMAIN sinks[r] : sinks[r][i].ask = 0 /\ sinks[r][i].final = 0
  BY <1>3, TokenPlaces DEF Places
<1>5. Head(wire[s]).n = l /\ Once(wire[s], "End")
  BY <1>1 DEF TurnInv, Numbered
<1>6. /\ \A k : Fewer(Tail(wire[s]), wire[s], k)
      /\ ~Has(Tail(wire[s]), "End")
      /\ ~EndsFollow(wire[s])
  BY <1>1, <1>5, WireTail
<1>7. ~(Came(s) < l)
  BY <1>6 DEF TurnInv, Begins
<1>8. Came(s) = l
  BY <1>7, Lengths DEF TurnInv, Begins
<1>9. ~Has(wire[s], "Start") /\ cmd[s] # "start"
  BY <1>7 DEF TurnInv, Begins, Has
<1>. QED  BY <1>1, <1>3, <1>4, <1>5, <1>6, <1>8, <1>9

\* It goes to the pipeline of the transfer's reliable sink.
LEMMA AskTurn ==
    ASSUME LifecycleTypeOK, NEW s \in Sides, NEW r \in Sides, r = Other(s),
           TurnInv(s), wire[s] # << >>, Head(wire[s]).kind = "End",
           sinks' = Ask(r, Begun(s), Begun(s)),
           wire' = [wire EXCEPT ![s] = Tail(wire[s])],
           UNCHANGED <<out, sends, role, over, cmd, acked, lost>>
    PROVE  TurnInv(s)' /\ Quiet(r) /\ Lasting /\ Kept(s)
<1>. DEFINE l == Begun(s)
            e == [sinks[r][l] EXCEPT !.ask = l]
<1>0. /\ l \in Nat /\ DOMAIN out[s] = 1 .. l
      /\ r # s /\ Other(r) = s
      /\ DOMAIN sinks[r] = 1 .. Came(s)
  BY Lengths DEF Sides, Other
<1>1. /\ Came(s) = l /\ l > 0
      /\ Call(s) \notin {"starting", "held", "ok"}
      /\ ~Waits(sends[s], "End") /\ ~Waits(sends[r], "Ack") /\ ~Has(wire[r], "Ack")
      /\ \A i \in DOMAIN sinks[r] : sinks[r][i].ask = 0 /\ sinks[r][i].final = 0
      /\ \A k : Fewer(Tail(wire[s]), wire[s], k)
      /\ ~Has(Tail(wire[s]), "End")
      /\ ~Has(wire[s], "Start") /\ cmd[s] # "start"
  BY EndIs
<1>2. wire'[s] = Tail(wire[s]) /\ wire'[r] = wire[r]
  BY <1>0 DEF LifecycleTypeOK
<1>3. l \in DOMAIN sinks[r] /\ sinks' = [sinks EXCEPT ![r][l] = e]
  BY <1>0, <1>1 DEF Ask
<1>4. sinks[r][l] \in SinkPairs
  <2>1. sinks[r] \in Seq(SinkPairs)
    BY DEF LifecycleTypeOK
  <2>. QED  BY <1>3, <2>1
<1>5. /\ e.ask = l /\ e.final = sinks[r][l].final
      /\ e.full = sinks[r][l].full /\ e.rel = sinks[r][l].rel
  BY <1>4 DEF SinkPairs
<1>. HIDE DEF e
<1>6. /\ Len(sinks'[r]) = Len(sinks[r]) /\ DOMAIN sinks'[r] = DOMAIN sinks[r]
      /\ sinks'[r][l] = e /\ sinks'[s] = sinks[s]
      /\ \A i \in DOMAIN sinks[r] : i # l => sinks'[r][i] = sinks[r][i]
  <2>1. LifecycleTypeOK /\ r \in Sides /\ s \in Sides /\ s # r
    BY <1>0
  <2>2. l \in DOMAIN sinks[r] /\ sinks' = [sinks EXCEPT ![r][l] = e]
    BY <1>3
  <2>. HIDE DEF l
  <2>3. Len(sinks'[r]) = Len(sinks[r]) /\ DOMAIN sinks'[r] = DOMAIN sinks[r]
    BY ONLY <2>1, <2>2, SinkTouched
  <2>4. sinks'[r][l] = e
    BY <2>1, <2>2 DEF LifecycleTypeOK
  <2>5. /\ \A i \in DOMAIN sinks[r] : i # l => sinks'[r][i] = sinks[r][i]
        /\ \A t \in Sides : t # r => sinks'[t] = sinks[t]
    BY ONLY <2>1, <2>2, SinkTouched
  <2>. QED  BY <2>1, <2>3, <2>4, <2>5
<1>7. /\ Came(s)' = l /\ Begun(s)' = l /\ Call(s)' = Call(s)
      /\ \A n \in 1 .. l : /\ Whole(s, n)' <=> Whole(s, n)
                           /\ sinks'[r][n].rel = sinks[r][n].rel
  <2>1. \A n \in 1 .. l : /\ sinks'[r][n].full = sinks[r][n].full
                          /\ sinks'[r][n].rel = sinks[r][n].rel
    BY <1>0, <1>1, <1>5, <1>6
  <2>. QED  BY <1>1, <1>6, <2>1 DEF Came, Begun, Call, Whole
<1>8. Begins(s)'
  <2>1. ~Has(wire'[s], "Start")
    BY <1>1, <1>2, FewerHas
  <2>2. /\ \A i \in DOMAIN wire'[s] : wire'[s][i].kind # "Start"
        /\ Once(wire'[s], "Start")
    BY <2>1 DEF Has, Once
  <2>3. role'[r].is = "receiver" => l > 0 /\ role'[r].n = l
    BY <1>1 DEF TurnInv, Begins
  <2>4. \A i \in 1 .. l - 1 : out'[s][i].call = "ok"
    BY DEF TurnInv, Begins
  <2>. QED  BY <1>0, <1>1, <1>7, <2>2, <2>3, <2>4 DEF Begins
<1>9. Alone(s)' /\ Numbered(s)'
  <2>1. \A i \in DOMAIN sinks'[r] :
            /\ sinks'[r][i].ask # 0 => i = l /\ sinks'[r][i].ask = l
            /\ sinks'[r][i].final = 0
    BY <1>1, <1>3, <1>5, <1>6
  <2>2. ~Has(wire'[s], "End") /\ ~Has(wire'[r], "Ack")
    BY <1>1, <1>2
  <2>3. \A m \in sends'[r] : m.kind # "Ack"
    BY <1>1 DEF Waits
  <2>4. ~Waits(sends'[s], "End") /\ ~Waits(sends'[r], "Ack")
    BY <1>1
  <2>. QED  BY <1>1, <1>7, <2>1, <2>2, <2>3, <2>4, AskAlone
<1>10. Outcomes(s)'
  BY <1>1, <1>7 DEF TurnInv, Outcomes
<1>11. Quiet(r) /\ Lasting
  <2>1. SenderQuiet(r) /\ ReceiverQuiet(s)
    BY <1>6, SenderSame, ReceiverSame
  <2>2. Forth(r) /\ Back(s)
    BY <1>1, <1>2, WireSame DEF Back
  <2>. QED  BY <1>0, <2>1, <2>2 DEF Quiet, Lasting
<1>. QED  BY <1>7, <1>8, <1>9, <1>10, <1>11 DEF TurnInv, Kept

LEMMA HandleEndTurn ==
    ASSUME LifecycleTypeOK, NEW s \in Sides, NEW r \in Sides, r = Other(s),
           TurnInv(s), HandleEnd(r)
    PROVE  TurnInv(s)' /\ Quiet(r) /\ Lasting /\ Kept(s)
<1>. DEFINE l == Begun(s)
            n == First(r).n
<1>0. /\ l \in Nat /\ r # s /\ Other(r) = s
      /\ First(r) = Head(wire[s]) /\ Rest(r) = [wire EXCEPT ![s] = Tail(wire[s])]
      /\ \A t \in Sides : t = s \/ t = r
  BY Lengths DEF Sides, Other, First, Rest
<1>1. wire[s] # << >> /\ Head(wire[s]).kind = "End" /\ lost' = lost
  BY <1>0 DEF HandleEnd, Reads
<1>2. /\ n = l /\ Came(s) = l /\ l > 0
      /\ Call(s) \notin {"starting", "held", "ok"}
      /\ ~Waits(sends[s], "End") /\ ~Waits(sends[r], "Ack") /\ ~Has(wire[r], "Ack")
      /\ \A i \in DOMAIN sinks[r] : sinks[r][i].ask = 0 /\ sinks[r][i].final = 0
      /\ \A k : Fewer(Tail(wire[s]), wire[s], k)
      /\ ~Has(Tail(wire[s]), "End")
  BY <1>0, <1>1, EndIs
<1>3. role[r].is = "receiver" => role[r].n = l
  BY <1>2 DEF TurnInv, Begins
<1>4. /\ Rest(r) \in [Sides -> Seq(Messages)]
      /\ Rest(r)[s] = Tail(wire[s]) /\ Rest(r)[r] = wire[r]
  BY <1>0, <1>1, RestType DEF LifecycleTypeOK
<1>. DEFINE x == role[r].n
<1>5. \/ /\ ~(role[r].is = "receiver")
         /\ wire' = Rest(r)
         /\ UNCHANGED <<out, sends, role, over, cmd, sinks, acked>>
      \/ /\ Leave(r)
         /\ UNCHANGED <<sinks, acked>>
      \/ /\ ToPipeline(r)
         /\ sinks' = Ask(r, x, n)
         /\ wire' = Rest(r)
         /\ UNCHANGED <<out, sends, role, over, cmd, acked>>
      \/ /\ role[r].is = "receiver"
         /\ ~ToPipeline(r)
         /\ Acknowledge(r, n, Rest(r), sends)
  <2>. HIDE DEF n
  <2>1. CASE ~(role[r].is = "receiver")
    BY <2>1 DEF HandleEnd, ToPipeline, n
  <2>2. CASE role[r].is = "receiver" /\ ToPipeline(r) /\ sinks[r][x].rel = "dropped"
    BY <2>2 DEF HandleEnd, n
  <2>3. CASE role[r].is = "receiver" /\ ToPipeline(r) /\ sinks[r][x].rel # "dropped"
    BY <2>3 DEF HandleEnd, n
  <2>4. CASE role[r].is = "receiver" /\ ~ToPipeline(r)
    BY <2>4 DEF HandleEnd, n
  <2>. QED  BY <2>1, <2>2, <2>3, <2>4
<1>6. CASE /\ wire' = Rest(r)
           /\ UNCHANGED <<out, sends, role, over, cmd, sinks, acked>>
  <2>1. /\ wire'[s] = Tail(wire[s]) /\ wire'[r] = wire[r]
        /\ Head(wire[s]).kind # "Start"
    BY <1>1, <1>4, <1>6
  <2>2. Forth(s) /\ Back(s) /\ Forth(r) /\ Back(r)
    <3>1. Forth(s) /\ Back(s)
      BY <1>1, <2>1, WireRead
    <3>. QED  BY <2>1, <3>1, WireSame
  <2>3. AllQuiet /\ Lasting
    BY <1>0, <1>1, <1>6, <2>2, SenderSame, ReceiverSame DEF AllQuiet, Lasting
  <2>. QED  BY <1>0, <2>3, QuietStep DEF AllQuiet, Quiet
<1>7. CASE Leave(r) /\ UNCHANGED <<sinks, acked>>
  <2>1. AllQuiet /\ Lasting
    <3>1. /\ \A t \in Sides : SenderQuiet(t) /\ Forth(t) /\ Back(t)
          /\ over \subseteq over'
      BY <1>7, LeaveQuiet
    <3>2. \A t \in Sides : ReceiverQuiet(t)
      BY <1>7, LeaveReceiver
    <3>. QED  BY <1>1, <3>1, <3>2 DEF AllQuiet, Lasting
  <2>. QED  BY <1>0, <2>1, QuietStep DEF AllQuiet, Quiet
<1>8. CASE /\ ToPipeline(r)
           /\ sinks' = Ask(r, x, n)
           /\ wire' = Rest(r)
           /\ UNCHANGED <<out, sends, role, over, cmd, acked>>
  <2>1. /\ sinks' = Ask(r, l, l)
        /\ wire' = [wire EXCEPT ![s] = Tail(wire[s])]
    BY <1>0, <1>2, <1>3, <1>8 DEF ToPipeline
  <2>. HIDE DEF l, n, x
  <2>. QED  BY <1>1, <1>8, <2>1, AskTurn DEF l
<1>9. CASE /\ role[r].is = "receiver"
           /\ ~ToPipeline(r)
           /\ Acknowledge(r, n, Rest(r), sends)
  <2>1. Whole(s, l)
    BY <1>0, <1>2, <1>3, <1>9 DEF ToPipeline, Whole
  <2>2. Acknowledge(r, l, Rest(r), sends)
    BY <1>2, <1>9
  <2>3. sends \in [Sides -> SUBSET Messages]
    BY DEF LifecycleTypeOK
  <2>4. /\ LifecycleTypeOK /\ r = Other(s) /\ TurnInv(s) /\ lost' = lost
        /\ Rest(r) \in [Sides -> Seq(Messages)] /\ Rest(r)[r] = wire[r]
        /\ \A k : Fewer(Rest(r)[s], wire[s], k)
        /\ ~Has(Rest(r)[s], "End")
        /\ sends[r] \subseteq sends[r] /\ sends[s] = sends[s]
    BY <1>1, <1>2, <1>4
  <2>5. /\ Begun(s) > 0 /\ Came(s) = Begun(s) /\ Whole(s, Begun(s))
        /\ Call(s) \notin {"starting", "held", "ok"}
        /\ ~Waits(sends[s], "End") /\ ~Waits(sends[r], "Ack") /\ ~Has(wire[r], "Ack")
        /\ \A i \in DOMAIN sinks[r] : sinks[r][i].ask = 0 /\ sinks[r][i].final = 0
        /\ Acknowledge(r, Begun(s), Rest(r), sends)
    BY <1>2, <2>1, <2>2
  <2>. QED  BY ONLY <2>3, <2>4, <2>5, s \in Sides, r \in Sides, AcknowledgeTurn
<1>. HIDE DEF n, x
<1>. QED  BY <1>5, <1>6, <1>7, <1>8, <1>9

\* The reliable sink knows the end of the last transfer of s: it answers it
\* if it has read everything before.
LEMMA GoesOnTurn ==
    ASSUME LifecycleTypeOK, NEW s \in Sides, NEW r \in Sides, r = Other(s),
           TurnInv(s), NEW l \in Nat, l = Begun(s), l \in DOMAIN sinks[r],
           Call(s) \notin {"starting", "held", "ok"},
           ~Waits(sends[s], "End"), ~Has(wire[s], "End"),
           ~Waits(sends[r], "Ack"), ~Has(wire[r], "Ack"),
           NEW sink \in SinkPairs, sink.ask = 0, sink.final = l,
           sink.full = sinks[r][l].full,
           RelGoesOn(r, l, sink, sink.full),
           UNCHANGED <<cmd, out, role, over, lost, wire, acked>>
    PROVE  TurnInv(s)' /\ Quiet(r) /\ Lasting /\ Kept(s)
<1>0. /\ DOMAIN out[s] = 1 .. l /\ r # s /\ Other(r) = s
      /\ DOMAIN sinks[r] = 1 .. Came(s) /\ Came(s) \in Nat
  BY Lengths DEF Sides, Other
<1>1. Came(s) = l /\ l > 0
  BY <1>0 DEF TurnInv, Begins
<1>2. PICK e \in SinkPairs :
        /\ sinks' = [sinks EXCEPT ![r][l] = e]
        /\ e.ask = 0 /\ e.final \in {0, l} /\ e.full = sinks[r][l].full
        /\ e.rel = "ended" => e.full
        /\ \/ e.final = 0 /\ e.full /\ sends' = [sends EXCEPT ![r] = sends[r] \cup {Msg("Ack", l)}]
           \/ e.final = 0 /\ e.full /\ sends' = sends
           \/ sends' = sends
  <2>1. CASE sink.full
    <3>. DEFINE e == [sink EXCEPT !.rel = "ended", !.final = 0]
    <3>1. /\ e \in SinkPairs /\ e.ask = 0 /\ e.final = 0
          /\ e.full = sink.full
      BY DEF SinkPairs, SinkStates
    <3>2. sinks' = [sinks EXCEPT ![r][l] = e]
      BY <2>1 DEF RelGoesOn
    <3>3. \/ sends' = [sends EXCEPT ![r] = sends[r] \cup {Msg("Ack", l)}]
          \/ sends' = sends
      BY <2>1 DEF RelGoesOn
    <3>. HIDE DEF e
    <3>. QED  BY <2>1, <3>1, <3>2, <3>3
  <2>2. CASE ~sink.full
    <3>. DEFINE e == [sink EXCEPT !.rel = "waiting"]
    <3>1. /\ e \in SinkPairs /\ e.ask = 0 /\ e.final = l
          /\ e.full = sink.full /\ e.rel = "waiting"
      BY DEF SinkPairs, SinkStates
    <3>2. sinks' = [sinks EXCEPT ![r][l] = e] /\ sends' = sends
      BY <2>2 DEF RelGoesOn
    <3>. HIDE DEF e
    <3>. QED  BY <3>1, <3>2
  <2>. QED  BY <2>1, <2>2
<1>3. /\ Len(sinks'[r]) = Len(sinks[r]) /\ DOMAIN sinks'[r] = DOMAIN sinks[r]
      /\ sinks'[r][l] = e /\ sinks'[s] = sinks[s]
      /\ \A i \in DOMAIN sinks[r] : i # l => sinks'[r][i] = sinks[r][i]
  <2>1. /\ LifecycleTypeOK /\ r \in Sides /\ s \in Sides /\ s # r
        /\ l \in DOMAIN sinks[r] /\ sinks' = [sinks EXCEPT ![r][l] = e]
    BY <1>0, <1>2
  <2>2. Len(sinks'[r]) = Len(sinks[r]) /\ DOMAIN sinks'[r] = DOMAIN sinks[r]
    BY ONLY <2>1, SinkTouched
  <2>3. sinks'[r][l] = e
    BY <2>1 DEF LifecycleTypeOK
  <2>4. /\ \A i \in DOMAIN sinks[r] : i # l => sinks'[r][i] = sinks[r][i]
        /\ \A t \in Sides : t # r => sinks'[t] = sinks[t]
    BY ONLY <2>1, SinkTouched
  <2>. QED  BY <2>1, <2>2, <2>3, <2>4
<1>4. /\ Came(s)' = l /\ Begun(s)' = l /\ Call(s)' = Call(s)
      /\ \A n \in 1 .. l : Whole(s, n)' <=> Whole(s, n)
      /\ \A n \in 1 .. l : n # l => sinks'[r][n].rel = sinks[r][n].rel
  <2>1. \A n \in 1 .. l : sinks'[r][n].full = sinks[r][n].full
    BY <1>0, <1>1, <1>2, <1>3
  <2>. QED  BY <1>0, <1>1, <1>3, <2>1 DEF Came, Begun, Call, Whole
<1>5. e.full => Whole(s, l)'
  BY <1>1, <1>2, <1>3 DEF Whole
<1>6. /\ sends'[s] = sends[s]
      /\ \A m \in sends'[r] : m \in sends[r] \/ (m = Msg("Ack", l) /\ e.final = 0 /\ e.full)
  BY <1>0, <1>2 DEF LifecycleTypeOK
<1>7. /\ \A i \in DOMAIN sinks'[r] :
            /\ sinks'[r][i].ask = 0
            /\ sinks'[r][i].final # 0 => /\ i = l /\ sinks'[r][i].final = l
                                         /\ e.final # 0
  BY <1>2, <1>3 DEF TurnInv, Numbered
<1>8. \A m \in sends'[r] : m.kind = "Ack" => m = Msg("Ack", l) /\ e.final = 0 /\ e.full
  BY <1>6 DEF Waits
<1>9. Begins(s)'
  <2>1. cmd'[s] # "start"
    BY <1>1 DEF TurnInv, Begins
  <2>. QED  BY <1>0, <1>1, <1>4, <2>1 DEF TurnInv, Begins
<1>10. Alone(s)' /\ Numbered(s)'
  <2>1. \A m \in sends'[r] : m.kind = "Ack" =>
              m.n = l /\ Came(s)' = l /\ Whole(s, l)'
    BY <1>4, <1>5, <1>8 DEF Msg
  <2>2. \/ ~Waits(sends'[r], "Ack")
        \/ \A i \in DOMAIN sinks'[r] : sinks'[r][i].final = 0
    BY <1>7, <1>8 DEF Waits
  <2>3. ~Waits(sends'[s], "End")
    BY <1>6
  <2>. QED  BY <1>1, <1>4, <1>7, <2>1, <2>2, <2>3, AskAlone
<1>11. Outcomes(s)'
  <2>1. \A n \in 1 .. l : sinks'[r][n].rel = "ended" => Whole(s, n)'
    <3>. SUFFICES ASSUME NEW n \in 1 .. l, sinks'[r][n].rel = "ended"
                  PROVE  Whole(s, n)'
      OBVIOUS
    <3>1. CASE n = l
      BY <1>2, <1>3, <1>5, <3>1
    <3>2. CASE n # l
      BY <1>1, <1>4, <3>2 DEF TurnInv, Outcomes
    <3>. QED  BY <3>1, <3>2
  <2>. QED  BY <1>1, <1>4, <2>1 DEF TurnInv, Outcomes
<1>12. Quiet(r) /\ Lasting
  <2>1. ReceiverQuiet(s)
    BY <1>3, <1>6, ReceiverSame
  <2>2. Forth(r) /\ Back(s)
    BY WireSame
  <2>3. SenderQuiet(r)
    <3>1. \A m \in sends'[r] : m.kind = "End" => m \in sends[r]
      BY <1>6 DEF Msg
    <3>. QED  BY <3>1 DEF SenderQuiet, CallKept
  <2>. QED  BY <1>0, <2>1, <2>2, <2>3 DEF Quiet, Lasting
<1>. QED  BY <1>4, <1>9, <1>10, <1>11, <1>12 DEF TurnInv, Kept

\* A sink that knows the end of a transfer, or has it in its pipeline, is that
\* of the last one.
LEMMA AskedIs ==
    ASSUME LifecycleTypeOK, NEW s \in Sides, NEW r \in Sides, r = Other(s),
           TurnInv(s), NEW n \in DOMAIN sinks[r],
           sinks[r][n].ask # 0 \/ sinks[r][n].final # 0
    PROVE  /\ n = Begun(s) /\ n > 0
           /\ sinks[r][n].ask \in {0, n} /\ sinks[r][n].final \in {0, n}
           /\ Call(s) \notin {"starting", "held", "ok"}
           /\ ~Waits(sends[s], "End") /\ ~Has(wire[s], "End")
           /\ ~Waits(sends[r], "Ack") /\ ~Has(wire[r], "Ack")
<1>1. \E p \in {"asked", "known"} : p \in Tokens(s)
  BY TokenPlaces
<1>2. PICK p \in {"asked", "known"} : p \in Tokens(s)
  BY <1>1
<1>3. /\ Begun(s) > 0 /\ Call(s) \notin {"starting", "held", "ok"}
      /\ \A q \in Places : q # p => q \notin Tokens(s)
  BY <1>2, OnlyToken DEF TurnInv
<1>4. {"queued", "sent", "answered", "acked"} \cap Tokens(s) = {}
  BY <1>2, <1>3 DEF Places
<1>5. /\ ~Waits(sends[s], "End") /\ ~Has(wire[s], "End")
      /\ ~Waits(sends[r], "Ack") /\ ~Has(wire[r], "Ack")
  BY <1>4, TokenPlaces
<1>6. /\ sinks[r][n].ask # 0 => n = Begun(s) /\ sinks[r][n].ask = Begun(s)
      /\ sinks[r][n].final # 0 => n = Begun(s) /\ sinks[r][n].final = Begun(s)
  BY DEF TurnInv, Numbered
<1>. QED  BY <1>3, <1>5, <1>6

LEMMA RelTurn ==
    ASSUME LifecycleTypeOK, NEW s \in Sides, NEW r \in Sides, r = Other(s),
           TurnInv(s), NEW n \in DOMAIN sinks[r], RelCall(r, n) \/ RelTake(r, n)
    PROVE  TurnInv(s)' /\ Quiet(r) /\ Lasting /\ Kept(s)
<1>0. /\ Begun(s) \in Nat /\ Other(r) = s /\ r # s
      /\ \A t \in Sides : t = s \/ t = r
  BY Lengths DEF Sides, Other
<1>1. UNCHANGED <<cmd, out, role, over, lost, wire, acked>>
  BY DEF RelCall, RelTake
<1>2. sinks[r][n] \in SinkPairs
  <2>1. sinks[r] \in Seq(SinkPairs)
    BY DEF LifecycleTypeOK
  <2>. QED  BY <2>1
<1>3. CASE RelCall(r, n) /\ sinks[r][n].final = 0
  <2>. DEFINE e == [sinks[r][n] EXCEPT !.rel = "waiting"]
  <2>1. sinks' = [sinks EXCEPT ![r][n] = e] /\ UNCHANGED sends
    BY <1>3 DEF RelCall, Passed, RelGoesOn
  <2>2. /\ e.ask = sinks[r][n].ask /\ e.final = sinks[r][n].final
        /\ e.full = sinks[r][n].full /\ e.rel # "ended"
    BY <1>2 DEF SinkPairs
  <2>. HIDE DEF e
  <2>3. \A t \in Sides : ReceiverQuiet(t)
    BY <1>1, <2>1, <2>2, SinkQuiet
  <2>4. AllQuiet /\ Lasting
    BY <1>1, <2>1, <2>3, SenderSame, WireSame DEF AllQuiet, Lasting
  <2>. QED  BY <1>0, <2>4, QuietStep DEF AllQuiet, Quiet
<1>4. CASE \/ RelCall(r, n) /\ sinks[r][n].final # 0
           \/ RelTake(r, n)
  <2>1. sinks[r][n].ask # 0 \/ sinks[r][n].final # 0
    BY <1>4 DEF RelTake
  <2>2. /\ n = Begun(s) /\ n > 0
        /\ sinks[r][n].ask \in {0, n} /\ sinks[r][n].final \in {0, n}
        /\ Call(s) \notin {"starting", "held", "ok"}
        /\ ~Waits(sends[s], "End") /\ ~Has(wire[s], "End")
        /\ ~Waits(sends[r], "Ack") /\ ~Has(wire[r], "Ack")
    BY <2>1, AskedIs
  <2>3. PICK sink \in SinkPairs :
          /\ sink.ask = 0 /\ sink.final = n /\ sink.full = sinks[r][n].full
          /\ RelGoesOn(r, n, sink, sink.full)
    <3>1. CASE RelCall(r, n) /\ sinks[r][n].final # 0
      <4>1. RelGoesOn(r, n, sinks[r][n], sinks[r][n].full) /\ sinks[r][n].final = n
        BY <2>2, <3>1 DEF RelCall, Passed
      <4>2. sinks[r][n].ask = 0
        <5>1. "known" \in Tokens(s)
          BY <3>1, TokenPlaces
        <5>2. "asked" \notin Tokens(s)
          BY <5>1, OnlyToken DEF TurnInv, Places
        <5>. QED  BY <5>2, TokenPlaces
      <4>. QED  BY <1>2, <4>1, <4>2
    <3>2. CASE RelTake(r, n)
      <4>. DEFINE sink == [sinks[r][n] EXCEPT !.final = sinks[r][n].ask, !.ask = 0]
      <4>1. sinks[r][n].ask = n
        BY <2>2, <3>2 DEF RelTake
      <4>2. /\ sink \in SinkPairs /\ sink.ask = 0 /\ sink.final = n
            /\ sink.full = sinks[r][n].full
        BY <1>2, <4>1 DEF SinkPairs
      <4>3. \E passed \in Passed(sink, n, sink.final) : RelGoesOn(r, n, sink, passed)
        BY <3>2 DEF RelTake
      <4>. HIDE DEF sink
      <4>4. RelGoesOn(r, n, sink, sink.full)
        <5>1. n # 0
          BY <1>0, <2>2
        <5>2. Passed(sink, n, sink.final) = {sink.full}
          BY <4>2, <5>1 DEF Passed
        <5>. QED  BY <4>3, <5>2
      <4>. QED  BY <4>2, <4>4
    <3>. QED  BY <1>4, <3>1, <3>2
  <2>4. n \in Nat
    BY <1>0, <2>2
  <2>5. LifecycleTypeOK /\ r = Other(s) /\ TurnInv(s) /\ n = Begun(s) /\ n \in DOMAIN sinks[r]
    BY <2>2
  <2>. QED  BY ONLY <1>1, <2>2, <2>3, <2>4, <2>5, s \in Sides, r \in Sides, GoesOnTurn
<1>. QED  BY <1>3, <1>4

\* The answer reaches the call that waits for it.
LEMMA HandleAckTurn ==
    ASSUME LifecycleTypeOK, NEW s \in Sides, NEW r \in Sides, r = Other(s),
           TurnInv(s), HandleAck(s)
    PROVE  TurnInv(s)' /\ Quiet(r) /\ Lasting /\ Kept(s)
<1>. DEFINE l == Begun(s)
            w == role[s].waiter
<1>0. /\ l \in Nat /\ DOMAIN out[s] = 1 .. l /\ Other(r) = s /\ r # s
      /\ out[s] \in Seq(Transfers) /\ Len(out[s]) = l
      /\ \A t \in Sides : t = s \/ t = r
  BY Lengths DEF Sides, Other, Begun, LifecycleTypeOK
<1>1. /\ wire[r] # << >> /\ Head(wire[r]).kind = "Ack"
      /\ wire' = [wire EXCEPT ![r] = Tail(wire[r])]
      /\ role' = [role EXCEPT ![s] = [role[s] EXCEPT !.waiter = 0]]
      /\ out' = IF w # 0 /\ out[s][w].call = "awaiting"
                THEN [out EXCEPT ![s] = [out[s] EXCEPT ![w] =
                                            [out[s][w] EXCEPT !.call = "ok"]]]
                ELSE out
      /\ UNCHANGED <<cmd, sends, over, lost, sinks, acked>>
  BY DEF HandleAck, Reads, First, Rest
<1>2. /\ wire'[r] = Tail(wire[r]) /\ wire'[s] = wire[s]
      /\ role'[r] = role[r] /\ role'[s].is = role[s].is /\ role'[s].n = role[s].n
  BY <1>0, <1>1 DEF LifecycleTypeOK, Roles
<1>3. /\ Forth(r) /\ Back(r) /\ Forth(s) /\ Back(s)
  <2>1. Forth(r) /\ Back(r)
    BY <1>1, <1>2, WireRead
  <2>. QED  BY <1>2, <2>1, WireSame
<1>4. ReceiverQuiet(r) /\ ReceiverQuiet(s)
  BY <1>1, <1>2 DEF ReceiverQuiet, SinkKept
<1>5. out'[r] = out[r] /\ Lasting
  BY <1>0, <1>1 DEF LifecycleTypeOK, Lasting
<1>6. Quiet(r)
  <2>1. SenderQuiet(r)
    BY <1>1, <1>5, SenderSame
  <2>. QED  BY <1>0, <1>3, <1>4, <2>1 DEF Quiet
<1>7. CASE out'[s] = out[s]
  <2>1. SenderQuiet(s)
    BY <1>1, <1>7, SenderSame
  <2>2. Quiet(s)
    BY <1>3, <1>4, <2>1 DEF Quiet
  <2>. QED  BY <1>5, <1>6, <2>2, QuietStep
<1>8. CASE w \in DOMAIN out[s] /\ out[s][w].call = "awaiting"
           /\ out'[s] = [out[s] EXCEPT ![w] = [out[s][w] EXCEPT !.call = "ok"]]
  <2>1. w = l /\ l > 0 /\ l \in 1 .. l /\ Call(s) = "awaiting"
    BY <1>0, <1>8, EarlierCalls DEF TurnInv
  <2>2. /\ 1 \in DOMAIN wire[r] /\ Head(wire[r]) = wire[r][1]
        /\ Has(wire[r], "Ack") /\ wire[r] \in Seq(Messages)
    BY <1>1, HeadIs
  <2>3. Came(s) = l /\ Whole(s, l) /\ l \in acked[r] /\ Once(wire[r], "Ack")
    BY <1>1, <2>2 DEF TurnInv, Numbered
  <2>4. "acked" \in Tokens(s)
    BY <2>2, TokenPlaces
  <2>5. \A q \in Places : q # "acked" => q \notin Tokens(s)
    BY <2>4, OnlyToken DEF TurnInv
  <2>6. ~Has(wire'[r], "Ack")
    BY <1>1, <1>2, <2>2, <2>3, WireTail
  <2>7. Tokenless(s)'
    <3>1. /\ ~Waits(sends[s], "End") /\ ~Has(wire[s], "End") /\ ~Waits(sends[r], "Ack")
          /\ \A i \in DOMAIN sinks[r] : sinks[r][i].ask = 0 /\ sinks[r][i].final = 0
      BY <2>5, TokenPlaces DEF Places
    <3>. QED  BY <1>1, <1>2, <2>6, <3>1 DEF Tokenless
  <2>8. /\ Begun(s)' = l /\ out'[s][l].call = "ok"
        /\ \A i \in 1 .. l : /\ out'[s][i].dual = out[s][i].dual
                             /\ out'[s][i].empty = out[s][i].empty
                             /\ i # l => out'[s][i].call = out[s][i].call
    <3>1. out[s][l] \in Transfers
      BY <1>0, <2>1
    <3>2. [out[s][l] EXCEPT !.call = "ok"] \in Transfers
      BY <3>1 DEF Transfers
    <3>3. Len(out'[s]) = l
      BY <1>0, <1>8, <2>1, <3>2, ExceptSeq
    <3>. QED  BY <1>0, <1>8, <2>1, <3>1, <3>3 DEF Begun, Transfers
  <2>9. /\ Came(s)' = l /\ Call(s)' = "ok"
        /\ \A i \in 1 .. l : Whole(s, i)'
    <3>1. \A i \in 1 .. l : Whole(s, i)
      BY <2>3, EarlierWhole DEF TurnInv
    <3>2. \A i \in 1 .. l : Whole(s, i)' <=> Whole(s, i)
      BY <1>1, <2>8 DEF Whole
    <3>. QED  BY <1>1, <2>3, <2>8, <3>1, <3>2 DEF Came, Call
  <2>10. Begins(s)'
    <3>1. \A i \in 1 .. l - 1 : out'[s][i].call = "ok"
      <4>. SUFFICES ASSUME NEW i \in 1 .. l - 1 PROVE out'[s][i].call = "ok"
        OBVIOUS
      <4>1. i \in 1 .. l /\ i # l
        BY <1>0
      <4>2. out[s][i].call = "ok"
        BY DEF TurnInv, Begins
      <4>. QED  BY <2>8, <4>1, <4>2
    <3>2. cmd'[s] # "start"
      BY <1>0, <1>1, <2>3 DEF TurnInv, Begins
    <3>3. /\ Once(wire'[s], "Start")
          /\ \A i \in DOMAIN wire'[s] : wire'[s][i].kind # "Start"
      BY <1>0, <1>2, <2>3 DEF TurnInv, Begins
    <3>4. role'[r].is = "receiver" => l > 0 /\ role'[r].n = l
      BY <1>2, <2>1, <2>3 DEF TurnInv, Begins
    <3>. QED  BY <1>0, <2>8, <2>9, <3>1, <3>2, <3>3, <3>4 DEF Begins
  <2>11. Outcomes(s)'
    <3>1. acked[r] \subseteq 1 .. l /\ acked'[r] = acked[r]
      BY <1>1, <2>3 DEF TurnInv, Outcomes
    <3>2. \A i \in 1 .. l : out'[s][i].call = "ok" => i \in acked[r] /\ i <= l
      BY <1>0, <2>1, <2>3, <2>8 DEF TurnInv, Outcomes
    <3>. QED  BY <2>8, <2>9, <3>1, <3>2 DEF Outcomes
  <2>. QED  BY <1>5, <1>6, <2>7, <2>10, <2>11, <2>8, <2>9, FreshTokens DEF TurnInv, Kept
<1>9. CASE w \notin DOMAIN out[s]
           /\ out'[s] = [out[s] EXCEPT ![w] = [out[s][w] EXCEPT !.call = "ok"]]
  <2>1. out'[s] = out[s]
    BY <1>0, <1>9, out[s] = [i \in 1 .. Len(out[s]) |-> out[s][i]]
  <2>. QED  BY <1>7, <2>1
<1>10. \/ out'[s] = out[s]
       \/ /\ out[s][w].call = "awaiting"
          /\ out'[s] = [out[s] EXCEPT ![w] = [out[s][w] EXCEPT !.call = "ok"]]
  BY <1>1 DEF LifecycleTypeOK
<1>. QED  BY <1>7, <1>8, <1>9, <1>10

-----------------------------------------------------------------------------
(* The turns, and the whole.                                                *)

\* A transfer that the other side has not heard of is the last of all, and was
\* its side's to start.
InTurn ==
    \A s \in Sides : Came(s) < Begun(s) =>
        LET k == Begun("a") + Begun("b") IN k \in DOMAIN Turns /\ Turns[k] = s

TurnsInv == LifecycleTypeOK /\ InTurn /\ \A s \in Sides : TurnInv(s)

LEMMA BothSides ==
    ASSUME LifecycleTypeOK, NEW s \in Sides, NEW r \in Sides, r = Other(s)
    PROVE  /\ Begun("a") + Begun("b") = Begun(s) + Begun(r)
           /\ Begun("a")' + Begun("b")' \in {Begun(s)' + Begun(r)', Begun(r)' + Begun(s)'}
           /\ Begun(s) \in Nat /\ Begun(r) \in Nat /\ Came(s) \in Nat /\ Came(r) \in Nat
           /\ s = Other(r) /\ s # r /\ \A t \in Sides : t = s \/ t = r
<1>1. /\ Begun(s) \in Nat /\ Begun(r) \in Nat /\ Came(s) \in Nat /\ Came(r) \in Nat
  BY Lengths
<1>2. s = Other(r) /\ s # r /\ \A t \in Sides : t = s \/ t = r
  BY DEF Sides, Other
<1>3. (s = "a" /\ r = "b") \/ (s = "b" /\ r = "a")
  BY DEF Sides, Other
<1>4. Begun("a") + Begun("b") = Begun(s) + Begun(r)
  BY <1>1, <1>3
<1>5. Begun("a")' + Begun("b")' \in {Begun(s)' + Begun(r)', Begun(r)' + Begun(s)'}
  BY <1>3
<1>. QED  BY <1>1, <1>2, <1>4, <1>5

\* The other side has nothing to tell when it is a side's turn.
LEMMA HeardAll ==
    ASSUME LifecycleTypeOK, InTurn, NEW s \in Sides, NEW r \in Sides, r = Other(s),
           TurnInv(r), MyTurn(s)
    PROVE  Came(r) = Begun(r)
<1>. DEFINE k == Begun(s) + Begun(r)
<1>0. /\ Begun("a") + Begun("b") = k
      /\ Begun(s) \in Nat /\ Begun(r) \in Nat /\ Came(r) \in Nat
      /\ s = Other(r) /\ s # r
  BY BothSides
<1>1. /\ Turns[Len(out[s]) + Len(sinks[s]) + 1] = s
      /\ Begun(s) = Len(out[s]) /\ Came(r) = Len(sinks[s])
  BY <1>0 DEF MyTurn, Begun, Came
<1>2. Turns[Begun(s) + Came(r) + 1] = s
  BY <1>1
<1>3. Came(r) <= Begun(r) /\ Begun(r) <= Came(r) + 1
  BY DEF TurnInv, Begins
<1>4. ASSUME Came(r) < Begun(r) PROVE FALSE
  <2>1. k = Begun(s) + Came(r) + 1
    BY <1>0, <1>3, <1>4
  <2>2. Turns[k] = r
    BY <1>0, <1>4 DEF InTurn
  <2>. QED  BY <1>0, <1>2, <2>1, <2>2
<1>. QED  BY <1>0, <1>3, <1>4

\* No step but the start of a transfer can break the turns.
LEMMA KeptInTurn ==
    ASSUME LifecycleTypeOK, InTurn, \A s \in Sides : Kept(s)
    PROVE  InTurn'
<1>1. "a" \in Sides /\ "b" \in Sides
  BY DEF Sides
<1>2. Begun("a")' = Begun("a") /\ Begun("b")' = Begun("b")
  BY <1>1 DEF Kept
<1>. SUFFICES ASSUME NEW s \in Sides, Came(s)' < Begun(s)'
              PROVE  LET k == Begun("a")' + Begun("b")' IN k \in DOMAIN Turns /\ Turns[k] = s
  BY Zenon DEF InTurn
<1>3. Came(s) < Begun(s)
  BY Lengths DEF Kept
<1>. QED  BY <1>2, <1>3 DEF InTurn

LEMMA TurnStep ==
    ASSUME TurnsInv, NEW s \in Sides, TurnInv(s)', Quiet(Other(s)), Lasting, Kept(s)
    PROVE  InTurn' /\ \A t \in Sides : TurnInv(t)'
<1>1. Other(s) \in Sides /\ \A t \in Sides : t = s \/ t = Other(s)
  BY DEF Sides, Other
<1>2. TurnInv(Other(s))' /\ Kept(Other(s))
  BY <1>1, QuietStep DEF TurnsInv
<1>. QED  BY <1>1, <1>2, KeptInTurn DEF TurnsInv

LEMMA QuietTurns ==
    ASSUME TurnsInv, AllQuiet, Lasting
    PROVE  InTurn' /\ \A t \in Sides : TurnInv(t)'
BY AllQuietStep, KeptInTurn DEF TurnsInv

\* The next transfer is begun in its turn.
LEMMA CallStartTurns ==
    ASSUME TurnsInv, Polite, NEW s \in Sides, CallStart(s)
    PROVE  InTurn' /\ \A t \in Sides : TurnInv(t)'
<1>. DEFINE r == Other(s)
<1>0. /\ r \in Sides /\ s = Other(r) /\ \A t \in Sides : t = s \/ t = r
      /\ LifecycleTypeOK /\ InTurn /\ TurnInv(s) /\ TurnInv(r)
  BY Others DEF Sides, Other, TurnsInv
<1>. HIDE DEF r
<1>1. TurnInv(s)' /\ Quiet(r) /\ Lasting /\ Begun(s)' = Begun(s) + 1
  BY <1>0, CallStartTurn DEF r
<1>2. TurnInv(r)' /\ Kept(r)
  BY <1>0, <1>1, QuietStep
<1>3. /\ MyTurn(s)
      /\ Begun(s) = Len(out[s]) /\ Came(r) = Len(sinks[s])
  BY <1>0 DEF CallStart, Begun, Came
<1>4. Came(r) = Begun(r)
  BY <1>0, <1>3, HeardAll DEF r
<1>5. /\ Begun(s) \in Nat /\ Begun(r) \in Nat
      /\ Begun("a")' + Begun("b")' \in {Begun(s)' + Begun(r)', Begun(r)' + Begun(s)'}
  BY <1>0, BothSides DEF r
<1>6. Begun(r)' = Begun(r) /\ Came(r)' = Begun(r)
  BY <1>2, <1>4 DEF Kept
<1>7. LET k == Begun("a")' + Begun("b")' IN k \in DOMAIN Turns /\ Turns[k] = s
  <2>1. Begun("a")' + Begun("b")' = Len(out[s]) + Len(sinks[s]) + 1
    BY <1>1, <1>3, <1>4, <1>5, <1>6
  <2>. QED  BY <1>3, <2>1 DEF MyTurn
<1>8. ~(Came(r)' < Begun(r)')
  BY <1>5, <1>6
<1>9. InTurn'
  BY <1>0, <1>7, <1>8 DEF InTurn
<1>. QED  BY <1>0, <1>1, <1>2, <1>9

LEMMA InitTurns == LifecycleInit => InTurn /\ \A s \in Sides : TurnInv(s)
<1>. SUFFICES ASSUME LifecycleInit
              PROVE  InTurn /\ \A s \in Sides : TurnInv(s)
  OBVIOUS
<1>1. \A s \in Sides : /\ out[s] = << >> /\ sinks[s] = << >> /\ wire[s] = << >>
                       /\ sends[s] = {} /\ acked[s] = {} /\ cmd[s] = "none"
                       /\ role[s].is = "unknown"
  BY DEF LifecycleInit, Unknown
<1>2. ASSUME NEW s \in Sides
      PROVE  TurnInv(s) /\ ~(Came(s) < Begun(s))
  <2>. DEFINE r == Other(s)
  <2>1. r \in Sides
    BY Others
  <2>2. Begun(s) = 0 /\ Came(s) = 0
    BY <1>1, <2>1 DEF Begun, Came
  <2>3. /\ \A k : ~Has(wire[s], k) /\ ~Has(wire[r], k)
        /\ Once(wire[s], "Start") /\ EndsFollow(wire[s])
    BY <1>1, <2>1, WireNone DEF Has, Once
  <2>4. Tokenless(s)
    BY <1>1, <2>1, <2>3 DEF Tokenless, Waits
  <2>5. Tokens(s) = {}
    BY <2>4, NoTokens
  <2>6. Alone(s)
    BY <2>5 DEF Alone
  <2>7. Numbered(s)
    <3>1. Once(wire[s], "End") /\ Once(wire[r], "Ack")
      BY <2>3 DEF Has, Once
    <3>. QED  BY <2>3, <2>4, <3>1 DEF Numbered, Tokenless, Waits, Has
  <2>8. Begins(s)
    BY <1>1, <2>1, <2>2, <2>3 DEF Begins, Has
  <2>9. Outcomes(s)
    BY <1>1, <2>1, <2>2 DEF Outcomes
  <2>. QED  BY <2>2, <2>6, <2>7, <2>8, <2>9 DEF TurnInv
<1>. QED  BY <1>2 DEF InTurn

LEMMA StepsKeepTurns ==
    ASSUME Polite, TurnsInv, [LifecycleNext]_svars
    PROVE  InTurn' /\ \A s \in Sides : TurnInv(s)'
<1>0. LifecycleTypeOK /\ \A s \in Sides : TurnInv(s)
  BY DEF TurnsInv
<1>1. CASE UNCHANGED svars
  <2>1. UNCHANGED <<out, cmd, sends, sinks, role, acked, wire, over, lost>>
    BY <1>1 DEF svars
  <2>2. AllQuiet /\ Lasting
    BY <2>1, SenderSame, ReceiverSame, WireSame DEF AllQuiet, Lasting
  <2>. QED  BY <2>2, QuietTurns
<1>2. ASSUME NEW s \in Sides, Lose(s)
      PROVE  InTurn' /\ \A t \in Sides : TurnInv(t)'
  BY <1>0, <1>2, LoseQuiet, QuietTurns
<1>3. ASSUME NEW s \in Sides, Task(s)
      PROVE  InTurn' /\ \A t \in Sides : TurnInv(t)'
  <2>. DEFINE r == Other(s)
  <2>0. r \in Sides /\ Other(r) = s
    BY DEF Sides, Other
  <2>. HIDE DEF r
  <2>1. CASE \/ SendPayload(s) \/ SeeDropped(s) \/ Close(s) \/ Block(s)
             \/ HandlePayload(s) \/ HandleEof(s)
    BY <1>0, <2>1, StreamQuiet, QuietTurns
  <2>2. CASE StartTransfer(s)
    BY <1>0, <2>2, StartTransferTurn, TurnStep
  <2>3. ASSUME NEW n \in DOMAIN out[s], EndTransfer(s, n)
        PROVE  InTurn' /\ \A t \in Sides : TurnInv(t)'
    BY <1>0, <2>3, EndTransferTurn, TurnStep
  <2>4. ASSUME NEW n \in DOMAIN sinks[s], SendAck(s, n)
        PROVE  InTurn' /\ \A t \in Sides : TurnInv(t)'
    <3>1. TurnInv(r)' /\ Quiet(Other(r)) /\ Lasting /\ Kept(r)
      BY <1>0, <2>0, <2>4, SendAckTurn
    <3>. QED  BY <2>0, <3>1, TurnStep
  <2>5. CASE HandleStart(s)
    <3>1. TurnInv(r)' /\ Quiet(Other(r)) /\ Lasting /\ Kept(r)
      BY <1>0, <2>0, <2>5, HandleStartTurn
    <3>. QED  BY <2>0, <3>1, TurnStep
  <2>6. CASE HandleEnd(s)
    <3>1. TurnInv(r)' /\ Quiet(Other(r)) /\ Lasting /\ Kept(r)
      BY <1>0, <2>0, <2>6, HandleEndTurn
    <3>. QED  BY <2>0, <3>1, TurnStep
  <2>7. CASE HandleAck(s)
    <3>1. TurnInv(s)' /\ Quiet(r) /\ Lasting /\ Kept(s)
      BY <1>0, <2>0, <2>7, HandleAckTurn DEF r
    <3>. QED  BY <3>1, TurnStep DEF r
  <2>. QED  BY <1>3, <2>1, <2>2, <2>3, <2>4, <2>5, <2>6, <2>7 DEF Task
<1>4. ASSUME NEW s \in Sides, App(s)
      PROVE  InTurn' /\ \A t \in Sides : TurnInv(t)'
  <2>. DEFINE r == Other(s)
  <2>0. r \in Sides /\ Other(r) = s
    BY DEF Sides, Other
  <2>. HIDE DEF r
  <2>1. CASE CallStart(s)
    BY <2>1, CallStartTurns
  <2>2. CASE \/ CallPayload(s) \/ Accept(s) \/ DropHandle(s)
             \/ \E n \in DOMAIN out[s] : Expire(s, n)
    BY <1>0, <2>2, HandleQuiet, QuietTurns
  <2>3. ASSUME NEW n \in DOMAIN out[s], CallEnd(s, n) \/ DropStream(s, n)
        PROVE  InTurn' /\ \A t \in Sides : TurnInv(t)'
    <3>1. \E call \in {"ending", "gone"} : GiveUpStream(s, n, call)
      BY <2>3 DEF CallEnd, DropStream
    <3>. QED  BY <1>0, <3>1, GiveUpTurn, TurnStep
  <2>4. ASSUME NEW n \in DOMAIN sinks[s], RelCall(s, n) \/ RelTake(s, n)
        PROVE  InTurn' /\ \A t \in Sides : TurnInv(t)'
    <3>1. TurnInv(r)' /\ Quiet(s) /\ Lasting /\ Kept(r)
      BY <1>0, <2>0, <2>4, RelTurn
    <3>. QED  BY <2>0, <3>1, TurnStep
  <2>5. ASSUME NEW n \in DOMAIN sinks[s],
               \/ RelRead(s, n) \/ UnrelCheck(s, n) \/ UnrelWait(s, n)
               \/ DropRel(s, n) \/ DropUnrel(s, n)
        PROVE  InTurn' /\ \A t \in Sides : TurnInv(t)'
    BY <1>0, <2>5, SinksQuiet, QuietTurns
  <2>. QED  BY <1>4, <2>1, <2>2, <2>3, <2>4, <2>5 DEF App, Rel, Unrel
<1>. QED  BY <1>1, <1>2, <1>3, <1>4 DEF LifecycleNext

-----------------------------------------------------------------------------
(* What a side has answered when it stops receiving.                        *)

\* It has left run(), acknowledged a transfer, or is about to.
Answering(s) == s \in over \/ acked[s] # {} \/ Waits(sends[s], "Ack")

\* end() comes with an ack; sinks end with it or with their answer; and the
\* only transfer a side has received is answered, or its sinks are dropped,
\* by the time the side starts another.
Answers(s) ==
    /\ s \in ended => acked[s] # {} \/ s \in over
    /\ \A n \in DOMAIN sinks[s] :
          "ended" \in {sinks[s][n].rel, sinks[s][n].unrel} => Answering(s)
    /\ Len(sinks[s]) = 1 /\ (role[s].is # "receiver" \/ cmd[s] = "start") =>
          Answering(s) \/ Abandoned(sinks[s][1])

\* A transfer waits once in the channel to the application, and its sinks
\* with it.
Queued(s) ==
    /\ \A i, j \in DOMAIN messages[s] :
          messages[s][i] = messages[s][j] /\ messages[s][i] # 0 => i = j
    /\ \A i \in DOMAIN messages[s] : messages[s][i] # 0 =>
          /\ messages[s][i] \in DOMAIN sinks[s]
          /\ sinks[s][messages[s][i]].unrel = "queued"

\* The sinks of a transfer neither end nor come back.
SinkTame(s, n) ==
    /\ sinks'[s][n].rel = "ended" => sinks[s][n].rel = "ended"
    /\ sinks'[s][n].unrel = "ended" => sinks[s][n].unrel = "ended"
    /\ Abandoned(sinks[s][n]) => Abandoned(sinks'[s][n])

Tame(s) ==
    /\ s \in ended' => s \in ended
    /\ over \subseteq over'
    /\ acked'[s] = acked[s]
    /\ Waits(sends[s], "Ack") => Waits(sends'[s], "Ack")
    /\ Len(sinks'[s]) = Len(sinks[s])
    /\ DOMAIN sinks'[s] = DOMAIN sinks[s]
    /\ \A n \in DOMAIN sinks[s] : SinkTame(s, n)
    /\ role'[s].is # "receiver" \/ cmd'[s] = "start" =>
          role[s].is # "receiver" \/ cmd[s] = "start"

LEMMA TameAnswers ==
    ASSUME LifecycleTypeOK, NEW s \in Sides, Answers(s), Tame(s)
    PROVE  Answers(s)'
<1>1. Answering(s) => Answering(s)'
  BY DEF Tame, Answering
<1>2. s \in ended' => acked'[s] # {} \/ s \in over'
  BY DEF Tame, Answers
<1>3. ASSUME NEW n \in DOMAIN sinks'[s],
             "ended" \in {sinks'[s][n].rel, sinks'[s][n].unrel}
      PROVE  Answering(s)'
  <2>1. n \in DOMAIN sinks[s] /\ SinkTame(s, n)
    BY DEF Tame
  <2>2. "ended" \in {sinks[s][n].rel, sinks[s][n].unrel}
    BY <1>3, <2>1 DEF SinkTame
  <2>. QED  BY <1>1, <2>1, <2>2 DEF Answers
<1>4. ASSUME Len(sinks'[s]) = 1, role'[s].is # "receiver" \/ cmd'[s] = "start"
      PROVE  Answering(s)' \/ Abandoned(sinks'[s][1])
  <2>1. Answering(s) \/ Abandoned(sinks[s][1])
    BY <1>4 DEF Answers, Tame
  <2>2. 1 \in DOMAIN sinks[s]
    <3>1. sinks[s] \in Seq(SinkPairs) /\ Len(sinks[s]) = 1
      BY <1>4 DEF Tame, LifecycleTypeOK
    <3>. QED  BY <3>1, LenProperties
  <2>. QED  BY <1>1, <2>1, <2>2 DEF Tame, SinkTame
<1>. QED  BY <1>2, <1>3, <1>4 DEF Answers

\* Once a transfer is acknowledged, or its task has left, all is answered.
LEMMA FinalAnswers ==
    ASSUME NEW s \in Sides, acked'[s] # {} \/ s \in over'
    PROVE  Answers(s)'
BY DEF Answers, Answering

\* The channel while sinks are used.
LEMMA StillQueued ==
    ASSUME LifecycleTypeOK, NEW s \in Sides, Queued(s),
           messages'[s] \in {messages[s], Append(messages[s], 0)},
           \A n \in DOMAIN sinks[s] :
                /\ n \in DOMAIN sinks'[s]
                /\ sinks[s][n].unrel = "queued" => sinks'[s][n].unrel = "queued"
    PROVE  Queued(s)'
<1>1. messages[s] \in Seq(Nat)
  BY DEF LifecycleTypeOK
<1>2. \A i \in DOMAIN messages'[s] : messages'[s][i] # 0 =>
            i \in DOMAIN messages[s] /\ messages'[s][i] = messages[s][i]
  <2>1. CASE messages'[s] = messages[s]
    BY <2>1
  <2>2. CASE messages'[s] = Append(messages[s], 0)
    <3>. DEFINE q == Append(messages[s], 0)
    <3>1. /\ DOMAIN q = 1 .. Len(messages[s]) + 1 /\ DOMAIN messages[s] = 1 .. Len(messages[s])
          /\ q[Len(messages[s]) + 1] = 0 /\ Len(messages[s]) \in Nat
          /\ \A i \in 1 .. Len(messages[s]) : q[i] = messages[s][i]
      BY <1>1, AppendProperties, LenProperties
    <3>2. \A i \in DOMAIN q : i = Len(messages[s]) + 1 \/ i \in DOMAIN messages[s]
      BY <3>1
    <3>. HIDE DEF q
    <3>. QED  BY <2>2, <3>1, <3>2 DEF q
  <2>. QED  BY <2>1, <2>2
<1>. QED  BY <1>2 DEF Queued

LEMMA EmptyQueue ==
    ASSUME NEW s \in Sides, messages'[s] = << >>
    PROVE  Queued(s)'
BY DEF Queued

AnswerInv(s) == Answers(s) /\ Queued(s)

Undisturbed(s) ==
    /\ UNCHANGED <<acked[s], sends[s], sinks[s], role[s], cmd[s], messages[s]>>
    /\ over \subseteq over'
    /\ s \in ended' => s \in ended

LEMMA UndisturbedAnswers ==
    ASSUME LifecycleTypeOK, NEW s \in Sides, AnswerInv(s), Undisturbed(s)
    PROVE  AnswerInv(s)'
<1>1. Tame(s)
  BY DEF Undisturbed, Tame, SinkTame, Abandoned
<1>2. Queued(s)'
  BY DEF Undisturbed, AnswerInv, Queued
<1>. QED  BY <1>1, <1>2, TameAnswers DEF AnswerInv

\* One side's steps leave what the other has answered as it was.
LEMMA Elsewhere ==
    ASSUME LifecycleTypeOK, NEW s \in Sides, NEW r \in Sides, r # s,
           Task(r) \/ App(r) \/ Lose(r)
    PROVE  Undisturbed(s)
<1>0. s = Other(r)
  BY DEF Sides, Other
<1>. DEFINE V == <<acked[s], sends[s], sinks[s], role[s], cmd[s], messages[s]>>
<1>1. ASSUME Leave(r), UNCHANGED <<ended, messages, sinks[s], acked>>
      PROVE  Undisturbed(s)
  <2>1. /\ role'[s] = role[s] /\ sends'[s] = sends[s] /\ cmd'[s] = cmd[s]
        /\ over \subseteq over'
    BY <1>0, <1>1, LeaveQuiet
  <2>. QED  BY <1>1, <2>1 DEF Undisturbed
<1>2. ASSUME NEW n, NEW unread, NEW queue, Acknowledge(r, n, unread, queue),
             UNCHANGED messages, queue[s] = sends[s]
      PROVE  Undisturbed(s)
  <2>1. sinks'[s] = sinks[s] /\ ended' = ended \cup {r}
    BY <1>2 DEF Acknowledge, End, LifecycleTypeOK
  <2>2. CASE Leave(r) /\ UNCHANGED acked
    <3>1. /\ role'[s] = role[s] /\ sends'[s] = sends[s] /\ cmd'[s] = cmd[s]
          /\ over \subseteq over'
      BY <1>0, <2>2, LeaveQuiet
    <3>. QED  BY <1>2, <2>1, <2>2, <3>1 DEF Undisturbed
  <2>3. CASE /\ sends' = queue /\ acked' = [acked EXCEPT ![r] = @ \cup {n}]
             /\ UNCHANGED <<over, role, cmd>>
    <3>1. acked'[s] = acked[s]
      BY <2>3 DEF LifecycleTypeOK
    <3>. QED  BY <1>2, <2>1, <2>3, <3>1 DEF Undisturbed
  <2>. QED  BY <1>2, <2>2, <2>3 DEF Acknowledge
<1>3. CASE Lose(r)
  BY <1>3 DEF Lose, Undisturbed
<1>4. CASE StartTransfer(r)
  <2>1. cmd'[s] = cmd[s] /\ role'[s] = role[s]
    BY <1>4 DEF StartTransfer, LifecycleTypeOK
  <2>. QED  BY <1>4, <2>1 DEF StartTransfer, Undisturbed
<1>5. CASE SendPayload(r)
  <2>1. cmd'[s] = cmd[s]
    BY <1>5 DEF SendPayload, LifecycleTypeOK
  <2>. QED  BY <1>5, <2>1 DEF SendPayload, Undisturbed
<1>6. ASSUME NEW n \in DOMAIN out[r], EndTransfer(r, n)
      PROVE  Undisturbed(s)
  <2>1. sends'[s] = sends[s]
    BY <1>6 DEF EndTransfer, LifecycleTypeOK
  <2>2. role'[s] = role[s]
    BY <1>6 DEF EndTransfer, LifecycleTypeOK
  <2>. QED  BY <1>6, <2>1, <2>2 DEF EndTransfer, Undisturbed
<1>7. ASSUME NEW n \in DOMAIN sinks[r], SendAck(r, n)
      PROVE  Undisturbed(s)
  <2>. DEFINE queue == [sends EXCEPT ![r] = @ \ {Msg("Ack", n)}]
  <2>1. Acknowledge(r, n, wire, queue) /\ UNCHANGED messages
    BY <1>7 DEF SendAck
  <2>2. queue[s] = sends[s]
    BY DEF LifecycleTypeOK
  <2>. HIDE DEF queue
  <2>. QED  BY <1>2, <2>1, <2>2
<1>8. CASE SeeDropped(r) \/ Block(r)
  BY <1>8 DEF SeeDropped, Block, Undisturbed
<1>9. CASE Close(r) \/ HandleEof(r)
  BY <1>1, <1>9 DEF Close, HandleEof
<1>10. ASSUME NEW n, PassOn(r, n), UNCHANGED <<ended, sinks[s], acked>>,
              r \in handle => role'[s] = role[s]
       PROVE  Undisturbed(s)
  <2>1. CASE r \in handle
    <3>1. messages'[s] = messages[s]
      BY <1>10, <2>1 DEF PassOn, LifecycleTypeOK
    <3>. QED  BY <1>10, <2>1, <3>1 DEF PassOn, Undisturbed
  <2>2. CASE r \notin handle
    BY <1>1, <1>10, <2>2 DEF PassOn
  <2>. QED  BY <2>1, <2>2
<1>11. CASE HandleStart(r)
  <2>. DEFINE n == First(r).n
  <2>1. sinks'[s] = sinks[s]
    BY <1>11 DEF HandleStart, LifecycleTypeOK
  <2>2. r \in handle => role'[s] = role[s]
    BY <1>11 DEF HandleStart, LifecycleTypeOK
  <2>3. PassOn(r, n) /\ UNCHANGED <<ended, acked>>
    BY <1>11 DEF HandleStart
  <2>. HIDE DEF n
  <2>. QED  BY <1>10, <2>1, <2>2, <2>3
<1>12. CASE HandlePayload(r)
  <2>1. PassOn(r, 0) /\ UNCHANGED <<ended, sinks, acked>> /\ (r \in handle => role' = role)
    BY <1>12 DEF HandlePayload
  <2>. QED  BY <1>10, <2>1
<1>13. CASE HandleEnd(r)
  <2>. DEFINE n == First(r).n
              x == role[r].n
  <2>1. UNCHANGED messages
    BY <1>13 DEF HandleEnd
  <2>2. \/ UNCHANGED <<sends, role, ended, over, cmd, sinks, acked>>
        \/ Leave(r) /\ UNCHANGED <<ended, sinks, acked>>
        \/ sinks' = Ask(r, x, n) /\ UNCHANGED <<sends, role, ended, over, cmd, acked>>
        \/ Acknowledge(r, n, Rest(r), sends)
    <3>. HIDE DEF n
    <3>1. CASE ~(role[r].is = "receiver")
      BY <1>13, <3>1 DEF HandleEnd, ToPipeline, n
    <3>2. CASE role[r].is = "receiver" /\ ToPipeline(r) /\ sinks[r][x].rel = "dropped"
      BY <1>13, <3>2 DEF HandleEnd, n
    <3>3. CASE role[r].is = "receiver" /\ ToPipeline(r) /\ sinks[r][x].rel # "dropped"
      BY <1>13, <3>3 DEF HandleEnd, n
    <3>4. CASE role[r].is = "receiver" /\ ~ToPipeline(r)
      BY <1>13, <3>4 DEF HandleEnd, n
    <3>. QED  BY <3>1, <3>2, <3>3, <3>4
  <2>3. CASE UNCHANGED <<sends, role, ended, over, cmd, sinks, acked>>
    BY <2>1, <2>3 DEF Undisturbed
  <2>4. CASE Leave(r) /\ UNCHANGED <<ended, sinks, acked>>
    BY <1>1, <2>1, <2>4
  <2>5. CASE sinks' = Ask(r, x, n) /\ UNCHANGED <<sends, role, ended, over, cmd, acked>>
    <3>1. sinks'[s] = sinks[s]
      BY <2>5 DEF Ask, LifecycleTypeOK
    <3>. QED  BY <2>1, <2>5, <3>1 DEF Undisturbed
  <2>6. CASE Acknowledge(r, n, Rest(r), sends)
    BY <1>2, <2>1, <2>6
  <2>. QED  BY <2>2, <2>3, <2>4, <2>5, <2>6
<1>14. CASE HandleAck(r)
  <2>1. role'[s] = role[s]
    BY <1>14 DEF HandleAck, LifecycleTypeOK
  <2>. QED  BY <1>14, <2>1 DEF HandleAck, Undisturbed
<1>15. CASE CallStart(r) \/ CallPayload(r)
  <2>1. cmd'[s] = cmd[s]
    BY <1>15 DEF CallStart, CallPayload, LifecycleTypeOK
  <2>. QED  BY <1>15, <2>1 DEF CallStart, CallPayload, Undisturbed
<1>16. CASE Accept(r) \/ DropHandle(r)
  <2>1. messages'[s] = messages[s]
    BY <1>16 DEF Accept, DropHandle, LifecycleTypeOK
  <2>2. sinks'[s] = sinks[s]
    BY <1>16 DEF Accept, DropHandle, LifecycleTypeOK
  <2>. QED  BY <1>16, <2>1, <2>2 DEF Accept, DropHandle, Undisturbed
<1>17. ASSUME NEW n \in DOMAIN out[r],
              CallEnd(r, n) \/ DropStream(r, n) \/ Expire(r, n)
       PROVE  Undisturbed(s)
  <2>1. CASE Expire(r, n)
    BY <2>1 DEF Expire, Undisturbed
  <2>2. ASSUME NEW call, GiveUpStream(r, n, call)
        PROVE  Undisturbed(s)
    <3>1. sends'[s] = sends[s]
      BY <2>2 DEF GiveUpStream, LifecycleTypeOK
    <3>. QED  BY <2>2, <3>1 DEF GiveUpStream, Undisturbed
  <2>. QED  BY <1>17, <2>1, <2>2 DEF CallEnd, DropStream
<1>18. ASSUME NEW n \in DOMAIN sinks[r], RelCall(r, n) \/ RelTake(r, n)
       PROVE  Undisturbed(s)
  <2>1. \E sink, passed : RelGoesOn(r, n, sink, passed)
    BY <1>18 DEF RelCall, RelTake
  <2>2. sinks'[s] = sinks[s] /\ sends'[s] = sends[s]
    BY <2>1 DEF RelGoesOn, LifecycleTypeOK
  <2>. QED  BY <1>18, <2>2 DEF RelCall, RelTake, Undisturbed
<1>19. ASSUME NEW n \in DOMAIN sinks[r],
              \/ RelRead(r, n) \/ UnrelCheck(r, n) \/ UnrelWait(r, n)
              \/ DropRel(r, n) \/ DropUnrel(r, n)
       PROVE  Undisturbed(s)
  <2>1. sinks'[s] = sinks[s]
    BY <1>19 DEF RelRead, UnrelCheck, UnrelWait, DropRel, DropUnrel, LifecycleTypeOK
  <2>. QED  BY <1>19, <2>1 DEF RelRead, UnrelCheck, UnrelWait, DropRel, DropUnrel, Undisturbed
<1>20. CASE Task(r)
  BY <1>4, <1>5, <1>6, <1>7, <1>8, <1>9, <1>11, <1>12, <1>13, <1>14, <1>20 DEF Task
<1>21. CASE App(r)
  BY <1>15, <1>16, <1>17, <1>18, <1>19, <1>21 DEF App, Rel, Unrel
<1>. QED  BY <1>3, <1>20, <1>21

\* Leaving run(), or an ack, answers for all.
LEMMA LeaveAnswers ==
    ASSUME LifecycleTypeOK, NEW s \in Sides, Queued(s), Leave(s),
           UNCHANGED <<messages, sinks[s]>>
    PROVE  AnswerInv(s)'
<1>1. s \in over'
  BY LeaveQuiet
<1>2. Queued(s)'
  BY DEF Queued
<1>. QED  BY <1>1, <1>2, FinalAnswers DEF AnswerInv

LEMMA AcknowledgeAnswers ==
    ASSUME LifecycleTypeOK, NEW s \in Sides, Queued(s), NEW n, NEW unread, NEW queue,
           Acknowledge(s, n, unread, queue), UNCHANGED messages
    PROVE  AnswerInv(s)'
<1>1. sinks'[s] = [m \in DOMAIN sinks[s] |-> Woken(sinks[s][m])]
  BY DEF Acknowledge, End, LifecycleTypeOK
<1>2. ASSUME NEW m \in DOMAIN sinks[s]
      PROVE  /\ m \in DOMAIN sinks'[s]
             /\ sinks[s][m].unrel = "queued" => sinks'[s][m].unrel = "queued"
  <2>1. sinks[s][m] \in SinkPairs
    BY SinkOf
  <2>2. sinks[s][m].unrel = "queued" => Woken(sinks[s][m]).unrel = "queued"
    BY <2>1 DEF Woken, SinkPairs
  <2>. QED  BY <1>1, <2>2
<1>3. Queued(s)'
  BY <1>2, StillQueued
<1>4. acked'[s] # {} \/ s \in over'
  <2>1. CASE Leave(s)
    BY <2>1, LeaveQuiet
  <2>2. CASE acked' = [acked EXCEPT ![s] = @ \cup {n}]
    BY <2>2 DEF LifecycleTypeOK
  <2>. QED  BY <2>1, <2>2 DEF Acknowledge
<1>. QED  BY <1>3, <1>4, FinalAnswers DEF AnswerInv

\* Steps that leave the sinks alone and start nothing.
LEMMA IdleAnswers ==
    ASSUME LifecycleTypeOK, NEW s \in Sides, AnswerInv(s),
           UNCHANGED <<acked, sinks>>,
           over \subseteq over', s \in ended' => s \in ended,
           Waits(sends[s], "Ack") => Waits(sends'[s], "Ack"),
           messages'[s] \in {messages[s], Append(messages[s], 0)},
           role'[s].is # "receiver" \/ cmd'[s] = "start" =>
                role[s].is # "receiver" \/ cmd[s] = "start"
    PROVE  AnswerInv(s)'
<1>1. Tame(s)
  BY DEF Tame, SinkTame, Abandoned
<1>2. Queued(s)'
  BY StillQueued DEF AnswerInv
<1>. QED  BY <1>1, <1>2, TameAnswers DEF AnswerInv

\* A sink that is looked at, read or dropped does not end.
LEMMA SinkAnswers ==
    ASSUME LifecycleTypeOK, NEW s \in Sides, AnswerInv(s),
           NEW n \in DOMAIN sinks[s], NEW e, sinks' = [sinks EXCEPT ![s][n] = e],
           UNCHANGED <<acked, over, ended, role, cmd, messages, sends>>,
           e.rel = "ended" => sinks[s][n].rel = "ended",
           e.unrel = "ended" => sinks[s][n].unrel = "ended",
           sinks[s][n].unrel = "queued" => e.unrel = "queued",
           Abandoned(sinks[s][n]) => Abandoned(e)
    PROVE  AnswerInv(s)'
<1>0. /\ LifecycleTypeOK /\ s \in Sides /\ n \in DOMAIN sinks[s]
      /\ sinks' = [sinks EXCEPT ![s][n] = e]
  OBVIOUS
<1>1. /\ Len(sinks'[s]) = Len(sinks[s]) /\ DOMAIN sinks'[s] = DOMAIN sinks[s]
      /\ sinks'[s][n] = e
      /\ \A m \in DOMAIN sinks[s] : m # n => sinks'[s][m] = sinks[s][m]
  <2>1. Len(sinks'[s]) = Len(sinks[s]) /\ DOMAIN sinks'[s] = DOMAIN sinks[s]
    BY ONLY <1>0, SinkTouched
  <2>2. sinks'[s][n] = e
    BY ONLY <1>0 DEF LifecycleTypeOK
  <2>3. \A m \in DOMAIN sinks[s] : m # n => sinks'[s][m] = sinks[s][m]
    BY ONLY <1>0, SinkTouched
  <2>. QED  BY <2>1, <2>2, <2>3
<1>2. \A m \in DOMAIN sinks[s] : SinkTame(s, m)
  BY <1>1 DEF SinkTame, Abandoned
<1>3. Tame(s)
  BY <1>1, <1>2 DEF Tame
<1>4. Queued(s)'
  BY <1>1, StillQueued DEF AnswerInv
<1>. QED  BY <1>3, <1>4, TameAnswers DEF AnswerInv

\* A transfer that begins is queued under the next number, and its side has
\* none of its own to begin.
LEMMA HandleStartAnswers ==
    ASSUME TurnsInv, NEW s \in Sides, AnswerInv(s), HandleStart(s)
    PROVE  AnswerInv(s)'
<1>. DEFINE r == Other(s)
            n == First(s).n
            e == NewSink(s, out[r][n])
<1>0. /\ r \in Sides /\ s = Other(r) /\ r # s /\ LifecycleTypeOK
      /\ TurnInv(r) /\ TurnInv(s) /\ Came(r) = Len(sinks[s]) /\ Came(r) \in Nat
      /\ DOMAIN sinks[s] = 1 .. Came(r) /\ Begun(r) \in Nat
  <2>1. LifecycleTypeOK /\ r \in Sides /\ s = Other(r) /\ r # s
    BY DEF TurnsInv, Sides, Other
  <2>2. TurnInv(r) /\ TurnInv(s)
    BY <2>1 DEF TurnsInv
  <2>. QED  BY <2>1, <2>2, Lengths DEF Came
<1>1. /\ wire[r] # << >> /\ n = Head(wire[r]).n /\ Head(wire[r]).kind = "Start"
      /\ sinks' = [sinks EXCEPT ![s] = Append(sinks[s], e)]
      /\ PassOn(s, n) /\ UNCHANGED <<ended, acked>>
      /\ s \in handle => role' = [role EXCEPT ![s] = Receiver(n)]
  BY DEF HandleStart, Reads, First
<1>2. n = Came(r) + 1 /\ Came(r) < Begun(r)
  <2>1. 1 \in DOMAIN wire[r] /\ Head(wire[r]) = wire[r][1]
    BY <1>0, <1>1, HeadIs
  <2>2. n = Begun(r) /\ Came(r) < Begun(r) /\ Begun(r) <= Came(r) + 1
    BY <1>1, <2>1, <1>0 DEF TurnInv, Begins
  <2>. QED  BY <1>0, <2>2
<1>3. cmd[s] # "start"
  <2>1. cmd[s] = "start" => Came(s) < Begun(s)
    BY <1>0 DEF TurnInv, Begins
  <2>. QED  BY <1>0, <1>2, <2>1 DEF TurnsInv, InTurn
<1>4. e \in SinkPairs /\ e.rel # "ended" /\ e.unrel # "ended"
      /\ (s \in handle => e.unrel = "queued")
  BY DEF NewSink, SinkState, SinkPairs, SinkStates
<1>. HIDE DEF e, n
<1>5. /\ DOMAIN sinks'[s] = 1 .. Came(r) + 1 /\ sinks'[s][n] = e
      /\ \A i \in DOMAIN sinks[s] : i \in DOMAIN sinks'[s] /\ sinks'[s][i] = sinks[s][i]
      /\ n \in DOMAIN sinks'[s] /\ n \notin DOMAIN sinks[s] /\ n \in Nat
      /\ \A i \in DOMAIN sinks'[s] : i = n \/ i \in DOMAIN sinks[s]
  <2>1. sinks[s] \in Seq(SinkPairs) /\ sinks'[s] = Append(sinks[s], e)
    BY <1>0, <1>1 DEF LifecycleTypeOK
  <2>2. /\ DOMAIN sinks'[s] = 1 .. Came(r) + 1 /\ sinks'[s][Came(r) + 1] = e
        /\ \A i \in 1 .. Came(r) : sinks'[s][i] = sinks[s][i]
    BY <1>0, <1>4, <2>1, AppendProperties
  <2>. QED  BY <1>0, <1>2, <2>2
<1>6. CASE s \notin handle
  <2>1. Leave(s) /\ UNCHANGED messages
    BY <1>1, <1>6 DEF PassOn
  <2>2. s \in over'
    BY <1>0, <2>1, LeaveQuiet
  <2>3. Queued(s)'
    <3>1. messages'[s] = messages[s]
      BY <2>1
    <3>. QED  BY <1>0, <1>5, <3>1, StillQueued DEF AnswerInv
  <2>. QED  BY <2>2, <2>3, FinalAnswers DEF AnswerInv
<1>7. CASE s \in handle
  <2>1. /\ messages' = [messages EXCEPT ![s] = Append(messages[s], n)]
        /\ UNCHANGED <<over, sends, cmd>>
        /\ role' = [role EXCEPT ![s] = Receiver(n)]
    BY <1>1, <1>7 DEF PassOn
  <2>2. role'[s].is = "receiver" /\ cmd'[s] # "start"
    BY <1>0, <1>3, <2>1 DEF Receiver, LifecycleTypeOK
  <2>3. Answers(s)'
    <3>1. Answering(s) => Answering(s)'
      BY <1>1, <2>1 DEF Answering
    <3>2. s \in ended' => acked'[s] # {} \/ s \in over'
      BY <1>1, <2>1 DEF AnswerInv, Answers
    <3>3. \A i \in DOMAIN sinks'[s] :
             "ended" \in {sinks'[s][i].rel, sinks'[s][i].unrel} => Answering(s)'
      BY <1>4, <1>5, <3>1 DEF AnswerInv, Answers
    <3>. QED  BY <2>2, <3>2, <3>3 DEF Answers
  <2>4. /\ messages[s] \in Seq(Nat) /\ messages'[s] = Append(messages[s], n)
    BY <1>0, <2>1 DEF LifecycleTypeOK
  <2>5. /\ DOMAIN messages'[s] = 1 .. Len(messages[s]) + 1
        /\ messages'[s][Len(messages[s]) + 1] = n
        /\ DOMAIN messages[s] = 1 .. Len(messages[s]) /\ Len(messages[s]) \in Nat
        /\ \A i \in DOMAIN messages[s] : messages'[s][i] = messages[s][i]
    BY <1>5, <2>4, AppendProperties, LenProperties
  <2>6. \A i \in DOMAIN messages'[s] : \/ i = Len(messages[s]) + 1 /\ messages'[s][i] = n
                                       \/ /\ i \in DOMAIN messages[s]
                                          /\ messages'[s][i] = messages[s][i]
    BY <2>5
  <2>7. \A i \in DOMAIN messages[s] : messages[s][i] # n
    BY <1>2, <1>0, <1>5 DEF AnswerInv, Queued
  <2>8. \A i, j \in DOMAIN messages'[s] :
          messages'[s][i] = messages'[s][j] /\ messages'[s][i] # 0 => i = j
    BY <2>6, <2>7 DEF AnswerInv, Queued
  <2>9. ASSUME NEW i \in DOMAIN messages'[s], messages'[s][i] # 0
        PROVE  /\ messages'[s][i] \in DOMAIN sinks'[s]
               /\ sinks'[s][messages'[s][i]].unrel = "queued"
    <3>1. CASE messages'[s][i] = n
      BY <1>4, <1>5, <1>7, <3>1
    <3>2. CASE i \in DOMAIN messages[s] /\ messages'[s][i] = messages[s][i]
      BY <1>5, <2>9, <3>2 DEF AnswerInv, Queued
    <3>. QED  BY <2>6, <3>1, <3>2
  <2>. QED  BY <2>3, <2>8, <2>9 DEF AnswerInv, Queued
<1>. QED  BY <1>6, <1>7

\* What the task does keeps it.
LEMMA TaskAnswers ==
    ASSUME TurnsInv, NEW s \in Sides, AnswerInv(s), Task(s)
    PROVE  AnswerInv(s)'
<1>0. LifecycleTypeOK /\ Queued(s)
  BY DEF TurnsInv, AnswerInv
<1>1. CASE StartTransfer(s)
  <2>1. /\ UNCHANGED <<acked, sinks, over, ended, messages, sends>>
        /\ cmd[s] = "start"
    BY <1>1 DEF StartTransfer
  <2>. QED  BY <1>0, <2>1, IdleAnswers
<1>2. CASE SendPayload(s)
  <2>1. /\ UNCHANGED <<acked, sinks, over, ended, messages, sends, role>>
        /\ cmd'[s] = "none"
    BY <1>0, <1>2 DEF SendPayload, LifecycleTypeOK
  <2>. QED  BY <1>0, <2>1, IdleAnswers
<1>3. ASSUME NEW n \in DOMAIN out[s], EndTransfer(s, n)
      PROVE  AnswerInv(s)'
  <2>1. UNCHANGED <<acked, sinks, over, ended, messages, cmd>>
    BY <1>3 DEF EndTransfer
  <2>2. Waits(sends[s], "Ack") => Waits(sends'[s], "Ack")
    <3>1. sends'[s] = sends[s] \ {Msg("End", n)}
      BY <1>0, <1>3 DEF EndTransfer, LifecycleTypeOK
    <3>. QED  BY <3>1 DEF Waits, Msg
  <2>3. role'[s].is # "receiver" => role[s].is # "receiver"
    <3>1. role[s].is = "sender" \/ role' = role
      BY <1>3 DEF EndTransfer
    <3>. QED  BY <3>1
  <2>. QED  BY <1>0, <2>1, <2>2, <2>3, IdleAnswers
<1>4. ASSUME NEW n \in DOMAIN sinks[s], SendAck(s, n)
      PROVE  AnswerInv(s)'
  <2>1. \E queue : Acknowledge(s, n, wire, queue) /\ UNCHANGED messages
    BY <1>4 DEF SendAck
  <2>. QED  BY <1>0, <2>1, AcknowledgeAnswers
<1>5. CASE SeeDropped(s) \/ Block(s)
  <2>1. UNCHANGED <<acked, sinks, over, ended, messages, sends, role, cmd>>
    BY <1>5 DEF SeeDropped, Block
  <2>. QED  BY <1>0, <2>1, IdleAnswers
<1>6. CASE Close(s) \/ HandleEof(s)
  BY <1>0, <1>6, LeaveAnswers DEF Close, HandleEof
<1>7. CASE HandlePayload(s)
  <2>1. CASE s \in handle
    <3>1. /\ UNCHANGED <<acked, sinks, over, ended, sends, role, cmd>>
          /\ messages'[s] = Append(messages[s], 0)
      BY <1>0, <1>7, <2>1 DEF HandlePayload, PassOn, LifecycleTypeOK
    <3>. QED  BY <1>0, <3>1, IdleAnswers
  <2>2. CASE s \notin handle
    BY <1>0, <1>7, <2>2, LeaveAnswers DEF HandlePayload, PassOn
  <2>. QED  BY <2>1, <2>2
<1>8. CASE HandleEnd(s)
  <2>. DEFINE n == First(s).n
              x == role[s].n
  <2>1. UNCHANGED messages
    BY <1>8 DEF HandleEnd
  <2>2. CASE role[s].is # "receiver"
    <3>1. UNCHANGED <<acked, sinks, over, ended, messages, sends, role, cmd>>
      BY <1>8, <2>2 DEF HandleEnd, ToPipeline
    <3>. QED  BY <1>0, <3>1, IdleAnswers
  <2>3. CASE role[s].is = "receiver" /\ ToPipeline(s) /\ sinks[s][x].rel = "dropped"
    <3>1. Leave(s) /\ UNCHANGED sinks
      BY <1>8, <2>3 DEF HandleEnd
    <3>. QED  BY <1>0, <2>1, <3>1, LeaveAnswers
  <2>4. CASE role[s].is = "receiver" /\ ToPipeline(s) /\ sinks[s][x].rel # "dropped"
    <3>. DEFINE e == [sinks[s][x] EXCEPT !.ask = n]
    <3>1. /\ UNCHANGED <<acked, over, ended, role, cmd, messages, sends>>
          /\ sinks' = [sinks EXCEPT ![s][x] = e]
      BY <1>8, <2>4 DEF HandleEnd, Ask
    <3>2. x \in DOMAIN sinks[s] /\ sinks[s][x] \in SinkPairs
      <4>1. /\ Other(s) \in Sides /\ s = Other(Other(s))
        BY DEF Sides, Other
      <4>2. x = Came(Other(s)) /\ Came(Other(s)) > 0
        BY <2>4, <4>1 DEF TurnsInv, TurnInv, Begins
      <4>3. Came(Other(s)) \in Nat /\ DOMAIN sinks[s] = 1 .. Came(Other(s))
        BY <1>0, <4>1, Lengths
      <4>4. x \in DOMAIN sinks[s]
        BY <4>2, <4>3
      <4>. QED  BY <1>0, <4>4, SinkOf
    <3>3. e.rel = sinks[s][x].rel /\ e.unrel = sinks[s][x].unrel
      BY <3>2 DEF SinkPairs
    <3>4. Abandoned(sinks[s][x]) => Abandoned(e)
      BY <3>3 DEF Abandoned
    <3>. HIDE DEF e, x
    <3>. QED  BY <1>0, <3>1, <3>2, <3>3, <3>4, SinkAnswers
  <2>5. CASE role[s].is = "receiver" /\ ~ToPipeline(s)
    <3>1. Acknowledge(s, n, Rest(s), sends)
      BY <1>8, <2>5 DEF HandleEnd
    <3>. QED  BY <1>0, <2>1, <3>1, AcknowledgeAnswers
  <2>. QED  BY <2>2, <2>3, <2>4, <2>5
<1>9. CASE HandleAck(s)
  <2>1. UNCHANGED <<acked, sinks, over, ended, messages, sends, cmd>>
    BY <1>9 DEF HandleAck
  <2>2. role'[s].is = role[s].is
    BY <1>0, <1>9 DEF HandleAck, LifecycleTypeOK, Roles
  <2>. QED  BY <1>0, <2>1, <2>2, IdleAnswers
<1>. QED
  BY <1>1, <1>2, <1>3, <1>4, <1>5, <1>6, <1>7, <1>8, <1>9, HandleStartAnswers DEF Task

\* A reliable sink that ends has its answer sent.
LEMMA GoesOnAnswers ==
    ASSUME LifecycleTypeOK, NEW s \in Sides, AnswerInv(s), NEW n \in DOMAIN sinks[s],
           NEW sink \in SinkPairs, NEW passed \in BOOLEAN, RelGoesOn(s, n, sink, passed),
           sink.rel = sinks[s][n].rel, sink.unrel = sinks[s][n].unrel,
           sink.rel # "dropped",
           UNCHANGED <<acked, over, ended, role, cmd, messages>>
    PROVE  AnswerInv(s)'
<1>. DEFINE e == [sink EXCEPT !.rel = "waiting"]
            f == [sink EXCEPT !.rel = "ended", !.final = 0]
<1>1. CASE ~passed
  <2>1. sinks' = [sinks EXCEPT ![s][n] = e] /\ UNCHANGED sends
    BY <1>1 DEF RelGoesOn
  <2>2. /\ e.rel = "waiting" /\ e.unrel = sinks[s][n].unrel
        /\ ~Abandoned(sinks[s][n])
    BY DEF SinkPairs, Abandoned
  <2>3. /\ LifecycleTypeOK /\ s \in Sides /\ AnswerInv(s) /\ n \in DOMAIN sinks[s]
        /\ UNCHANGED <<acked, over, ended, role, cmd, messages, sends>>
    BY <2>1
  <2>. HIDE DEF e
  <2>. QED  BY ONLY <2>1, <2>2, <2>3, SinkAnswers
<1>2. CASE passed
  <2>1. /\ sinks' = [sinks EXCEPT ![s][n] = f]
        /\ sends' = IF s \in over THEN sends
                    ELSE [sends EXCEPT ![s] = @ \cup {Msg("Ack", sink.final)}]
    BY <1>2 DEF RelGoesOn
  <2>2. Answering(s)'
    <3>1. CASE s \in over
      BY <3>1 DEF Answering
    <3>2. CASE s \notin over
      <4>1. Msg("Ack", sink.final) \in sends'[s]
        BY <2>1, <3>2 DEF LifecycleTypeOK
      <4>. QED  BY <4>1 DEF Answering, Waits, Msg
    <3>. QED  BY <3>1, <3>2
  <2>3. Answers(s)'
    BY <2>2 DEF AnswerInv, Answers
  <2>4. f.unrel = sinks[s][n].unrel
    BY DEF SinkPairs
  <2>. HIDE DEF f
  <2>5. /\ LifecycleTypeOK /\ s \in Sides /\ n \in DOMAIN sinks[s]
        /\ sinks' = [sinks EXCEPT ![s][n] = f]
    BY <2>1
  <2>6. DOMAIN sinks'[s] = DOMAIN sinks[s]
    BY ONLY <2>5, SinkTouched
  <2>7. sinks'[s][n] = f
    BY ONLY <2>5 DEF LifecycleTypeOK
  <2>8. \A m \in DOMAIN sinks[s] : m # n => sinks'[s][m] = sinks[s][m]
    BY ONLY <2>5, SinkTouched
  <2>9. Queued(s)'
    BY <2>4, <2>6, <2>7, <2>8, StillQueued DEF AnswerInv
  <2>. QED  BY <2>3, <2>9 DEF AnswerInv
<1>. QED  BY <1>1, <1>2

LEMMA UseAnswers ==
    ASSUME LifecycleTypeOK, NEW s \in Sides, AnswerInv(s), NEW n \in DOMAIN sinks[s],
           \/ Rel(s, n) \/ Unrel(s, n) \/ DropRel(s, n) \/ DropUnrel(s, n)
    PROVE  AnswerInv(s)'
<1>0. sinks[s][n] \in SinkPairs
  BY SinkOf
<1>1. ASSUME NEW e, sinks' = [sinks EXCEPT ![s][n] = e],
             UNCHANGED <<acked, over, ended, role, cmd, messages, sends>>,
             e.rel = "ended" => sinks[s][n].rel = "ended",
             e.unrel = "ended" => sinks[s][n].unrel = "ended",
             sinks[s][n].unrel = "queued" => e.unrel = "queued",
             Abandoned(sinks[s][n]) => Abandoned(e)
      PROVE  AnswerInv(s)'
  BY <1>1, SinkAnswers
<1>2. CASE RelCall(s, n)
  <2>1. PICK passed \in Passed(sinks[s][n], n, sinks[s][n].final) :
            RelGoesOn(s, n, sinks[s][n], passed)
    BY <1>2 DEF RelCall
  <2>2. passed \in BOOLEAN
    BY <1>0 DEF Passed, SinkPairs
  <2>3. /\ UNCHANGED <<acked, over, ended, role, cmd, messages>>
        /\ sinks[s][n].rel = "idle"
    BY <1>2 DEF RelCall
  <2>. QED  BY <1>0, <2>1, <2>2, <2>3, GoesOnAnswers
<1>3. CASE RelTake(s, n)
  <2>. DEFINE sink == [sinks[s][n] EXCEPT !.final = sinks[s][n].ask, !.ask = 0]
  <2>1. PICK passed \in Passed(sink, n, sink.final) : RelGoesOn(s, n, sink, passed)
    BY <1>3 DEF RelTake
  <2>2. sink \in SinkPairs /\ sink.rel = sinks[s][n].rel /\ sink.unrel = sinks[s][n].unrel
    BY <1>0 DEF SinkPairs
  <2>3. passed \in BOOLEAN
    BY <2>2 DEF Passed, SinkPairs
  <2>4. /\ UNCHANGED <<acked, over, ended, role, cmd, messages>>
        /\ sinks[s][n].rel = "waiting"
    BY <1>3 DEF RelTake
  <2>. HIDE DEF sink
  <2>. QED  BY <2>1, <2>2, <2>3, <2>4, GoesOnAnswers
<1>4. CASE RelRead(s, n)
  <2>. DEFINE e == [sinks[s][n] EXCEPT !.full = TRUE, !.rel = "idle"]
  <2>1. /\ sinks' = [sinks EXCEPT ![s][n] = e] /\ sinks[s][n].rel = "waiting"
        /\ UNCHANGED <<acked, over, ended, role, cmd, messages, sends>>
    BY <1>4 DEF RelRead
  <2>2. e.rel = "idle" /\ e.unrel = sinks[s][n].unrel /\ ~Abandoned(sinks[s][n])
    BY <1>0, <2>1 DEF SinkPairs, Abandoned
  <2>. HIDE DEF e
  <2>. QED  BY <1>1, <2>1, <2>2
<1>5. CASE UnrelCheck(s, n)
  <2>. DEFINE e == [sinks[s][n] EXCEPT !.unrel =
                        IF s \in ended THEN "ended" ELSE "checked"]
  <2>1. /\ sinks' = [sinks EXCEPT ![s][n] = e] /\ sinks[s][n].unrel = "idle"
        /\ UNCHANGED <<acked, over, ended, role, cmd, messages, sends>>
    BY <1>5 DEF UnrelCheck
  <2>2. /\ e.rel = sinks[s][n].rel /\ ~Abandoned(sinks[s][n])
        /\ e.unrel = "ended" => s \in ended
    BY <1>0, <2>1 DEF SinkPairs, Abandoned
  <2>. HIDE DEF e
  <2>3. CASE s \notin ended
    BY <1>1, <2>1, <2>2, <2>3
  <2>4. CASE s \in ended
    <3>1. acked'[s] # {} \/ s \in over'
      BY <2>1, <2>4 DEF AnswerInv, Answers
    <3>2. /\ LifecycleTypeOK /\ s \in Sides /\ n \in DOMAIN sinks[s]
          /\ sinks' = [sinks EXCEPT ![s][n] = e]
      BY <2>1
    <3>3. DOMAIN sinks'[s] = DOMAIN sinks[s]
      BY ONLY <3>2, SinkTouched
    <3>4. \A m \in DOMAIN sinks[s] : m # n => sinks'[s][m] = sinks[s][m]
      BY ONLY <3>2, SinkTouched
    <3>5. Queued(s)'
      BY <2>1, <3>3, <3>4, StillQueued DEF AnswerInv
    <3>. QED  BY <3>1, <3>5, FinalAnswers DEF AnswerInv
  <2>. QED  BY <2>3, <2>4
<1>6. CASE UnrelWait(s, n)
  <2>. DEFINE e == [sinks[s][n] EXCEPT !.unrel = "waiting"]
  <2>1. /\ sinks' = [sinks EXCEPT ![s][n] = e] /\ sinks[s][n].unrel = "checked"
        /\ UNCHANGED <<acked, over, ended, role, cmd, messages, sends>>
    BY <1>6 DEF UnrelWait
  <2>2. e.unrel = "waiting" /\ e.rel = sinks[s][n].rel /\ ~Abandoned(sinks[s][n])
    BY <1>0, <2>1 DEF SinkPairs, Abandoned
  <2>. HIDE DEF e
  <2>. QED  BY <1>1, <2>1, <2>2
<1>7. CASE DropRel(s, n)
  <2>. DEFINE e == [sinks[s][n] EXCEPT !.rel = "dropped", !.ask = 0, !.final = 0]
  <2>1. /\ sinks' = [sinks EXCEPT ![s][n] = e] /\ sinks[s][n].rel = "idle"
        /\ UNCHANGED <<acked, over, ended, role, cmd, messages, sends>>
    BY <1>7 DEF DropRel
  <2>2. e.rel = "dropped" /\ e.unrel = sinks[s][n].unrel /\ ~Abandoned(sinks[s][n])
    BY <1>0, <2>1 DEF SinkPairs, Abandoned
  <2>. HIDE DEF e
  <2>. QED  BY <1>1, <2>1, <2>2
<1>8. CASE DropUnrel(s, n)
  <2>. DEFINE e == [sinks[s][n] EXCEPT !.unrel = "dropped"]
  <2>1. /\ sinks' = [sinks EXCEPT ![s][n] = e] /\ sinks[s][n].unrel = "idle"
        /\ UNCHANGED <<acked, over, ended, role, cmd, messages, sends>>
    BY <1>8 DEF DropUnrel
  <2>2. e.unrel = "dropped" /\ e.rel = sinks[s][n].rel /\ ~Abandoned(sinks[s][n])
    BY <1>0, <2>1 DEF SinkPairs, Abandoned
  <2>. HIDE DEF e
  <2>. QED  BY <1>1, <2>1, <2>2
<1>. QED  BY <1>2, <1>3, <1>4, <1>5, <1>6, <1>7, <1>8 DEF Rel, Unrel

\* A side starts its own transfer only once what it received has ended, and
\* so was answered.
LEMMA CallStartAnswers ==
    ASSUME LifecycleTypeOK, Polite, NEW s \in Sides, AnswerInv(s), CallStart(s)
    PROVE  AnswerInv(s)'
<1>1. /\ Idle(s)
      /\ UNCHANGED <<acked, sinks, over, ended, messages, sends, role>>
  BY DEF CallStart, MyTurn
<1>2. Answering(s) => Answering(s)'
  BY <1>1 DEF Answering
<1>3. Queued(s)'
  BY <1>1 DEF AnswerInv, Queued
<1>4. ASSUME Len(sinks[s]) = 1
      PROVE  Answering(s) \/ Abandoned(sinks[s][1])
  <2>1. 1 \in DOMAIN sinks[s]
    <3>1. sinks[s] \in Seq(SinkPairs)
      BY DEF LifecycleTypeOK
    <3>. QED  BY <1>4, <3>1, LenProperties
  <2>2. {sinks[s][1].rel, sinks[s][1].unrel} \subseteq {"ended", "dropped"}
    BY <1>1, <2>1 DEF Idle
  <2>3. CASE "ended" \in {sinks[s][1].rel, sinks[s][1].unrel}
    BY <2>1, <2>3 DEF AnswerInv, Answers
  <2>4. CASE "ended" \notin {sinks[s][1].rel, sinks[s][1].unrel}
    <3>1. sinks[s][1].rel = "dropped" /\ sinks[s][1].unrel = "dropped"
      BY <2>2, <2>4
    <3>. QED  BY <3>1 DEF Abandoned
  <2>. QED  BY <2>3, <2>4
<1>5. Answers(s)'
  BY <1>1, <1>2, <1>4 DEF AnswerInv, Answers
<1>. QED  BY <1>3, <1>5 DEF AnswerInv

\* A transfer taken from the channel is the first that is queued.
LEMMA AcceptAnswers ==
    ASSUME LifecycleTypeOK, NEW s \in Sides, AnswerInv(s), Accept(s)
    PROVE  AnswerInv(s)'
<1>. DEFINE q == messages[s]
            n == Head(q)
            e == Taken(sinks[s][n])
<1>1. /\ UNCHANGED <<acked, over, ended, role, cmd, sends>>
      /\ n = 0 => sinks' = sinks
      /\ n # 0 => sinks' = [sinks EXCEPT ![s][n] = e]
  BY DEF Accept
<1>2. q \in Seq(Nat) /\ q # << >> /\ messages'[s] = Tail(q)
  BY DEF Accept, LifecycleTypeOK
<1>3. /\ Len(q) \in Nat /\ DOMAIN q = 1 .. Len(q) /\ n = q[1] /\ 1 \in DOMAIN q
      /\ DOMAIN Tail(q) = 1 .. Len(q) - 1
      /\ \A i \in DOMAIN Tail(q) : Tail(q)[i] = q[i + 1]
  BY <1>2, HeadTailProperties, EmptySeq, LenProperties
<1>4. /\ \A i \in DOMAIN Tail(q) : /\ i + 1 \in DOMAIN q /\ i + 1 # 1
                                   /\ Tail(q)[i] = q[i + 1] /\ i \in Int
      /\ \A i, j \in DOMAIN Tail(q) : i + 1 = j + 1 => i = j
  BY <1>3
<1>5. /\ \A i, j \in DOMAIN q : q[i] = q[j] /\ q[i] # 0 => i = j
      /\ \A i \in DOMAIN q : q[i] # 0 =>
            q[i] \in DOMAIN sinks[s] /\ sinks[s][q[i]].unrel = "queued"
  BY DEF AnswerInv, Queued
<1>. HIDE DEF q, n
<1>6. CASE n = 0
  <2>1. sinks' = sinks
    BY <1>1, <1>6
  <2>2. Tame(s)
    BY <1>1, <2>1 DEF Tame, SinkTame, Abandoned
  <2>3. Queued(s)'
    BY <1>2, <1>4, <1>5, <2>1 DEF Queued
  <2>. QED  BY <2>2, <2>3, TameAnswers DEF AnswerInv
<1>7. CASE n # 0
  <2>1. n \in DOMAIN sinks[s] /\ sinks[s][n].unrel = "queued"
    BY <1>3, <1>5, <1>7
  <2>2. sinks[s][n] \in SinkPairs
    BY <2>1, SinkOf
  <2>3. e.rel = "ended" => sinks[s][n].rel = "ended"
    BY <2>2 DEF Taken, SinkPairs
  <2>4. e.unrel = "idle" /\ ~Abandoned(sinks[s][n])
    BY <2>1, <2>2 DEF Taken, SinkPairs, Abandoned
  <2>5. /\ LifecycleTypeOK /\ s \in Sides /\ n \in DOMAIN sinks[s]
        /\ sinks' = [sinks EXCEPT ![s][n] = e]
    BY <1>1, <1>7, <2>1
  <2>. HIDE DEF e
  <2>6. Len(sinks'[s]) = Len(sinks[s]) /\ DOMAIN sinks'[s] = DOMAIN sinks[s]
    BY ONLY <2>5, SinkTouched
  <2>7. sinks'[s][n] = e
    BY ONLY <2>5 DEF LifecycleTypeOK
  <2>8. \A m \in DOMAIN sinks[s] : m # n => sinks'[s][m] = sinks[s][m]
    BY ONLY <2>5, SinkTouched
  <2>9. \A m \in DOMAIN sinks[s] : SinkTame(s, m)
    BY <2>3, <2>4, <2>7, <2>8 DEF SinkTame, Abandoned
  <2>10. Tame(s)
    BY <1>1, <2>6, <2>9 DEF Tame
  <2>11. \A i \in DOMAIN Tail(q) : Tail(q)[i] # n
    BY <1>3, <1>4, <1>5, <1>7
  <2>12. Queued(s)'
    BY <1>2, <1>4, <1>5, <2>6, <2>8, <2>11 DEF Queued
  <2>. QED  BY <2>10, <2>12, TameAnswers DEF AnswerInv
<1>. QED  BY <1>6, <1>7

\* What the application does keeps it.
LEMMA AppAnswers ==
    ASSUME TurnsInv, Polite, NEW s \in Sides, AnswerInv(s), App(s)
    PROVE  AnswerInv(s)'
<1>0. LifecycleTypeOK
  BY DEF TurnsInv
<1>1. CASE CallPayload(s)
  <2>1. /\ UNCHANGED <<acked, sinks, over, ended, messages, sends, role>>
        /\ cmd'[s] = "payload"
    BY <1>0, <1>1 DEF CallPayload, LifecycleTypeOK
  <2>. QED  BY <1>0, <2>1, IdleAnswers
<1>2. ASSUME NEW n \in DOMAIN out[s],
             CallEnd(s, n) \/ DropStream(s, n) \/ Expire(s, n)
      PROVE  AnswerInv(s)'
  <2>1. UNCHANGED <<acked, sinks, over, ended, messages, role, cmd>>
    BY <1>2 DEF CallEnd, DropStream, GiveUpStream, Expire
  <2>2. \/ sends' = sends
        \/ sends' = [sends EXCEPT ![s] = @ \cup {Msg("End", n)}]
    BY <1>2 DEF CallEnd, DropStream, GiveUpStream, Expire
  <2>3. Waits(sends[s], "Ack") => Waits(sends'[s], "Ack")
    BY <1>0, <2>2 DEF Waits, LifecycleTypeOK
  <2>. QED  BY <1>0, <2>1, <2>3, IdleAnswers
<1>3. CASE DropHandle(s)
  <2>1. /\ UNCHANGED <<acked, over, ended, role, cmd, sends>>
        /\ messages'[s] = << >>
    BY <1>0, <1>3 DEF DropHandle, LifecycleTypeOK
  <2>2. Len(sinks'[s]) = Len(sinks[s])
    <3>1. s = Other(Other(s)) /\ Other(s) \in Sides
      BY DEF Sides, Other
    <3>2. ReceiverQuiet(s)
      BY <1>0, <1>3, <3>1, HandleQuiet DEF AllQuiet
    <3>. QED  BY <3>2 DEF ReceiverQuiet
  <2>3. /\ DOMAIN sinks'[s] = DOMAIN sinks[s]
        /\ \A n \in DOMAIN sinks[s] :
              sinks'[s][n] = IF sinks[s][n].unrel = "queued"
                             THEN [sinks[s][n] EXCEPT !.rel = "dropped",
                                                      !.unrel = "dropped", !.ask = 0]
                             ELSE sinks[s][n]
    BY <1>0, <1>3 DEF DropHandle, LifecycleTypeOK
  <2>4. ASSUME NEW n \in DOMAIN sinks[s]
        PROVE  SinkTame(s, n)
    <3>1. sinks[s][n] \in SinkPairs
      BY <1>0, SinkOf
    <3>2. CASE sinks[s][n].unrel = "queued"
      <4>1. sinks'[s][n].rel = "dropped" /\ sinks'[s][n].unrel = "dropped"
        BY <2>3, <3>1, <3>2 DEF SinkPairs
      <4>. QED  BY <4>1 DEF SinkTame, Abandoned
    <3>3. CASE sinks[s][n].unrel # "queued"
      BY <2>3, <3>3 DEF SinkTame, Abandoned
    <3>. QED  BY <3>2, <3>3
  <2>5. Tame(s)
    BY <2>1, <2>2, <2>3, <2>4 DEF Tame
  <2>. QED  BY <1>0, <2>1, <2>5, EmptyQueue, TameAnswers DEF AnswerInv
<1>4. ASSUME NEW n \in DOMAIN sinks[s],
             Rel(s, n) \/ Unrel(s, n) \/ DropRel(s, n) \/ DropUnrel(s, n)
      PROVE  AnswerInv(s)'
  BY <1>0, <1>4, UseAnswers
<1>. QED  BY <1>0, <1>1, <1>2, <1>3, <1>4, CallStartAnswers, AcceptAnswers DEF App

Answered == \A s \in Sides : AnswerInv(s)

LEMMA InitAnswered == LifecycleInit => Answered
<1>. SUFFICES ASSUME LifecycleInit, NEW s \in Sides
              PROVE  AnswerInv(s)
  BY DEF Answered
<1>1. /\ ended = {} /\ sinks[s] = << >> /\ messages[s] = << >>
  BY DEF LifecycleInit
<1>. QED  BY <1>1 DEF AnswerInv, Answers, Queued

LEMMA StepsKeepAnswered ==
    ASSUME Polite, TurnsInv, Answered, [LifecycleNext]_svars
    PROVE  Answered'
<1>. SUFFICES ASSUME NEW s \in Sides
              PROVE  AnswerInv(s)'
  BY DEF Answered
<1>0. LifecycleTypeOK /\ AnswerInv(s)
  BY DEF TurnsInv, Answered
<1>1. CASE UNCHANGED svars
  <2>1. Undisturbed(s)
    BY <1>1 DEF svars, Undisturbed
  <2>. QED  BY <1>0, <2>1, UndisturbedAnswers
<1>2. ASSUME NEW r \in Sides, r # s, Task(r) \/ App(r) \/ Lose(r)
      PROVE  AnswerInv(s)'
  BY <1>0, <1>2, Elsewhere, UndisturbedAnswers
<1>3. CASE Lose(s)
  <2>1. UNCHANGED <<acked, sinks, over, ended, messages, sends, role, cmd>>
    BY <1>3 DEF Lose
  <2>. QED  BY <1>0, <2>1, IdleAnswers
<1>4. CASE Task(s)
  BY <1>0, <1>4, TaskAnswers
<1>5. CASE App(s)
  BY <1>0, <1>5, AppAnswers
<1>. QED  BY <1>1, <1>2, <1>3, <1>4, <1>5 DEF LifecycleNext

-----------------------------------------------------------------------------
(* The theorems.                                                            *)

\* Between applications that take turns there is at most one transfer whose
\* outcome is open, one end or answer of it under way, and whatever was
\* acknowledged has been read.
THEOREM TurnsTaken ==
    ASSUME Polite PROVE LifecycleSpec => []TurnsInv
<1>1. LifecycleInit => TurnsInv
  BY InitTyped, InitTurns DEF TurnsInv
<1>2. TurnsInv /\ [LifecycleNext]_svars => TurnsInv'
  BY StepsKeepTypes, StepsKeepTurns DEF TurnsInv
<1>. QED  BY <1>1, <1>2, PTL DEF LifecycleSpec

\* end() returns Ok only for a transfer that the other side has acknowledged
\* and whose reliable sink has read all of it (send.rs:218-232), when the
\* applications take turns.
THEOREM EndOkMeansAckedHolds ==
    ASSUME Polite PROVE LifecycleSpec => []EndOkMeansAcked
<1>1. TurnsInv => EndOkMeansAcked
  <2>. SUFFICES ASSUME TurnsInv, NEW s \in Sides, NEW n \in DOMAIN out[s],
                       out[s][n].call = "ok"
                PROVE  n \in acked[Other(s)] /\ Whole(s, n)
    BY DEF EndOkMeansAcked, Whole
  <2>1. n \in 1 .. Begun(s) /\ Outcomes(s)
    BY Lengths DEF TurnsInv, TurnInv
  <2>. QED  BY <2>1 DEF Outcomes
<1>. QED  BY <1>1, TurnsTaken, PTL

\* A reliable sink reports the end of a transfer only once it has returned all
\* of it, when the applications take turns: the end() of another transfer
\* never wakes it (RecvCoordinator::end()).
THEOREM RelEndsCompleteHolds ==
    ASSUME Polite PROVE LifecycleSpec => []RelEndsComplete
<1>1. TurnsInv => RelEndsComplete
  <2>. SUFFICES ASSUME TurnsInv, NEW r \in Sides, NEW n \in DOMAIN sinks[r],
                       sinks[r][n].rel = "ended", out[Other(r)][n].dual
                PROVE  sinks[r][n].full \/ out[Other(r)][n].empty
    BY DEF RelEndsComplete
  <2>. DEFINE s == Other(r)
  <2>1. s \in Sides /\ Other(s) = r /\ LifecycleTypeOK /\ Outcomes(s)
    BY DEF Sides, Other, TurnsInv, TurnInv
  <2>2. n \in 1 .. Came(s)
    BY <2>1, Lengths
  <2>3. Whole(s, n)
    BY <2>1, <2>2 DEF Outcomes
  <2>. QED  BY <2>1, <2>3 DEF Whole
<1>. QED  BY <1>1, TurnsTaken, PTL

\* Nor does a task whose handle is gone close the stream before it has
\* acknowledged the first transfer it received, so long as the application
\* still reads it (stream.rs:142-151), when the applications take turns.
THEOREM AckBeforeCloseHolds ==
    ASSUME Polite PROVE LifecycleSpec => []AckBeforeClose
<1>1. LifecycleInit => Answered
  BY InitAnswered
<1>2. TurnsInv /\ Answered /\ [LifecycleNext]_svars => Answered'
  BY StepsKeepAnswered
<1>3. LifecycleInv /\ TurnsInv /\ Answered => AckBeforeClose
  <2>. SUFFICES ASSUME LifecycleInv, TurnsInv, Answered,
                       NEW s \in closing \ over, Settled(s), Len(sinks[s]) = 1,
                       ~Abandoned(sinks[s][1])
                PROVE  1 \in acked[s]
    BY DEF AckBeforeClose
  <2>1. /\ s \in Sides /\ LifecycleTypeOK /\ pending[s] = 0 /\ AnswerInv(s)
        /\ role[s].is = "receiver" => s \in ended
    BY DEF LifecycleInv, LifecycleTypeOK, Settled, Answered
  <2>2. ~Waits(sends[s], "Ack")
    <3>1. IsFiniteSet(Owed(s)) /\ Cardinality(Owed(s)) <= 0
      BY <2>1 DEF LifecycleInv, Covered
    <3>2. Owed(s) = {}
      BY <3>1, FS_CardinalityType, FS_EmptySet
    <3>3. ASSUME NEW m \in sends[s], m.kind = "Ack"
          PROVE  FALSE
      <4>1. m \in Messages
        BY <2>1 DEF LifecycleTypeOK
      <4>2. m.n \in Nat /\ m = Msg("Ack", m.n)
        BY <3>3, <4>1 DEF Messages, Msg
      <4>3. <<"ack", m.n>> \in Owed(s)
        BY <4>2 DEF Owed
      <4>. QED  BY <3>2, <4>3
    <3>. QED  BY <3>3 DEF Waits
  <2>3. Answering(s) => acked[s] # {}
    BY <2>2 DEF Answering
  <2>4. acked[s] # {}
    BY <2>1, <2>3 DEF AnswerInv, Answers
  <2>5. acked[s] \subseteq 1 .. 1
    <3>1. Other(s) \in Sides /\ s = Other(Other(s))
      BY <2>1 DEF Sides, Other
    <3>. QED  BY <3>1 DEF TurnsInv, TurnInv, Outcomes, Came
  <2>. QED  BY <2>4, <2>5
<1>. QED  BY <1>1, <1>2, <1>3, TurnsTaken, EveryAnswerCounted, PTL DEF LifecycleSpec
=============================================================================
