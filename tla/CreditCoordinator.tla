-------------------------- MODULE CreditCoordinator --------------------------
(****************************************************************************)
(* CreditCoordinator of mani/transfer/recv.rs, as operators on its CoordState.
   A state holds, per sink, how many packets the application has drained and
   whether the sink is closed, and how many credits were emitted so far.  The
   counters are u64 and saturate; no run of the program comes near the limit.
   Dual is has_reliable: without it only the unreliable sink counts.          *)
(****************************************************************************)
EXTENDS Integers

CONSTANTS Dual,   \* TransferMode::Dual, else UnreliableOnly
          Bulk    \* credits_bulk_update_count

ASSUME CoordinatorAssumption ==
    /\ Dual \in BOOLEAN
    /\ Bulk \in Nat \ {0}

Sinks == {"reliable", "unreliable"}

NewCoord == [drained |-> [k \in Sinks |-> 0],
             closed  |-> [k \in Sinks |-> FALSE],
             emitted |-> 0]

Gating(c, k) == ~c.closed[k] /\ (k = "reliable" => Dual)

\* effective_count() returns None.
Ungated(c) == \A k \in Sinks : ~Gating(c, k)

\* Mutant: the faster sink sets the pace.
EffectiveCountMax(c) ==
    IF c.drained["reliable"] >= c.drained["unreliable"]
    THEN c.drained["reliable"]
    ELSE c.drained["unreliable"]

EffectiveCount(c) ==
    IF Gating(c, "reliable") /\ Gating(c, "unreliable")
    THEN IF c.drained["reliable"] <= c.drained["unreliable"]
         THEN c.drained["reliable"]
         ELSE c.drained["unreliable"]
    ELSE IF Gating(c, "reliable")
         THEN c.drained["reliable"]
         ELSE c.drained["unreliable"]

\* Mutant: a full batch still waits for one more drain.
EmissionLate(c, force) ==
    IF \/ Ungated(c)
       \/ EffectiveCount(c) <= c.emitted
       \/ ~force /\ EffectiveCount(c) - c.emitted <= Bulk
    THEN 0
    ELSE EffectiveCount(c) - c.emitted

\* What maybe_emit(force) sends: nothing (0) or all that is pending.
Emission(c, force) ==
    IF \/ Ungated(c)
       \/ EffectiveCount(c) <= c.emitted
       \/ ~force /\ EffectiveCount(c) - c.emitted < Bulk
    THEN 0
    ELSE EffectiveCount(c) - c.emitted

\* Mutant: a call of recv() counts as one drain, however many it returns.
DrainedOnce(c, k, n) == [c EXCEPT !.drained[k] = @ + 1]

Drained(c, k, n) == [c EXCEPT !.drained[k] = @ + n]

Closed(c, k) == [c EXCEPT !.closed[k] = TRUE]

Emitted(c, force) == [c EXCEPT !.emitted = @ + Emission(c, force)]

\* What the coordinator is for, as predicates of a state: credits emitted are
\* covered by the drains of every sink that gates them, or, when none does any
\* more, of some sink; and no whole batch of drained credits is kept back.
CoveredByDrains(c) ==
    /\ \A k \in Sinks : Gating(c, k) => c.emitted <= c.drained[k]
    /\ \E k \in Sinks : c.emitted <= c.drained[k]

NothingWithheld(c) == ~Ungated(c) => EffectiveCount(c) - c.emitted < Bulk
=============================================================================
