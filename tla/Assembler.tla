------------------------------ MODULE Assembler ------------------------------
(****************************************************************************)
(* The reordering buffer of the reliable sink (mani/transfer/assembler.rs). *)
(*                                                                          *)
(* A buffer is a record: cursor is the sequence number of the slot at the   *)
(* front, packets the slots behind it, each a payload or the hole Missing.  *)
(* A payload is named by the sequence number it was sent with.              *)
(*                                                                          *)
(* SequenceNumber is an unsigned machine word of SeqModulus values (2^32 in the *)
(* program).  Its derived + and - abort a build with overflow checks        *)
(* (OverflowChecks) and wrap in one without.                                *)
(****************************************************************************)
EXTENDS Integers, Sequences

CONSTANTS SeqModulus,          \* number of values of a SequenceNumber
          MaxBuffer,       \* max_retransmission_buffer_size
          OverflowChecks,  \* whether the build checks integer overflow
          Missing          \* the hole of an AssemblerPacket

ASSUME AssemblerAssumption ==
    /\ SeqModulus \in Nat \ {0}
    /\ MaxBuffer \in Nat
    /\ OverflowChecks \in BOOLEAN
    /\ Missing \notin Int

SeqNum == 0 .. (SeqModulus - 1)

SeqAdd(a, b) == (a + b) % SeqModulus

SeqSub(a, b) == (a - b) % SeqModulus

AddPanics(a, b) == OverflowChecks /\ a + b >= SeqModulus

SubPanics(a, b) == OverflowChecks /\ a < b

NewAssembler == [cursor |-> 0, packets |-> << >>]

Full(asm) == Len(asm.packets) >= MaxBuffer

\* index() returns Some: the buffer has a slot for s.
HasSlot(asm, s) == s >= asm.cursor /\ s - asm.cursor < Len(asm.packets)

Slot(asm, s) == s - asm.cursor + 1

Holes(n) == [i \in 1 .. n |-> Missing]

\* Mutant: one hole too few is put before the chunk.
PushShort(asm, s) ==
    IF Full(asm)
    THEN asm
    ELSE IF HasSlot(asm, s)
         THEN [asm EXCEPT !.packets[Slot(asm, s)] = s]
         ELSE [asm EXCEPT !.packets =
                 (@ \o Holes(SeqSub(s, asm.cursor) - 1)) \o << s >>]

\* push(): refused when full, whatever the slot; fills a hole once; beyond the
\* buffer it appends s - cursor holes behind whatever is there, then s.
Push(asm, s) ==
    IF Full(asm)
    THEN asm
    ELSE IF HasSlot(asm, s)
         THEN IF asm.packets[Slot(asm, s)] = Missing
              THEN [asm EXCEPT !.packets[Slot(asm, s)] = s]
              ELSE asm
         ELSE [asm EXCEPT !.packets =
                 (@ \o Holes(SeqSub(s, asm.cursor))) \o << s >>]

PushPanics(asm, s) ==
    ~Full(asm) /\ ~HasSlot(asm, s) /\ SubPanics(s, asm.cursor)

\* Mutant: the hole that ends the run is popped as well.
ReadableCountsLax(asm) ==
    {n \in 0 .. Len(asm.packets) :
        /\ \A i \in 1 .. (n - 1) : asm.packets[i] # Missing
        /\ n < Len(asm.packets) => asm.packets[n + 1] = Missing}

\* The number of payloads read_ordered() pops: all those before the first hole.
ReadableCounts(asm) ==
    {n \in 0 .. Len(asm.packets) :
        /\ \A i \in 1 .. n : asm.packets[i] # Missing
        /\ n < Len(asm.packets) => asm.packets[n + 1] = Missing}

Readable(asm, n) == SubSeq(asm.packets, 1, n)

AfterRead(asm, n) ==
    [cursor  |-> SeqAdd(asm.cursor, n),
     packets |-> SubSeq(asm.packets, n + 1, Len(asm.packets))]

ReadPanics(asm, n) == n > 0 /\ AddPanics(asm.cursor, n)

\* missing_sequence_numbers(); the peer looks each one up on its own.
MissingSeqs(asm) ==
    {SeqAdd(asm.cursor, i - 1) :
        i \in {j \in DOMAIN asm.packets : asm.packets[j] = Missing}}

MissingPanics(asm) ==
    \E i \in DOMAIN asm.packets :
        asm.packets[i] = Missing /\ AddPanics(asm.cursor, i - 1)
=============================================================================
