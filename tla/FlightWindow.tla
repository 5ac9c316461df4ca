---------------------------- MODULE FlightWindow ----------------------------
(***************************************************************************)
(* The delivery tracker of the bidirectional test: one direction's TX      *)
(* thread, RX thread and the UI thread that reaps, on the atomic bitset.   *)
(* Each load and store of a shared field is a step of its own.             *)
(*                                                                         *)
(* Between the threads lies the bus: frames reach the RX thread in the     *)
(* order sent, some not at all, some twice.  Frame s carries the sequence  *)
(* number s; bit s % kCapacity of the bitmap is its bit.                   *)
(***************************************************************************)
EXTENDS Integers, Sequences, FiniteSets

CONSTANTS kCapacity, kGraceEntries,
          ChunkSize,   \* frames harvested at once, 64
          LateOverlaps,\* a frame later than the grace period may be
                       \*   recorded during a reap
          MaxSeq,      \* bound of the model: frames sent in a test
          MaxTests,    \* bound of the model: tests started
          MaxDups      \* bound of the model: frames received twice

ASSUME WindowAssumption ==
    /\ ChunkSize \in Nat \ {0} /\ kGraceEntries \in Nat
    /\ kCapacity \in Nat /\ kCapacity % ChunkSize = 0
    /\ kCapacity >= ChunkSize + kGraceEntries
    /\ LateOverlaps \in BOOLEAN
    /\ MaxSeq \in Nat \ {0} /\ MaxTests \in Nat \ {0} /\ MaxDups \in Nat

VARIABLES
    head_seq_, ack_bitmap_, base_seq_, totalSent_, totalConfirmed_,
    counter, txPc,        \* TX thread: next number; "write", "record"
    bus,                  \* frames on their way, oldest first
    rxPc, rxSeq,          \* RX thread: where it is, the frame it records
    reapPc, reapHead,     \* UI thread: where it is, the head it loaded
    bits,                 \*   the bits it harvested
    acked, rejected,      \* history: frames whose bit was set; not set
    tests, dups           \* tests started, duplicates so far

windowVars == <<head_seq_, ack_bitmap_, base_seq_, totalSent_, totalConfirmed_>>
txVars     == <<counter, txPc>>
rxVars     == <<rxPc, rxSeq>>
reapVars   == <<reapPc, reapHead, bits>>
histVars   == <<acked, rejected, tests, dups>>
vars == <<windowVars, txVars, bus, rxVars, reapVars, histVars>>

Init ==
    /\ head_seq_ = 0 /\ ack_bitmap_ = {} /\ base_seq_ = 0
    /\ totalSent_ = 0 /\ totalConfirmed_ = 0
    /\ counter = 0 /\ txPc = "write"
    /\ bus = <<>>
    /\ rxPc = "idle" /\ rxSeq = 0
    /\ reapPc = "idle" /\ reapHead = 0 /\ bits = {}
    /\ acked = {} /\ rejected = {}
    /\ tests = 1 /\ dups = 0

\* The bit of frame s: the frames of a test go round the bitmap.
Bit(s) == s % kCapacity

\* Later than the grace period: its chunk may have been reaped.
Late(s) == head_seq_ - s > kGraceEntries

-----------------------------------------------------------------------------
(* bidirTxThread.  The reaper, called once a second, keeps the window from *)
(* being overrun: see the comment in the test MultiThreadStress.           *)

Write ==
    /\ txPc = "write"
    /\ counter < MaxSeq
    /\ counter < base_seq_ + kCapacity
    /\ bus' = Append(bus, counter)
    /\ txPc' = "record"
    /\ UNCHANGED <<windowVars, counter, rxVars, reapVars, histVars>>

\* The frame may have been received already.
OnTxSent ==
    /\ txPc = "record"
    /\ head_seq_' = counter + 1
    /\ counter' = counter + 1
    /\ txPc' = "write"
    /\ UNCHANGED <<ack_bitmap_, base_seq_, totalSent_, totalConfirmed_, bus,
                   rxVars, reapVars, histVars>>

-----------------------------------------------------------------------------
(* bidirRxThread and onRxReceived. *)

Lose ==
    /\ bus # <<>>
    /\ bus' = Tail(bus)
    /\ UNCHANGED <<windowVars, txVars, rxVars, reapVars, histVars>>

RxTake ==
    /\ rxPc = "idle"
    /\ bus # <<>>
    /\ Late(Head(bus)) /\ ~LateOverlaps => reapPc = "idle"
    /\ rxSeq' = Head(bus)
    /\ rxPc' = "head"
    /\ \/ bus' = Tail(bus) /\ UNCHANGED dups
       \/ dups < MaxDups /\ dups' = dups + 1 /\ UNCHANGED bus
    /\ UNCHANGED <<windowVars, txVars, reapVars, acked, rejected, tests>>

Reject ==
    /\ rejected' = rejected \union {rxSeq}
    /\ rxPc' = "idle"

RxCheckHead ==
    /\ rxPc = "head"
    /\ IF head_seq_ > rxSeq /\ head_seq_ - rxSeq > kCapacity
       THEN Reject
       ELSE rxPc' = "base" /\ UNCHANGED rejected
    /\ UNCHANGED <<windowVars, txVars, bus, rxSeq, reapVars, acked, tests, dups>>

(* Mutants of Reaped: the frame at the base is rejected; none is.          *)
ReapedInclusive(s) == s <= base_seq_
ReapedNever(s) == FALSE
Reaped(s) == s < base_seq_

RxCheckBase ==
    /\ rxPc = "base"
    /\ IF Reaped(rxSeq)
       THEN Reject
       ELSE rxPc' = "set" /\ UNCHANGED rejected
    /\ UNCHANGED <<windowVars, txVars, bus, rxSeq, reapVars, acked, tests, dups>>

RxSet ==
    /\ rxPc = "set"
    /\ ack_bitmap_' = ack_bitmap_ \union {Bit(rxSeq)}
    /\ acked' = acked \union {rxSeq}
    /\ rxPc' = "idle"
    /\ UNCHANGED <<head_seq_, base_seq_, totalSent_, totalConfirmed_, txVars,
                   bus, rxSeq, reapVars, rejected, tests, dups>>

-----------------------------------------------------------------------------
(* reap, by the UI thread. *)

ReapBegin ==
    /\ reapPc = "idle"
    /\ rxPc # "idle" /\ Late(rxSeq) => LateOverlaps
    /\ reapHead' = head_seq_
    /\ reapPc' = "walk"
    /\ UNCHANGED <<windowVars, txVars, bus, rxVars, bits, histVars>>

Word == {Bit(s) : s \in base_seq_ .. base_seq_ + ChunkSize - 1}

Reapable == base_seq_ + ChunkSize + kGraceEntries <= reapHead

ReapHarvest ==
    /\ reapPc = "walk"
    /\ IF Reapable
       THEN /\ bits' = ack_bitmap_ \intersect Word
            /\ ack_bitmap_' = ack_bitmap_ \ Word
            /\ reapPc' = "count"
       ELSE /\ reapPc' = "idle"
            /\ UNCHANGED <<bits, ack_bitmap_>>
    /\ UNCHANGED <<head_seq_, base_seq_, totalSent_, totalConfirmed_, txVars,
                   bus, rxVars, reapHead, histVars>>

ReapAdvance ==
    /\ reapPc = "count"
    /\ totalSent_' = totalSent_ + ChunkSize
    /\ totalConfirmed_' = totalConfirmed_ + Cardinality(bits)
    /\ base_seq_' = base_seq_ + ChunkSize
    /\ reapPc' = "walk"
    /\ UNCHANGED <<head_seq_, ack_bitmap_, txVars, bus, rxVars, reapHead, bits,
                   histVars>>

-----------------------------------------------------------------------------
(* stopTest has joined the threads; startTest resets the window and reads  *)
(* what is left on the bus.                                                *)
StartTest ==
    /\ tests < MaxTests
    /\ txPc = "write" /\ rxPc = "idle" /\ reapPc = "idle"
    /\ tests' = tests + 1
    /\ head_seq_' = 0 /\ ack_bitmap_' = {} /\ base_seq_' = 0
    /\ totalSent_' = 0 /\ totalConfirmed_' = 0
    /\ counter' = 0 /\ bus' = <<>>
    /\ acked' = {} /\ rejected' = {}
    /\ UNCHANGED <<txPc, rxVars, reapVars, dups>>

-----------------------------------------------------------------------------
Tx == Write \/ OnTxSent
Rx == Lose \/ RxTake \/ RxCheckHead \/ RxCheckBase \/ RxSet
Reap == ReapBegin \/ ReapHarvest \/ ReapAdvance

Next == Tx \/ Rx \/ Reap \/ StartTest

Spec == Init /\ [][Next]_vars

-----------------------------------------------------------------------------
Bits == 0 .. kCapacity - 1
Seqs == 0 .. MaxSeq - 1

(* The values each variable takes in every reachable state.                *)
TypeOK ==
    /\ head_seq_ \in 0 .. MaxSeq /\ counter \in 0 .. MaxSeq
    /\ ack_bitmap_ \subseteq Bits /\ bits \subseteq Bits
    /\ base_seq_ \in 0 .. MaxSeq /\ totalSent_ = base_seq_
    /\ totalConfirmed_ \in 0 .. totalSent_
    /\ txPc \in {"write", "record"}
    /\ bus \in Seq(Seqs)
    /\ rxPc \in {"idle", "head", "base", "set"} /\ rxSeq \in Seqs
    /\ reapPc \in {"idle", "walk", "count"} /\ reapHead \in 0 .. MaxSeq
    /\ acked \subseteq Seqs /\ rejected \subseteq Seqs
    /\ tests \in 1 .. MaxTests /\ dups \in 0 .. MaxDups

(* The delivery rate is exact: of the frames reaped, those confirmed are   *)
(* as many as had their reception recorded.  No bit is counted for a frame *)
(* of another round of the window, nor twice, nor lost in a reap.          *)
ConfirmedExact ==
    /\ TypeOK
    /\ totalConfirmed_ = Cardinality({s \in acked : s < base_seq_})

(* A received frame is left out of the count only if it came later than    *)
(* the grace period.                                                       *)
RejectedOnlyLate == \A s \in rejected : Late(s)
=============================================================================
