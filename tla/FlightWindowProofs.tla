-------------------------- MODULE FlightWindowProofs --------------------------
(***************************************************************************)
(* Proofs about the delivery tracker and the metrics of the bidirectional  *)
(* test, for every capacity, chunk, grace period and bound that satisfy    *)
(* the assumptions.                                                        *)
(*                                                                         *)
(* The argument.  All frames on their way or received lie less than one    *)
(* round of the bitmap above the base (WrittenInv), so a bit stands for    *)
(* one frame, and those set are those of the frames recorded and not yet   *)
(* harvested (BitsInv).  A frame about to be recorded is not below the     *)
(* chunk being reaped (GraceInv), provided no frame later than the grace   *)
(* period meets a reap (~LateOverlaps).  For the metrics, the last         *)
(* sequence number is the largest seen, and each frame on the bus twice    *)
(* over was counted as a duplicate.                                        *)
(***************************************************************************)
EXTENDS BidirTest, FiniteSetTheorems, TLAPS
-----------------------------------------------------------------------------
(* Remainders, the least of a set of numbers, sequences joined.            *)

(* Two positions less than m apart have different remainders. *)
LEMMA ModInjective ==
    ASSUME NEW m \in Nat \ {0}, NEW a \in Int, NEW b \in Int,
           a < b, b - a < m
    PROVE  a % m # b % m
<1> DEFINE d == (b \div m) - (a \div m)
<1>1. d \in Int /\ (a % m = b % m => b - a = m * d)
  OBVIOUS
<1> HIDE DEF d
<1>2. (d <= 0 => m * d <= 0) /\ (d >= 1 => m * d >= m)
  BY <1>1
<1> QED
  BY <1>1, <1>2

(* A set of naturals has a least element. *)
LEMMA LeastNatural ==
    ASSUME NEW S, S \subseteq Nat, S # {}
    PROVE  \E m \in S : \A k \in S : m <= k
<1>1. PICK m \in S : \A k \in S : ~ (<<k, m>> \in OpToRel(<, Nat))
  BY WFMin, NatLessThanWellFounded, Zenon
<1>2. \A k \in S : ~ (k < m)
  BY <1>1 DEF OpToRel
<1> QED
  BY <1>2

(* One sequence after another. *)
LEMMA Concatenation ==
    ASSUME NEW S, NEW s \in Seq(S), NEW t \in Seq(S)
    PROVE  /\ Len(s) \in Nat /\ DOMAIN s = 1 .. Len(s)
           /\ Len(t) \in Nat /\ DOMAIN t = 1 .. Len(t)
           /\ s \o t \in Seq(S) /\ Len(s \o t) = Len(s) + Len(t)
           /\ DOMAIN (s \o t) = 1 .. Len(s) + Len(t)
           /\ \A i \in 1 .. Len(s) : (s \o t)[i] = s[i]
           /\ \A i \in 1 .. Len(t) : (s \o t)[Len(s) + i] = t[i]
  OBVIOUS

USE WindowAssumption, BurstAssumption
    DEF Bits, Seqs, windowVars, txVars, rxVars, reapVars, histVars, metricsVars

-----------------------------------------------------------------------------
(* The types, and the order of head, reaped head and base.                 *)

CountTypes ==
    /\ head_seq_ \in 0 .. MaxSeq /\ counter = head_seq_
    /\ base_seq_ \in Nat /\ totalSent_ = base_seq_
    /\ totalConfirmed_ \in 0 .. totalSent_
    /\ reapHead \in 0 .. MaxSeq

SetTypes ==
    /\ ack_bitmap_ \subseteq Bits /\ bits \subseteq Bits
    /\ acked \subseteq Seqs /\ rejected \subseteq Seqs

ThreadTypes ==
    /\ txPc \in {"write", "record"}
    /\ rxPc \in {"idle", "head", "base", "set"} /\ rxSeq \in Seqs
    /\ reapPc \in {"idle", "walk", "count"}
    /\ bus \in Seq(Seqs)
    /\ tests \in 1 .. MaxTests /\ dups \in 0 .. MaxDups

(* Reaping stays the grace period behind the head.                         *)
ReapInv ==
    /\ base_seq_ > 0 => base_seq_ + kGraceEntries <= head_seq_
    /\ reapPc # "idle" => reapHead <= head_seq_
    /\ reapPc = "count" =>
         /\ base_seq_ + ChunkSize + kGraceEntries <= reapHead
         /\ Cardinality(bits) <= ChunkSize

(* The first number no frame has yet; the frames stay less than one round  *)
(* above the base.                                                         *)
Written == IF txPc = "record" THEN counter + 1 ELSE counter

WrittenInv ==
    /\ Written <= base_seq_ + kCapacity /\ Written <= MaxSeq
    /\ \A i \in DOMAIN bus : bus[i] < Written
    /\ \A s \in Seen : s < Written

WindowInv ==
    CountTypes /\ SetTypes /\ ThreadTypes /\ ReapInv /\ WrittenInv
    /\ RejectedOnlyLate

-----------------------------------------------------------------------------
(* The bits of the frames recorded. *)

Recorded(from, to) == {s \in acked : from <= s /\ s < to}

Unharvested == IF reapPc = "count" THEN base_seq_ + ChunkSize ELSE base_seq_

(* The frame at hand during a reap is not older than the grace period.     *)
GraceInv ==
    /\ rxPc # "idle" /\ reapPc # "idle" => reapHead <= rxSeq + kGraceEntries
    /\ rxPc = "set" => base_seq_ <= rxSeq

BitsInv ==
    /\ ack_bitmap_ = {Bit(s) : s \in Recorded(Unharvested, MaxSeq)}
    /\ reapPc = "count" =>
         bits = {Bit(s) : s \in Recorded(base_seq_, base_seq_ + ChunkSize)}
    /\ totalConfirmed_ = Cardinality(Recorded(0, base_seq_))

-----------------------------------------------------------------------------
(* The metrics. *)

Engines == [messagesSent : Nat, messagesReceived : Nat, rxSequenceGaps : Nat,
            secSeqGaps : Nat, rxOutOfOrder : Nat, rxDuplicates : Nat,
            rxLastSequence : Nat]

MetricTypes == engine \in Engines /\ framesSent \in Nat /\ drained \in Nat

OnBus == {s \in Seen : \E i \in DOMAIN bus : bus[i] = s}

LastInv ==
    /\ engine.messagesReceived = 0 <=> Seen = {}
    /\ Seen # {} => /\ engine.rxLastSequence \in Seen
                    /\ \A s \in Seen : s <= engine.rxLastSequence

(* A frame seen and still on the bus is one whose duplicate is to come.    *)
TrafficInv ==
    /\ engine.messagesSent + framesSent = head_seq_
    /\ Cardinality(Seen) + engine.rxDuplicates <= engine.messagesReceived
    /\ engine.messagesReceived + Cardinality(OnBus) <= Cardinality(Seen) + dups

BusInv == \A i, j \in DOMAIN bus : bus[i] = bus[j] => i = j

(* Without a duplicate or an overtaking frame the numbers increase.        *)
OrderInv ==
    dups = 0 =>
        /\ \A i, j \in DOMAIN bus : i < j => bus[i] < bus[j]
        /\ \A s \in Seen : \A i \in DOMAIN bus : s < bus[i]

MetricInv ==
    MetricTypes /\ LastInv /\ TrafficInv /\ BusInv /\ OrderInv /\ DrainedOnce

(* Where this fails, a frame older than OrderWindow is taken for a gap.    *)
InWindow == dups = 0 \/ MaxSeq <= OrderWindow

IInv ==
    /\ WindowInv
    /\ ~LateOverlaps => GraceInv /\ BitsInv
    /\ MetricInv
    /\ InWindow => GapsAreLosses
-----------------------------------------------------------------------------
(* Facts about the pieces. *)

(* The bus is a sequence of sequence numbers. *)
LEMMA BusTyped ==
    ASSUME ThreadTypes
    PROVE  /\ Len(bus) \in Nat /\ DOMAIN bus = 1 .. Len(bus)
           /\ \A i \in DOMAIN bus : bus[i] \in Seqs
  BY DEF ThreadTypes

(* The capacity of the window, as its assumption gives it. *)
LEMMA CapacityFacts ==
    /\ kCapacity \in Nat \ {0} /\ ChunkSize <= kCapacity
    /\ kGraceEntries < kCapacity
  OBVIOUS

(* What has been seen is finite. *)
LEMMA SeenTyped ==
    ASSUME SetTypes, ThreadTypes
    PROVE  /\ Seen \subseteq Seqs /\ IsFiniteSet(Seen)
           /\ Cardinality(Seen) \in Nat
<1>1. Seen \subseteq Seqs
  BY DEF SetTypes, ThreadTypes, Seen
<1>2. IsFiniteSet(Seqs)
  BY FS_Interval
<1> QED
  BY <1>1, <1>2, FS_Subset, FS_CardinalityType

(* Every sequence number has a bit. *)
LEMMA BitInBits ==
    ASSUME NEW s \in Nat
    PROVE  Bit(s) \in Bits
  BY CapacityFacts DEF Bit

(* A chunk has at most ChunkSize bits.                                     *)
LEMMA WordSize ==
    ASSUME base_seq_ \in Nat
    PROVE  /\ Word \subseteq Bits /\ IsFiniteSet(Word)
           /\ Cardinality(Word) <= ChunkSize
<1> DEFINE chunk == base_seq_ .. base_seq_ + ChunkSize - 1
           f == [s \in chunk |-> Bit(s)]
<1>1. Word \subseteq Bits
  BY BitInBits DEF Word
<1>2. IsFiniteSet(chunk) /\ Cardinality(chunk) = ChunkSize
  BY FS_Interval
<1>3. f \in Surjection(chunk, Word)
  BY DEF Word, Surjection
<1> HIDE DEF f, chunk
<1>4. IsFiniteSet(Word) /\ Cardinality(Word) <= Cardinality(chunk)
  BY <1>2, <1>3, FS_Surjection
<1> QED
  BY <1>1, <1>2, <1>4

(* What is taken from the bus, or leaves it, was on it.                    *)
LEMMA BusTail ==
    ASSUME ThreadTypes, bus # <<>>
    PROVE  /\ Head(bus) = bus[1] /\ 1 \in DOMAIN bus
           /\ Tail(bus) \in Seq(Seqs)
           /\ DOMAIN Tail(bus) = 1 .. Len(bus) - 1
           /\ \A i \in DOMAIN Tail(bus) :
                i + 1 \in DOMAIN bus /\ Tail(bus)[i] = bus[i + 1]
  BY DEF ThreadTypes

(* Each frame received is still among those seen when it has been recorded *)
(* or rejected.                                                            *)
LEMMA SeenSteps ==
    ASSUME ThreadTypes
    PROVE  /\ RxTake => Seen' = Seen \union {rxSeq'}
           /\ RxCheckHead \/ RxCheckBase \/ RxSet => Seen' = Seen
           /\ UNCHANGED <<acked, rejected, rxPc, rxSeq>> => Seen' = Seen
<1>1. ASSUME RxTake PROVE Seen' = Seen \union {rxSeq'}
  BY <1>1 DEF RxTake, Seen
<1>2. ASSUME RxCheckHead \/ RxCheckBase PROVE Seen' = Seen
  <2>1. /\ rxPc # "idle" /\ rxSeq' = rxSeq /\ acked' = acked
        /\ \/ rejected' = rejected \union {rxSeq} /\ rxPc' = "idle"
           \/ rejected' = rejected /\ rxPc' # "idle"
    BY <1>2 DEF RxCheckHead, RxCheckBase, Reject
  <2>2. Seen = acked \union rejected \union {rxSeq}
    BY <2>1 DEF Seen
  <2>3. CASE rejected' = rejected \union {rxSeq} /\ rxPc' = "idle"
    BY <2>1, <2>2, <2>3 DEF Seen
  <2>4. CASE rejected' = rejected /\ rxPc' # "idle"
    BY <2>1, <2>2, <2>4 DEF Seen
  <2> QED
    BY <2>1, <2>3, <2>4
<1>3. ASSUME RxSet PROVE Seen' = Seen
  BY <1>3 DEF RxSet, Seen
<1>4. ASSUME UNCHANGED <<acked, rejected, rxPc, rxSeq>> PROVE Seen' = Seen
  BY <1>4 DEF Seen
<1> QED
  BY <1>1, <1>2, <1>3, <1>4

-----------------------------------------------------------------------------
(* The window, step by step. *)

(* Sending keeps the window's invariant, *)
LEMMA TxKeepsWindow ==
    ASSUME WindowInv, Tx
    PROVE  WindowInv'
<1> USE DEF WindowInv
<1>1. /\ UNCHANGED <<base_seq_, totalSent_, totalConfirmed_, reapHead, bits,
                     ack_bitmap_, acked, rejected, rxPc, rxSeq, reapPc, tests, dups>>
      /\ Seen' = Seen
  BY SeenSteps DEF Tx, Write, OnTxSent
<1>2. CASE Write
  <2>1. /\ txPc = "write" /\ txPc' = "record" /\ counter' = counter
        /\ head_seq_' = head_seq_
        /\ counter < MaxSeq /\ counter < base_seq_ + kCapacity
        /\ bus' = Append(bus, counter)
    BY <1>2 DEF Write
  <2>2. counter \in Seqs
    BY <2>1 DEF CountTypes
  <2>3. CountTypes' /\ SetTypes' /\ ReapInv'
    BY <1>1, <2>1 DEF CountTypes, SetTypes, ReapInv
  <2>4. ThreadTypes'
    BY <1>1, <2>1, <2>2 DEF ThreadTypes
  <2>5. Written = counter /\ Written' = counter + 1 /\ counter \in Nat
    BY <2>1 DEF Written, CountTypes
  <2>6. /\ DOMAIN bus' = 1 .. Len(bus) + 1 /\ Len(bus) \in Nat
        /\ DOMAIN bus = 1 .. Len(bus)
        /\ \A i \in DOMAIN bus : bus'[i] = bus[i]
        /\ bus'[Len(bus) + 1] = counter
    BY <2>1, <2>2 DEF ThreadTypes
  <2>7. \A i \in DOMAIN bus' : bus'[i] < Written'
    <3>1. ASSUME NEW i \in DOMAIN bus' PROVE bus'[i] < Written'
      <4>1. CASE i \in DOMAIN bus
        <5>1. bus[i] < counter /\ bus[i] \in Nat
          BY <2>5, <4>1, BusTyped DEF WrittenInv
        <5> QED
          BY <2>5, <2>6, <4>1, <5>1
      <4>2. CASE i = Len(bus) + 1
        BY <2>5, <2>6, <4>2
      <4> QED
        BY <2>6, <4>1, <4>2
    <3> QED
      BY <3>1
  <2>8. \A s \in Seen' : s < Written'
    <3>1. \A s \in Seen : s < counter /\ s \in Nat
      BY <2>5, SeenTyped DEF WrittenInv
    <3> QED
      BY <1>1, <2>5, <3>1
  <2>9. WrittenInv'
    <3>1. base_seq_ \in Nat /\ base_seq_' = base_seq_
      BY <1>1 DEF CountTypes
    <3>2. Written' <= base_seq_' + kCapacity /\ Written' <= MaxSeq
      BY <2>1, <2>5, <3>1, CapacityFacts
    <3> QED
      BY <2>7, <2>8, <3>2 DEF WrittenInv
  <2>10. RejectedOnlyLate'
    BY <1>1, <2>1 DEF RejectedOnlyLate, Late
  <2> QED
    BY <2>3, <2>4, <2>9, <2>10
<1>3. CASE OnTxSent
  <2>1. /\ txPc = "record" /\ txPc' = "write" /\ counter' = counter + 1
        /\ head_seq_' = counter + 1 /\ bus' = bus
    BY <1>3 DEF OnTxSent
  <2>2. counter \in Nat /\ counter = head_seq_ /\ Written = counter + 1 /\ Written' = counter + 1
    BY <2>1 DEF Written, CountTypes
  <2>3. counter + 1 <= MaxSeq
    BY <2>2 DEF WrittenInv
  <2>4. CountTypes'
    BY <1>1, <2>1, <2>2, <2>3 DEF CountTypes
  <2>5. SetTypes' /\ ThreadTypes'
    BY <1>1, <2>1 DEF SetTypes, ThreadTypes
  <2>6. ReapInv'
    BY <1>1, <2>1, <2>2 DEF ReapInv, CountTypes
  <2>7. WrittenInv'
    BY <1>1, <2>1, <2>2 DEF WrittenInv
  <2>8. RejectedOnlyLate'
    <3>1. \A s \in rejected : s \in Nat
      BY DEF SetTypes
    <3> QED
      BY <1>1, <2>1, <2>2, <3>1 DEF RejectedOnlyLate, Late
  <2> QED
    BY <2>4, <2>5, <2>6, <2>7, <2>8
<1> QED
  BY <1>2, <1>3 DEF Tx

(* so does receiving, *)
LEMMA RxKeepsWindow ==
    ASSUME WindowInv, Rx
    PROVE  WindowInv'
<1> USE DEF WindowInv
<1>1. /\ UNCHANGED <<head_seq_, counter, base_seq_, totalSent_, totalConfirmed_,
                     reapHead, bits, txPc, reapPc, tests>>
      /\ Written' = Written
  BY DEF Rx, Lose, RxTake, RxCheckHead, RxCheckBase, RxSet, Written
<1>2. CountTypes' /\ ReapInv'
  BY <1>1 DEF CountTypes, ReapInv
<1>3. CASE Lose
  <2>1. bus # <<>> /\ bus' = Tail(bus) /\ UNCHANGED <<ack_bitmap_, acked, rejected, rxPc, rxSeq, dups>>
    BY <1>3 DEF Lose
  <2>2. Seen' = Seen
    BY <2>1, SeenSteps
  <2>3. SetTypes' /\ ThreadTypes'
    BY <1>1, <2>1, BusTail DEF SetTypes, ThreadTypes
  <2>4. \A i \in DOMAIN bus' : bus'[i] < Written'
    BY <1>1, <2>1, BusTail DEF WrittenInv
  <2>5. WrittenInv'
    BY <1>1, <2>2, <2>4 DEF WrittenInv
  <2>6. RejectedOnlyLate'
    BY <1>1, <2>1 DEF RejectedOnlyLate, Late
  <2> QED
    BY <1>2, <2>3, <2>5, <2>6
<1>4. CASE RxTake
  <2>1. /\ bus # <<>> /\ rxSeq' = Head(bus) /\ rxPc' = "head"
        /\ bus' = Tail(bus) \/ bus' = bus
        /\ UNCHANGED <<ack_bitmap_, acked, rejected>>
        /\ dups' = dups \/ (dups < MaxDups /\ dups' = dups + 1)
    BY <1>4, Zenon DEF RxTake
  <2>2. rxSeq' \in Seqs /\ rxSeq' < Written
    BY <2>1, BusTail, BusTyped DEF WrittenInv
  <2>3. Seen' = Seen \union {rxSeq'}
    BY <1>4, SeenSteps
  <2>4. SetTypes'
    BY <1>1, <2>1 DEF SetTypes
  <2>5. bus' \in Seq(Seqs)
    BY <2>1, BusTail DEF ThreadTypes
  <2>6. ThreadTypes'
    BY <1>1, <2>1, <2>2, <2>5 DEF ThreadTypes
  <2>7. \A i \in DOMAIN bus' : bus'[i] < Written'
    BY <1>1, <2>1, BusTail DEF WrittenInv
  <2>8. WrittenInv'
    BY <1>1, <2>2, <2>3, <2>7 DEF WrittenInv
  <2>9. RejectedOnlyLate'
    BY <1>1, <2>1 DEF RejectedOnlyLate, Late
  <2> QED
    BY <1>2, <2>4, <2>6, <2>8, <2>9
<1>5. CASE RxCheckHead \/ RxCheckBase
  <2>1. /\ UNCHANGED <<ack_bitmap_, acked, rxSeq, bus, dups>>
        /\ rxPc' \in {"idle", "base", "set"}
        /\ \/ rejected' = rejected
           \/ /\ rejected' = rejected \union {rxSeq}
              /\ \/ head_seq_ - rxSeq > kCapacity
                 \/ rxSeq < base_seq_
    BY <1>5 DEF RxCheckHead, RxCheckBase, Reject, Reaped
  <2>2. Seen' = Seen
    BY <1>5, SeenSteps
  <2>3. SetTypes' /\ ThreadTypes'
    BY <1>1, <2>1 DEF SetTypes, ThreadTypes
  <2>4. WrittenInv'
    BY <1>1, <2>1, <2>2 DEF WrittenInv
  <2>5. ASSUME head_seq_ - rxSeq > kCapacity \/ rxSeq < base_seq_
        PROVE  Late(rxSeq)
    <3>1. rxSeq \in Nat /\ base_seq_ \in Nat /\ head_seq_ \in Nat
      BY DEF ThreadTypes, CountTypes
    <3>2. base_seq_ > 0 => base_seq_ + kGraceEntries <= head_seq_
      BY DEF ReapInv
    <3> QED
      BY <2>5, <3>1, <3>2, CapacityFacts DEF Late
  <2>6. RejectedOnlyLate'
    BY <1>1, <2>1, <2>5 DEF RejectedOnlyLate, Late
  <2> QED
    BY <1>2, <2>3, <2>4, <2>6
<1>6. CASE RxSet
  <2>1. /\ UNCHANGED <<rejected, rxSeq, bus, dups>>
        /\ rxPc' = "idle"
        /\ ack_bitmap_' = ack_bitmap_ \union {Bit(rxSeq)}
        /\ acked' = acked \union {rxSeq}
    BY <1>6 DEF RxSet
  <2>2. Seen' = Seen
    BY <1>6, SeenSteps
  <2>3. SetTypes' /\ ThreadTypes'
    <3>1. rxSeq \in Seqs /\ Bit(rxSeq) \in Bits
      BY BitInBits, SMTT(20) DEF ThreadTypes
    <3> QED
      BY <1>1, <2>1, <3>1 DEF SetTypes, ThreadTypes
  <2>4. WrittenInv'
    BY <1>1, <2>1, <2>2 DEF WrittenInv
  <2>5. RejectedOnlyLate'
    BY <1>1, <2>1 DEF RejectedOnlyLate, Late
  <2> QED
    BY <1>2, <2>3, <2>4, <2>5
<1> QED
  BY <1>3, <1>4, <1>5, <1>6 DEF Rx

(* and reaping. *)
LEMMA ReapKeepsWindow ==
    ASSUME WindowInv, Reap
    PROVE  WindowInv'
<1> USE DEF WindowInv
<1>1. /\ UNCHANGED <<head_seq_, counter, txPc, bus, rxPc, rxSeq, acked, rejected,
                     tests, dups>>
      /\ Written' = Written /\ Seen' = Seen
  <2>1. UNCHANGED <<head_seq_, counter, txPc, bus, rxPc, rxSeq, acked, rejected,
                     tests, dups>>
    BY DEF Reap, ReapBegin, ReapHarvest, ReapAdvance
  <2> QED
    BY <2>1, SeenSteps DEF Written
<1>2. RejectedOnlyLate'
  BY <1>1 DEF RejectedOnlyLate, Late
<1>3. CASE ReapBegin
  <2>1. /\ reapHead' = head_seq_ /\ reapPc' = "walk"
        /\ UNCHANGED <<base_seq_, totalSent_, totalConfirmed_, ack_bitmap_, bits>>
    BY <1>3 DEF ReapBegin
  <2>2. CountTypes' /\ SetTypes' /\ ThreadTypes' /\ WrittenInv'
    BY <1>1, <2>1 DEF CountTypes, SetTypes, ThreadTypes, WrittenInv
  <2>3. ReapInv'
    BY <1>1, <2>1 DEF ReapInv, CountTypes
  <2> QED
    BY <1>2, <2>2, <2>3
<1>4. CASE ReapHarvest
  <2>1. /\ reapPc = "walk"
        /\ UNCHANGED <<base_seq_, totalSent_, totalConfirmed_, reapHead>>
        /\ \/ /\ base_seq_ + ChunkSize + kGraceEntries <= reapHead
              /\ bits' = ack_bitmap_ \intersect Word
              /\ ack_bitmap_' = ack_bitmap_ \ Word
              /\ reapPc' = "count"
           \/ reapPc' = "idle" /\ UNCHANGED <<bits, ack_bitmap_>>
    BY <1>4 DEF ReapHarvest, Reapable
  <2>2. CountTypes' /\ WrittenInv'
    BY <1>1, <2>1 DEF CountTypes, WrittenInv
  <2>3. SetTypes' /\ ThreadTypes'
    BY <1>1, <2>1 DEF SetTypes, ThreadTypes
  <2>4. ASSUME bits' = ack_bitmap_ \intersect Word
        PROVE  Cardinality(bits') <= ChunkSize
    <3>1. base_seq_ \in Nat
      BY DEF CountTypes
    <3>2. IsFiniteSet(Word) /\ Cardinality(Word) <= ChunkSize
      BY <3>1, WordSize
    <3>3. bits' \in SUBSET Word
      BY <2>4
    <3>4. Cardinality(bits') <= Cardinality(Word) /\ IsFiniteSet(bits')
      BY <3>2, <3>3, FS_Subset
    <3>5. Cardinality(bits') \in Nat /\ Cardinality(Word) \in Nat
      BY <3>2, <3>4, FS_CardinalityType
    <3> QED
      BY <3>2, <3>4, <3>5
  <2>5. ReapInv'
    BY <1>1, <2>1, <2>4 DEF ReapInv
  <2> QED
    BY <1>2, <2>2, <2>3, <2>5
<1>5. CASE ReapAdvance
  <2>1. /\ reapPc = "count" /\ reapPc' = "walk"
        /\ totalSent_' = totalSent_ + ChunkSize
        /\ totalConfirmed_' = totalConfirmed_ + Cardinality(bits)
        /\ base_seq_' = base_seq_ + ChunkSize
        /\ UNCHANGED <<ack_bitmap_, reapHead, bits>>
    BY <1>5 DEF ReapAdvance
  <2>2. /\ Cardinality(bits) \in Nat /\ Cardinality(bits) <= ChunkSize
    <3>1. IsFiniteSet(Bits) /\ bits \in SUBSET Bits
      BY FS_Interval DEF SetTypes
    <3> QED
      BY <2>1, <3>1, FS_Subset, FS_CardinalityType DEF ReapInv
  <2>3. CountTypes'
    BY <1>1, <2>1, <2>2 DEF CountTypes
  <2>4. SetTypes' /\ ThreadTypes'
    BY <1>1, <2>1 DEF SetTypes, ThreadTypes
  <2>5. ReapInv'
    BY <1>1, <2>1 DEF ReapInv, CountTypes
  <2>6. WrittenInv'
    <3>1. Written \in Nat /\ base_seq_ \in Nat /\ base_seq_' = base_seq_ + ChunkSize
      BY <2>1 DEF Written, CountTypes
    <3>2. Written' <= base_seq_' + kCapacity
      BY <1>1, <3>1, CapacityFacts DEF WrittenInv
    <3> QED
      BY <1>1, <3>2 DEF WrittenInv
  <2> QED
    BY <1>2, <2>3, <2>4, <2>5, <2>6
<1> QED
  BY <1>3, <1>4, <1>5 DEF Reap

(* Two frames change places, the others keep theirs.                       *)
LEMMA OvertakeBus ==
    ASSUME ThreadTypes, Overtake
    PROVE  /\ bus' \in Seq(Seqs) /\ DOMAIN bus' = DOMAIN bus
           /\ 1 \in DOMAIN bus /\ 2 \in DOMAIN bus
           /\ bus'[1] = bus[2] /\ bus'[2] = bus[1]
           /\ \A i \in DOMAIN bus : i # 1 /\ i # 2 => bus'[i] = bus[i]
<1>1. /\ Len(bus) \in Nat /\ Len(bus) >= 2 /\ DOMAIN bus = 1 .. Len(bus)
      /\ bus \in Seq(Seqs)
  BY DEF ThreadTypes, Overtake
<1> DEFINE first == <<bus[2], bus[1]>>
           rest == SubSeq(bus, 3, Len(bus))
<1>2. bus' = first \o rest
  BY DEF Overtake
<1>3. first \in Seq(Seqs) /\ Len(first) = 2 /\ first[1] = bus[2] /\ first[2] = bus[1]
  <2>1. bus[1] \in Seqs /\ bus[2] \in Seqs
    BY <1>1
  <2> QED
    BY <2>1
<1>4. /\ rest \in Seq(Seqs) /\ Len(rest) = Len(bus) - 2
      /\ \A i \in 1 .. Len(bus) - 2 : rest[i] = bus[2 + i]
  <2>1. rest \in Seq(Seqs)
    BY <1>1
  <2>2. Len(rest) = Len(bus) - 2
    BY <1>1
  <2>3. ASSUME NEW i \in 1 .. Len(bus) - 2 PROVE rest[i] = bus[2 + i]
    <3>1. 3 + i - 1 = 2 + i
      OBVIOUS
    <3>2. rest[i] = bus[3 + i - 1]
      BY <1>1
    <3> QED
      BY <3>1, <3>2
  <2> QED
    BY <2>1, <2>2, <2>3
<1> HIDE DEF first, rest
<1>5. /\ bus' \in Seq(Seqs) /\ Len(bus') = Len(bus)
      /\ \A i \in 1 .. 2 : bus'[i] = first[i]
      /\ \A i \in 1 .. Len(bus) - 2 : bus'[2 + i] = rest[i]
  <2>1. /\ first \o rest \in Seq(Seqs) /\ Len(first \o rest) = Len(first) + Len(rest)
        /\ \A i \in 1 .. Len(first) : (first \o rest)[i] = first[i]
        /\ \A i \in 1 .. Len(rest) : (first \o rest)[Len(first) + i] = rest[i]
    <3>1. first \in Seq(Seqs) /\ rest \in Seq(Seqs)
      BY <1>3, <1>4
    <3> QED
      BY <3>1, Concatenation
  <2>2. Len(first) = 2 /\ Len(rest) = Len(bus) - 2 /\ 2 + (Len(bus) - 2) = Len(bus)
    BY <1>1, <1>3, <1>4
  <2> QED
    BY <1>2, <2>1, <2>2
<1>6. DOMAIN bus' = DOMAIN bus
  BY <1>1, <1>5
<1>7. ASSUME NEW i \in DOMAIN bus, i # 1, i # 2 PROVE bus'[i] = bus[i]
  <2>1. i - 2 \in 1 .. Len(bus) - 2 /\ 2 + (i - 2) = i
    BY <1>1, <1>7
  <2>2. bus'[2 + (i - 2)] = bus[2 + (i - 2)]
    BY <1>4, <1>5, <2>1
  <2> QED
    BY <2>1, <2>2
<1> QED
  BY <1>1, <1>3, <1>5, <1>6, <1>7

(* The place each frame had before.                                        *)
Before(i) == IF i = 1 THEN 2 ELSE IF i = 2 THEN 1 ELSE i

(* One message overtaking another swaps two places. *)
LEMMA OvertakePlaces ==
    ASSUME ThreadTypes, Overtake
    PROVE  /\ \A i \in DOMAIN bus' :
                Before(i) \in DOMAIN bus /\ bus'[i] = bus[Before(i)]
                /\ Before(Before(i)) = i
           /\ \A i \in DOMAIN bus :
                Before(i) \in DOMAIN bus' /\ bus[i] = bus'[Before(i)]
<1>1. /\ DOMAIN bus' = DOMAIN bus
      /\ 1 \in DOMAIN bus /\ 2 \in DOMAIN bus
      /\ bus'[1] = bus[2] /\ bus'[2] = bus[1]
      /\ \A i \in DOMAIN bus : i # 1 /\ i # 2 => bus'[i] = bus[i]
  BY OvertakeBus
<1> QED
  BY <1>1 DEF Before

(* A message overtaking another changes nothing of the window. *)
LEMMA OvertakeKeepsWindow ==
    ASSUME WindowInv, Overtake
    PROVE  WindowInv'
<1> USE DEF WindowInv
<1>1. /\ UNCHANGED <<windowVars, txVars, rxVars, reapVars, acked, rejected, tests>>
      /\ Written' = Written /\ Seen' = Seen
  BY SeenSteps DEF Overtake, Written
<1>2. dups' \in 0 .. MaxDups
  BY DEF Overtake, ThreadTypes
<1>3. CountTypes' /\ SetTypes' /\ ReapInv' /\ RejectedOnlyLate'
  BY <1>1 DEF CountTypes, SetTypes, ReapInv, RejectedOnlyLate, Late
<1>4. ThreadTypes'
  BY <1>1, <1>2, OvertakeBus DEF ThreadTypes
<1>5. WrittenInv'
  <2>1. \A i \in DOMAIN bus' : bus'[i] < Written'
    BY <1>1, OvertakePlaces DEF WrittenInv
  <2> QED
    BY <1>1, <2>1 DEF WrittenInv
<1> QED
  BY <1>3, <1>4, <1>5

(* A new test starts with a clean window. *)
LEMMA RestartKeepsWindow ==
    ASSUME WindowInv, StartTest
    PROVE  WindowInv' /\ Seen' = {}
<1>1. /\ tests' = tests + 1 /\ tests < MaxTests
      /\ head_seq_' = 0 /\ ack_bitmap_' = {} /\ base_seq_' = 0
      /\ totalSent_' = 0 /\ totalConfirmed_' = 0
      /\ counter' = 0 /\ bus' = <<>>
      /\ acked' = {} /\ rejected' = {}
      /\ txPc' = "write" /\ rxPc' = "idle" /\ reapPc' = "idle"
      /\ rxSeq' = rxSeq /\ reapHead' = reapHead /\ bits' = bits /\ dups' = dups
  BY DEF StartTest
<1>2. Seen' = {} /\ Written' = 0
  BY <1>1 DEF Seen, Written
<1>3. CountTypes' /\ SetTypes'
  BY <1>1 DEF WindowInv, CountTypes, SetTypes
<1>4. ThreadTypes'
  BY <1>1 DEF WindowInv, ThreadTypes
<1>5. ReapInv' /\ RejectedOnlyLate'
  BY <1>1 DEF ReapInv, RejectedOnlyLate
<1>6. WrittenInv'
  BY <1>1, <1>2, CapacityFacts DEF WrittenInv
<1> QED
  BY <1>2, <1>3, <1>4, <1>5, <1>6 DEF WindowInv
-----------------------------------------------------------------------------
(* The bits. *)

(* Within one round of the window a bit is one frame's.                    *)
LEMMA BitsApart ==
    ASSUME base_seq_ \in Nat, NEW s \in Nat, NEW t \in Nat,
           base_seq_ <= s, s < base_seq_ + kCapacity,
           base_seq_ <= t, t < base_seq_ + kCapacity,
           Bit(s) = Bit(t)
    PROVE  s = t
<1>1. CASE s < t
  <2>1. t - s < kCapacity /\ s \in Int /\ t \in Int /\ kCapacity \in Nat \ {0}
    BY CapacityFacts
  <2>2. s % kCapacity # t % kCapacity
    BY <1>1, <2>1, ModInjective, Zenon
  <2> QED
    BY <2>2 DEF Bit
<1>2. CASE t < s
  <2>1. s - t < kCapacity /\ s \in Int /\ t \in Int /\ kCapacity \in Nat \ {0}
    BY CapacityFacts
  <2>2. t % kCapacity # s % kCapacity
    BY <1>2, <2>1, ModInjective, Zenon
  <2> QED
    BY <2>2 DEF Bit
<1> QED
  BY <1>1, <1>2

(* The numbers recorded in a range are finitely many. *)
LEMMA RecordedFinite ==
    ASSUME SetTypes, NEW from \in Nat, NEW to \in Nat
    PROVE  /\ Recorded(from, to) \subseteq Seqs
           /\ IsFiniteSet(Recorded(from, to))
           /\ Cardinality(Recorded(from, to)) \in Nat
<1>1. Recorded(from, to) \in SUBSET Seqs
  BY DEF SetTypes, Recorded
<1>2. IsFiniteSet(Seqs)
  BY FS_Interval
<1> QED
  BY <1>1, <1>2, FS_Subset, FS_CardinalityType

(* All frames recorded are in the window's round, or below it.             *)
LEMMA RecordedInRound ==
    ASSUME WindowInv, NEW s \in acked
    PROVE  s \in Nat /\ s < base_seq_ + kCapacity /\ s < MaxSeq
<1>1. s \in Seqs /\ s \in Seen
  BY DEF WindowInv, SetTypes, Seen
<1>2. s < Written /\ Written <= base_seq_ + kCapacity /\ Written \in Nat
  BY <1>1 DEF WindowInv, WrittenInv, Written, CountTypes
<1> QED
  BY <1>1, <1>2, CapacityFacts DEF WindowInv, CountTypes

(* A chunk's bits as harvested are those of its frames recorded.           *)
LEMMA HarvestExact ==
    ASSUME WindowInv, ack_bitmap_ = {Bit(s) : s \in Recorded(base_seq_, MaxSeq)}
    PROVE  /\ ack_bitmap_ \intersect Word
                = {Bit(s) : s \in Recorded(base_seq_, base_seq_ + ChunkSize)}
           /\ ack_bitmap_ \ Word
                = {Bit(s) : s \in Recorded(base_seq_ + ChunkSize, MaxSeq)}
<1>1. base_seq_ \in Nat
  BY DEF WindowInv, CountTypes
<1>2. \A s \in acked : s \in Nat /\ s < base_seq_ + kCapacity /\ s < MaxSeq
  BY RecordedInRound
<1>3. ASSUME NEW s \in Recorded(base_seq_, MaxSeq)
      PROVE  Bit(s) \in Word <=> s < base_seq_ + ChunkSize
  <2>1. s \in acked /\ s \in Nat /\ base_seq_ <= s /\ s < base_seq_ + kCapacity
    BY <1>2 DEF Recorded
  <2>2. ASSUME Bit(s) \in Word PROVE s < base_seq_ + ChunkSize
    <3>1. PICK t \in base_seq_ .. base_seq_ + ChunkSize - 1 : Bit(s) = Bit(t)
      BY <2>2 DEF Word
    <3>2. t \in Nat /\ base_seq_ <= t /\ t < base_seq_ + kCapacity
          /\ t < base_seq_ + ChunkSize
      BY <1>1, CapacityFacts
    <3>3. s = t
      BY <1>1, <2>1, <3>1, <3>2, BitsApart
    <3> QED
      BY <3>2, <3>3
  <2>3. ASSUME s < base_seq_ + ChunkSize PROVE Bit(s) \in Word
    <3>1. s \in base_seq_ .. base_seq_ + ChunkSize - 1
      BY <1>1, <2>1, <2>3
    <3> QED
      BY <3>1 DEF Word
  <2> QED
    BY <2>2, <2>3
<1>4. ASSUME NEW s \in acked
      PROVE  /\ s \in Recorded(base_seq_, base_seq_ + ChunkSize)
                  <=> s \in Recorded(base_seq_, MaxSeq) /\ s < base_seq_ + ChunkSize
             /\ s \in Recorded(base_seq_ + ChunkSize, MaxSeq)
                  <=> s \in Recorded(base_seq_, MaxSeq) /\ ~ (s < base_seq_ + ChunkSize)
  BY <1>1, <1>2 DEF Recorded
<1>5. \A s : \/ s \in Recorded(base_seq_, base_seq_ + ChunkSize)
             \/ s \in Recorded(base_seq_ + ChunkSize, MaxSeq)
             \/ s \in Recorded(base_seq_, MaxSeq)
             => s \in acked
  BY DEF Recorded
<1>6. \A b : b \in ack_bitmap_ \intersect Word
               <=> \E s \in Recorded(base_seq_, base_seq_ + ChunkSize) : b = Bit(s)
  BY <1>3, <1>4, <1>5
<1>7. \A b : b \in ack_bitmap_ \ Word
               <=> \E s \in Recorded(base_seq_ + ChunkSize, MaxSeq) : b = Bit(s)
  BY <1>3, <1>4, <1>5
<1>8. ack_bitmap_ \intersect Word
        = {Bit(s) : s \in Recorded(base_seq_, base_seq_ + ChunkSize)}
  BY <1>6
<1>9. ack_bitmap_ \ Word = {Bit(s) : s \in Recorded(base_seq_ + ChunkSize, MaxSeq)}
  BY <1>7
<1> QED
  BY <1>8, <1>9

(* As many bits are harvested as frames of the chunk were recorded.        *)
LEMMA ChunkCount ==
    ASSUME WindowInv,
           bits = {Bit(s) : s \in Recorded(base_seq_, base_seq_ + ChunkSize)}
    PROVE  Cardinality(bits)
             = Cardinality(Recorded(base_seq_, base_seq_ + ChunkSize))
<1> DEFINE R == Recorded(base_seq_, base_seq_ + ChunkSize)
           f == [s \in R |-> Bit(s)]
<1>1. base_seq_ \in Nat /\ base_seq_ + ChunkSize \in Nat
  BY DEF WindowInv, CountTypes
<1>2. IsFiniteSet(R)
  BY <1>1, RecordedFinite DEF WindowInv
<1>3. \A s \in R : s \in Nat /\ base_seq_ <= s /\ s < base_seq_ + kCapacity
  <2>1. \A s \in R : s \in acked /\ base_seq_ <= s
    BY DEF Recorded
  <2> HIDE DEF R
  <2> QED
    BY <2>1, RecordedInRound
<1>4. f \in Surjection(R, bits)
  <2>1. f \in [R -> bits] /\ \A b \in bits : \E s \in R : f[s] = b
    OBVIOUS
  <2> HIDE DEF f, R
  <2> QED
    BY <2>1 DEF Surjection
<1>5. f \in Injection(R, bits)
  <2>1. \A s, t \in R : f[s] = f[t] => s = t
    BY <1>1, <1>3, BitsApart
  <2>2. f \in [R -> bits]
    OBVIOUS
  <2> HIDE DEF f, R
  <2> QED
    BY <2>1, <2>2 DEF Injection, IsInjective
<1> HIDE DEF f, R
<1>6. Cardinality(bits) = Cardinality(R)
  BY <1>2, <1>4, <1>5, FS_Surjection
<1> QED
  BY <1>6 DEF R

(* The numbers recorded up to b are those up to a and those from a on. *)
LEMMA RecordedSplit ==
    ASSUME SetTypes, NEW a \in Nat, NEW b \in Nat, a <= b
    PROVE  Cardinality(Recorded(0, b))
             = Cardinality(Recorded(0, a)) + Cardinality(Recorded(a, b))
<1>1. Recorded(0, b) = Recorded(0, a) \union Recorded(a, b)
      /\ Recorded(0, a) \cap Recorded(a, b) = {}
  <2>1. \A s \in acked : s \in Nat
    BY DEF SetTypes
  <2>2. \A s \in acked :
          /\ 0 <= s
          /\ s < b <=> s < a \/ (a <= s /\ s < b)
          /\ ~ (s < a /\ a <= s)
    BY <2>1
  <2>3. Recorded(0, b) = Recorded(0, a) \union Recorded(a, b)
    BY <2>2 DEF Recorded
  <2>4. Recorded(0, a) \cap Recorded(a, b) = {}
    BY <2>2 DEF Recorded
  <2> QED
    BY <2>3, <2>4
<1>2. /\ IsFiniteSet(Recorded(0, a)) /\ IsFiniteSet(Recorded(a, b))
      /\ Cardinality(Recorded(0, a)) \in Nat /\ Cardinality(Recorded(a, b)) \in Nat
  BY RecordedFinite
<1>3. Cardinality(Recorded(0, a) \union Recorded(a, b))
        = Cardinality(Recorded(0, a)) + Cardinality(Recorded(a, b)) - Cardinality({})
  BY <1>1, <1>2, FS_Union
<1>4. Cardinality({}) = 0
  BY FS_EmptySet
<1>5. Cardinality(Recorded(0, b))
        = Cardinality(Recorded(0, a)) + Cardinality(Recorded(a, b)) - 0
  BY <1>1, <1>3, <1>4, Zenon
<1> HIDE DEF Recorded
<1> QED
  BY <1>2, <1>5

(* Without late overlaps, receiving keeps the bits and the count exact, *)
LEMMA RxKeepsBits ==
    ASSUME WindowInv, ~LateOverlaps, GraceInv, BitsInv, Rx
    PROVE  GraceInv' /\ BitsInv'
<1>1. /\ UNCHANGED <<head_seq_, base_seq_, totalConfirmed_, reapHead, bits, reapPc>>
      /\ Unharvested' = Unharvested
  BY DEF Rx, Lose, RxTake, RxCheckHead, RxCheckBase, RxSet, Unharvested
<1>2. CASE ~RxSet
  <2>1. UNCHANGED <<ack_bitmap_, acked>>
    BY <1>2 DEF Rx, Lose, RxTake, RxCheckHead, RxCheckBase
  <2>2. BitsInv'
    BY <1>1, <2>1 DEF BitsInv, Recorded
  <2>3. CASE Lose
    BY <1>1, <2>2, <2>3 DEF Lose, GraceInv
  <2>4. CASE RxTake
    <3>1. /\ bus # <<>> /\ rxSeq' = Head(bus) /\ rxPc' = "head"
          /\ reapPc # "idle" => ~Late(Head(bus))
      BY <2>4 DEF RxTake
    <3>2. Head(bus) \in Nat
      BY <3>1, BusTail, BusTyped DEF WindowInv
    <3>3. reapPc # "idle" => reapHead <= head_seq_
      BY DEF WindowInv, ReapInv
    <3>4. reapHead \in Nat /\ head_seq_ \in Nat
      BY DEF WindowInv, CountTypes
    <3>5. reapPc # "idle" => reapHead <= rxSeq' + kGraceEntries
      BY <3>1, <3>2, <3>3, <3>4 DEF Late
    <3> QED
      BY <1>1, <2>2, <3>1, <3>5 DEF GraceInv
  <2>5. CASE RxCheckHead
    BY <1>1, <2>2, <2>5 DEF RxCheckHead, Reject, GraceInv
  <2>6. CASE RxCheckBase
    <3>1. rxPc = "base" /\ rxSeq' = rxSeq
          /\ (rxPc' = "idle" \/ (rxPc' = "set" /\ ~ Reaped(rxSeq)))
      BY <2>6, Zenon DEF RxCheckBase, Reject
    <3>2. rxSeq \in Nat /\ base_seq_ \in Nat
      BY DEF WindowInv, ThreadTypes, CountTypes
    <3> QED
      BY <1>1, <2>2, <3>1, <3>2 DEF GraceInv, Reaped
  <2> QED
    BY <1>2, <2>3, <2>4, <2>5, <2>6 DEF Rx
<1>3. CASE RxSet
  <2>1. /\ rxPc = "set" /\ rxPc' = "idle"
        /\ ack_bitmap_' = ack_bitmap_ \union {Bit(rxSeq)}
        /\ acked' = acked \union {rxSeq}
    BY <1>3 DEF RxSet
  <2>2. rxSeq \in Nat /\ base_seq_ \in Nat /\ rxSeq < MaxSeq
    BY DEF WindowInv, ThreadTypes, CountTypes
  <2>3. base_seq_ <= rxSeq /\ reapPc = "count" => base_seq_ + ChunkSize <= rxSeq
    <3>1. reapPc = "count" => /\ base_seq_ + ChunkSize + kGraceEntries <= reapHead
                              /\ reapHead <= rxSeq + kGraceEntries
      BY <2>1 DEF WindowInv, ReapInv, GraceInv
    <3>2. reapHead \in Nat
      BY DEF WindowInv, CountTypes
    <3> QED
      BY <2>1, <2>2, <3>1, <3>2 DEF GraceInv
  <2>4. base_seq_ <= rxSeq
    BY <2>1 DEF GraceInv
  <2>5. Recorded(Unharvested, MaxSeq)' = Recorded(Unharvested, MaxSeq) \union {rxSeq}
    <3>1. Unharvested <= rxSeq
      BY <2>3, <2>4 DEF Unharvested
    <3> QED
      BY <1>1, <2>1, <2>2, <3>1 DEF Recorded
  <2>6. Recorded(0, base_seq_)' = Recorded(0, base_seq_)
    BY <1>1, <2>1, <2>2, <2>4 DEF Recorded
  <2>7. reapPc = "count" =>
          Recorded(base_seq_, base_seq_ + ChunkSize)' = Recorded(base_seq_, base_seq_ + ChunkSize)
    BY <1>1, <2>1, <2>2, <2>3, <2>4 DEF Recorded
  <2>8. BitsInv'
    BY <1>1, <2>1, <2>5, <2>6, <2>7 DEF BitsInv
  <2> QED
    BY <2>1, <2>8 DEF GraceInv
<1> QED
  BY <1>2, <1>3

(* and so does reaping, *)
LEMMA ReapKeepsBits ==
    ASSUME WindowInv, ~LateOverlaps, GraceInv, BitsInv, Reap
    PROVE  GraceInv' /\ BitsInv'
<1>1. UNCHANGED <<head_seq_, rxPc, rxSeq, acked>>
  BY DEF Reap, ReapBegin, ReapHarvest, ReapAdvance
<1>2. /\ rxSeq \in Nat /\ base_seq_ \in Nat /\ base_seq_ + ChunkSize \in Nat
      /\ reapHead \in Nat /\ head_seq_ \in Nat
  BY DEF WindowInv, ThreadTypes, CountTypes
<1>3. CASE ReapBegin
  <2>1. /\ reapPc = "idle" /\ reapPc' = "walk" /\ reapHead' = head_seq_
        /\ UNCHANGED <<base_seq_, totalConfirmed_, ack_bitmap_, bits>>
        /\ rxPc # "idle" => ~Late(rxSeq)
    BY <1>3 DEF ReapBegin
  <2>2. GraceInv'
    BY <1>1, <1>2, <2>1 DEF GraceInv, Late
  <2>3. Unharvested' = Unharvested
    BY <2>1 DEF Unharvested
  <2> QED
    BY <1>1, <2>1, <2>2, <2>3 DEF BitsInv, Recorded
<1>4. CASE ReapHarvest /\ Reapable
  <2>1. /\ reapPc = "walk" /\ reapPc' = "count"
        /\ bits' = ack_bitmap_ \intersect Word
        /\ ack_bitmap_' = ack_bitmap_ \ Word
        /\ UNCHANGED <<base_seq_, totalConfirmed_, reapHead>>
    BY <1>4 DEF ReapHarvest
  <2>2. Unharvested = base_seq_ /\ Unharvested' = base_seq_ + ChunkSize
    BY <2>1 DEF Unharvested
  <2>3. ack_bitmap_ = {Bit(s) : s \in Recorded(base_seq_, MaxSeq)}
    BY <2>2 DEF BitsInv
  <2>4. /\ bits' = {Bit(s) : s \in Recorded(base_seq_, base_seq_ + ChunkSize)}
        /\ ack_bitmap_' = {Bit(s) : s \in Recorded(base_seq_ + ChunkSize, MaxSeq)}
    BY <2>1, <2>3, HarvestExact
  <2>5. BitsInv'
    BY <1>1, <2>1, <2>2, <2>4 DEF BitsInv, Recorded
  <2> QED
    BY <1>1, <2>1, <2>5 DEF GraceInv
<1>5. CASE ReapHarvest /\ ~Reapable
  <2>1. /\ reapPc = "walk" /\ reapPc' = "idle"
        /\ UNCHANGED <<base_seq_, totalConfirmed_, reapHead, bits, ack_bitmap_>>
    BY <1>5 DEF ReapHarvest
  <2>2. Unharvested' = Unharvested
    BY <2>1 DEF Unharvested
  <2> QED
    BY <1>1, <2>1, <2>2 DEF GraceInv, BitsInv, Recorded
<1>6. CASE ReapAdvance
  <2>1. /\ reapPc = "count" /\ reapPc' = "walk"
        /\ totalConfirmed_' = totalConfirmed_ + Cardinality(bits)
        /\ base_seq_' = base_seq_ + ChunkSize
        /\ UNCHANGED <<ack_bitmap_, reapHead>>
    BY <1>6 DEF ReapAdvance
  <2>2. GraceInv'
    <3>1. /\ base_seq_ + ChunkSize + kGraceEntries <= reapHead
          /\ rxPc # "idle" => reapHead <= rxSeq + kGraceEntries
      BY <2>1 DEF WindowInv, ReapInv, GraceInv
    <3>2. rxPc # "idle" => base_seq_ + ChunkSize <= rxSeq
      BY <1>2, <3>1
    <3> QED
      BY <1>1, <2>1, <3>1, <3>2 DEF GraceInv
  <2>3. Unharvested = base_seq_ + ChunkSize /\ Unharvested' = base_seq_ + ChunkSize
    BY <2>1 DEF Unharvested
  <2>4. Cardinality(bits) = Cardinality(Recorded(base_seq_, base_seq_ + ChunkSize))
    BY <2>1, ChunkCount DEF BitsInv
  <2>5. Cardinality(Recorded(0, base_seq_ + ChunkSize))
          = Cardinality(Recorded(0, base_seq_))
            + Cardinality(Recorded(base_seq_, base_seq_ + ChunkSize))
    BY <1>2, RecordedSplit DEF WindowInv
  <2>6. totalConfirmed_' = Cardinality(Recorded(0, base_seq_ + ChunkSize))
    BY <2>1, <2>4, <2>5 DEF BitsInv
  <2>7. BitsInv'
    BY <1>1, <2>1, <2>3, <2>6 DEF BitsInv, Recorded
  <2> QED
    BY <2>2, <2>7
<1> QED
  BY <1>3, <1>4, <1>5, <1>6 DEF Reap

(* hence every step. *)
LEMMA StepKeepsBits ==
    ASSUME WindowInv, ~LateOverlaps, GraceInv, BitsInv, [BidirNext]_allVars
    PROVE  GraceInv' /\ BitsInv'
<1>1. CASE Rx
  BY <1>1, RxKeepsBits
<1>2. CASE Reap
  BY <1>2, ReapKeepsBits
<1>3. CASE UNCHANGED <<base_seq_, totalConfirmed_, ack_bitmap_, acked, rxVars, reapVars>>
  BY <1>3 DEF GraceInv, BitsInv, Unharvested, Recorded
<1>4. CASE StartTest
  <2>1. /\ ack_bitmap_' = {} /\ base_seq_' = 0 /\ totalConfirmed_' = 0
        /\ acked' = {} /\ rxPc' = "idle" /\ reapPc' = "idle"
    BY <1>4 DEF StartTest
  <2>2. Recorded(0, base_seq_)' = {} /\ Recorded(Unharvested, MaxSeq)' = {}
    BY <2>1 DEF Recorded
  <2>3. Cardinality({}) = 0
    BY FS_EmptySet
  <2>4. BitsInv'
    BY <2>1, <2>2, <2>3 DEF BitsInv
  <2> QED
    BY <2>1, <2>4 DEF GraceInv
<1>5. ASSUME Writes \/ Records \/ Overtake \/ DrainPerSecondCounters \/ UNCHANGED allVars
      PROVE  UNCHANGED <<base_seq_, totalConfirmed_, ack_bitmap_, acked, rxVars, reapVars>>
  BY <1>5 DEF Writes, Write, Records, OnTxSent, Overtake,
              DrainPerSecondCounters, allVars, vars
<1> QED
  BY <1>1, <1>2, <1>3, <1>4, <1>5
     DEF BidirNext, Receives, Delivers, Reaps, Restart, Rx
-----------------------------------------------------------------------------
(* The metrics. *)

(* What addReceived does to the counters.                                  *)
LEMMA ReceivedFirst ==
    ASSUME NEW m \in Engines, NEW seq \in Nat, m.messagesReceived = 0
    PROVE  /\ AddReceived(m, seq) \in Engines
           /\ AddReceived(m, seq)
                = [m EXCEPT !.messagesReceived = 1, !.rxLastSequence = seq]
<1>1. m.messagesReceived + 1 = 1
  OBVIOUS
<1>2. AddReceived(m, seq)
        = [m EXCEPT !.messagesReceived = 1, !.rxLastSequence = seq]
  BY <1>1 DEF Engines, AddReceived
<1>3. [m EXCEPT !.messagesReceived = 1, !.rxLastSequence = seq] \in Engines
  BY DEF Engines
<1> QED
  BY <1>2, <1>3

(* AddReceived, for the number that is next, *)
LEMMA ReceivedNext ==
    ASSUME NEW m \in Engines, NEW seq \in Nat, m.messagesReceived # 0,
           seq = m.rxLastSequence + 1
    PROVE  AddReceived(m, seq)
             = [m EXCEPT !.messagesReceived = @ + 1, !.rxLastSequence = seq]
<1>1. /\ m.messagesReceived \in Nat /\ m.rxLastSequence \in Nat
      /\ m.messagesReceived + 1 # 1 /\ seq > m.rxLastSequence
      /\ ~ (seq < m.rxLastSequence) /\ seq # m.rxLastSequence
  BY DEF Engines
<1> QED
  BY <1>1 DEF AddReceived, Engines

(* for the last one again, *)
LEMMA ReceivedAgain ==
    ASSUME NEW m \in Engines, NEW seq \in Nat, m.messagesReceived # 0,
           seq = m.rxLastSequence
    PROVE  AddReceived(m, seq)
             = [m EXCEPT !.messagesReceived = @ + 1, !.rxDuplicates = @ + 1]
<1>1. /\ m.messagesReceived \in Nat /\ m.rxLastSequence \in Nat
      /\ m.messagesReceived + 1 # 1 /\ ~ (seq > m.rxLastSequence)
      /\ seq # m.rxLastSequence + 1
  BY DEF Engines
<1> QED
  BY <1>1 DEF AddReceived, Engines

(* for an older one in the order window, *)
LEMMA ReceivedOlder ==
    ASSUME NEW m \in Engines, NEW seq \in Nat, m.messagesReceived # 0,
           seq < m.rxLastSequence, m.rxLastSequence - seq < OrderWindow
    PROVE  AddReceived(m, seq)
             = [m EXCEPT !.messagesReceived = @ + 1, !.rxOutOfOrder = @ + 1]
<1>1. /\ m.messagesReceived \in Nat /\ m.rxLastSequence \in Nat
      /\ m.messagesReceived + 1 # 1 /\ ~ (seq > m.rxLastSequence)
      /\ seq # m.rxLastSequence + 1 /\ seq # m.rxLastSequence
  BY DEF Engines
<1> QED
  BY <1>1 DEF AddReceived, Engines

(* for one past a gap, *)
LEMMA ReceivedAfterGap ==
    ASSUME NEW m \in Engines, NEW seq \in Nat, m.messagesReceived # 0,
           seq > m.rxLastSequence + 1
    PROVE  AddReceived(m, seq)
             = [m EXCEPT !.messagesReceived = @ + 1, !.rxLastSequence = seq,
                         !.rxSequenceGaps = @ + (seq - (m.rxLastSequence + 1)),
                         !.secSeqGaps = @ + (seq - (m.rxLastSequence + 1))]
<1>1. /\ m.messagesReceived \in Nat /\ m.rxLastSequence \in Nat
      /\ m.messagesReceived + 1 # 1 /\ seq > m.rxLastSequence
      /\ seq # m.rxLastSequence + 1 /\ seq # m.rxLastSequence
      /\ ~ (seq < m.rxLastSequence)
  BY DEF Engines
<1> QED
  BY <1>1 DEF AddReceived, Missed, Engines

(* and for one older than the order window. *)
LEMMA ReceivedTooOld ==
    ASSUME NEW m \in Engines, NEW seq \in Nat, m.messagesReceived # 0,
           seq < m.rxLastSequence, ~ (m.rxLastSequence - seq < OrderWindow)
    PROVE  AddReceived(m, seq)
             = [m EXCEPT !.messagesReceived = @ + 1,
                         !.rxSequenceGaps = @ + 1, !.secSeqGaps = @ + 1]
<1>1. /\ m.messagesReceived \in Nat /\ m.rxLastSequence \in Nat
      /\ m.messagesReceived + 1 # 1 /\ ~ (seq > m.rxLastSequence)
      /\ seq # m.rxLastSequence + 1 /\ seq # m.rxLastSequence
      /\ ~ (seq > m.rxLastSequence + 1)
  BY DEF Engines
<1> QED
  BY <1>1 DEF AddReceived, Missed, Engines

(* The same by counter: the last number, duplicates, frames out of order   *)
(* and gaps, in total and of the second.                                   *)
Counts(a, last, again, older, gaps, second) ==
    /\ a.rxLastSequence = last /\ a.rxDuplicates = again
    /\ a.rxOutOfOrder = older
    /\ a.rxSequenceGaps = gaps /\ a.secSeqGaps = second

Outcome(a, m, seq) ==
    LET last == m.rxLastSequence
        missed == seq - (last + 1)
    IN  \/ /\ m.messagesReceived = 0
           /\ Counts(a, seq, m.rxDuplicates, m.rxOutOfOrder,
                     m.rxSequenceGaps, m.secSeqGaps)
        \/ /\ m.messagesReceived # 0 /\ seq = last + 1
           /\ Counts(a, seq, m.rxDuplicates, m.rxOutOfOrder,
                     m.rxSequenceGaps, m.secSeqGaps)
        \/ /\ m.messagesReceived # 0 /\ seq = last
           /\ Counts(a, last, m.rxDuplicates + 1, m.rxOutOfOrder,
                     m.rxSequenceGaps, m.secSeqGaps)
        \/ /\ m.messagesReceived # 0 /\ seq < last /\ last - seq < OrderWindow
           /\ Counts(a, last, m.rxDuplicates, m.rxOutOfOrder + 1,
                     m.rxSequenceGaps, m.secSeqGaps)
        \/ /\ m.messagesReceived # 0 /\ seq > last + 1
           /\ Counts(a, seq, m.rxDuplicates, m.rxOutOfOrder,
                     m.rxSequenceGaps + missed, m.secSeqGaps + missed)
        \/ /\ m.messagesReceived # 0 /\ seq < last /\ ~ (last - seq < OrderWindow)
           /\ Counts(a, last, m.rxDuplicates, m.rxOutOfOrder,
                     m.rxSequenceGaps + 1, m.secSeqGaps + 1)

(* Whatever the number, one outcome is counted. *)
LEMMA ReceivedCounts ==
    ASSUME NEW m \in Engines, NEW seq \in Nat,
           NEW a, a = AddReceived(m, seq)
    PROVE  /\ a \in Engines
           /\ a.messagesSent = m.messagesSent
           /\ a.messagesReceived = m.messagesReceived + 1
           /\ Outcome(a, m, seq)
<1>1. /\ m.messagesReceived \in Nat /\ m.rxLastSequence \in Nat
      /\ m.rxSequenceGaps \in Nat /\ m.secSeqGaps \in Nat
      /\ m.rxOutOfOrder \in Nat /\ m.rxDuplicates \in Nat
  BY DEF Engines
<1>2. CASE m.messagesReceived = 0
  <2>1. a = [m EXCEPT !.messagesReceived = 1,
                       !.rxLastSequence = seq]
    BY <1>2, ReceivedFirst
  <2>2. m.messagesReceived + 1 \in Nat
    BY <1>1, <1>2
  <2>3. \A x \in Nat :
          [m EXCEPT !.messagesReceived = x,
                       !.rxLastSequence = seq] \in Engines
    BY DEF Engines
  <2>4. a \in Engines
    BY <2>1, <2>3
  <2>5. m.messagesReceived + 1 = 1
    BY <1>2
  <2>6. /\ a.messagesSent = m.messagesSent
        /\ a.messagesReceived = 1
        /\ Counts(a, seq, m.rxDuplicates, m.rxOutOfOrder,
                  m.rxSequenceGaps, m.secSeqGaps)
    BY <2>1 DEF Engines, Counts
  <2> QED
    BY <1>2, <2>4, <2>5, <2>6, Zenon DEF Outcome
<1>3. CASE m.messagesReceived # 0 /\ seq = m.rxLastSequence + 1
  <2>1. a = [m EXCEPT !.messagesReceived = m.messagesReceived + 1,
                       !.rxLastSequence = seq]
    BY <1>3, ReceivedNext
  <2>2. m.messagesReceived + 1 \in Nat
    BY <1>1, <1>3
  <2> DEFINE next(x) == [m EXCEPT !.messagesReceived = x,
                       !.rxLastSequence = seq]
  <2>3. \A x \in Nat : next(x) \in Engines
    BY DEF Engines
  <2>4. a \in Engines
    <3>1. a = next(m.messagesReceived + 1)
      BY <2>1
    <3> HIDE DEF next
    <3> QED
      BY <2>2, <2>3, <3>1
  <2>5. /\ a.messagesSent = m.messagesSent
        /\ a.messagesReceived = m.messagesReceived + 1
        /\ Counts(a, seq, m.rxDuplicates, m.rxOutOfOrder,
                  m.rxSequenceGaps, m.secSeqGaps)
    BY <2>1 DEF Engines, Counts
  <2> QED
    BY <1>3, <2>4, <2>5, Zenon DEF Outcome
<1>4. CASE m.messagesReceived # 0 /\ seq = m.rxLastSequence
  <2>1. a = [m EXCEPT !.messagesReceived = m.messagesReceived + 1,
                       !.rxDuplicates = m.rxDuplicates + 1]
    BY <1>4, ReceivedAgain
  <2>2. m.messagesReceived + 1 \in Nat /\ m.rxDuplicates + 1 \in Nat
    BY <1>1, <1>4
  <2> DEFINE next(x, y) == [m EXCEPT !.messagesReceived = x,
                       !.rxDuplicates = y]
  <2>3. \A x, y \in Nat : next(x, y) \in Engines
    BY DEF Engines
  <2>4. a \in Engines
    <3>1. a = next(m.messagesReceived + 1,
                 m.rxDuplicates + 1)
      BY <2>1
    <3> HIDE DEF next
    <3> QED
      BY <2>2, <2>3, <3>1
  <2>5. /\ a.messagesSent = m.messagesSent
        /\ a.messagesReceived = m.messagesReceived + 1
        /\ Counts(a, m.rxLastSequence, m.rxDuplicates + 1, m.rxOutOfOrder,
                  m.rxSequenceGaps, m.secSeqGaps)
    BY <2>1 DEF Engines, Counts
  <2> QED
    BY <1>4, <2>4, <2>5, Zenon DEF Outcome
<1>5. CASE m.messagesReceived # 0 /\ seq < m.rxLastSequence
           /\ m.rxLastSequence - seq < OrderWindow
  <2>1. a = [m EXCEPT !.messagesReceived = m.messagesReceived + 1,
                       !.rxOutOfOrder = m.rxOutOfOrder + 1]
    BY <1>5, ReceivedOlder
  <2>2. m.messagesReceived + 1 \in Nat /\ m.rxOutOfOrder + 1 \in Nat
    BY <1>1, <1>5
  <2> DEFINE next(x, y) == [m EXCEPT !.messagesReceived = x,
                       !.rxOutOfOrder = y]
  <2>3. \A x, y \in Nat : next(x, y) \in Engines
    BY DEF Engines
  <2>4. a \in Engines
    <3>1. a = next(m.messagesReceived + 1,
                 m.rxOutOfOrder + 1)
      BY <2>1
    <3> HIDE DEF next
    <3> QED
      BY <2>2, <2>3, <3>1
  <2>5. /\ a.messagesSent = m.messagesSent
        /\ a.messagesReceived = m.messagesReceived + 1
        /\ Counts(a, m.rxLastSequence, m.rxDuplicates, m.rxOutOfOrder + 1,
                  m.rxSequenceGaps, m.secSeqGaps)
    BY <2>1 DEF Engines, Counts
  <2> QED
    BY <1>5, <2>4, <2>5, Zenon DEF Outcome
<1>6. CASE m.messagesReceived # 0 /\ seq > m.rxLastSequence + 1
  <2>1. a = [m EXCEPT !.messagesReceived = m.messagesReceived + 1,
                       !.rxLastSequence = seq,
                       !.rxSequenceGaps = m.rxSequenceGaps + (seq - (m.rxLastSequence + 1)),
                       !.secSeqGaps = m.secSeqGaps + (seq - (m.rxLastSequence + 1))]
    BY <1>6, ReceivedAfterGap
  <2>2. m.messagesReceived + 1 \in Nat /\ m.rxSequenceGaps + (seq - (m.rxLastSequence + 1)) \in Nat /\ m.secSeqGaps + (seq - (m.rxLastSequence + 1)) \in Nat
    BY <1>1, <1>6
  <2> DEFINE next(x, y, z) == [m EXCEPT !.messagesReceived = x,
                       !.rxLastSequence = seq,
                       !.rxSequenceGaps = y,
                       !.secSeqGaps = z]
  <2>3. \A x, y, z \in Nat : next(x, y, z) \in Engines
    BY DEF Engines
  <2>4. a \in Engines
    <3>1. a = next(m.messagesReceived + 1,
                 m.rxSequenceGaps + (seq - (m.rxLastSequence + 1)),
                 m.secSeqGaps + (seq - (m.rxLastSequence + 1)))
      BY <2>1
    <3> HIDE DEF next
    <3> QED
      BY <2>2, <2>3, <3>1
  <2>5. /\ a.messagesSent = m.messagesSent
        /\ a.messagesReceived = m.messagesReceived + 1
        /\ Counts(a, seq, m.rxDuplicates, m.rxOutOfOrder,
                  m.rxSequenceGaps + (seq - (m.rxLastSequence + 1)),
                  m.secSeqGaps + (seq - (m.rxLastSequence + 1)))
    BY <2>1 DEF Engines, Counts
  <2> QED
    BY <1>6, <2>4, <2>5, Zenon DEF Outcome
<1>7. CASE m.messagesReceived # 0 /\ seq < m.rxLastSequence
           /\ ~ (m.rxLastSequence - seq < OrderWindow)
  <2>1. a = [m EXCEPT !.messagesReceived = m.messagesReceived + 1,
                       !.rxSequenceGaps = m.rxSequenceGaps + 1,
                       !.secSeqGaps = m.secSeqGaps + 1]
    BY <1>7, ReceivedTooOld
  <2>2. m.messagesReceived + 1 \in Nat /\ m.rxSequenceGaps + 1 \in Nat /\ m.secSeqGaps + 1 \in Nat
    BY <1>1, <1>7
  <2> DEFINE next(x, y, z) == [m EXCEPT !.messagesReceived = x,
                       !.rxSequenceGaps = y,
                       !.secSeqGaps = z]
  <2>3. \A x, y, z \in Nat : next(x, y, z) \in Engines
    BY DEF Engines
  <2>4. a \in Engines
    <3>1. a = next(m.messagesReceived + 1,
                 m.rxSequenceGaps + 1,
                 m.secSeqGaps + 1)
      BY <2>1
    <3> HIDE DEF next
    <3> QED
      BY <2>2, <2>3, <3>1
  <2>5. /\ a.messagesSent = m.messagesSent
        /\ a.messagesReceived = m.messagesReceived + 1
        /\ Counts(a, m.rxLastSequence, m.rxDuplicates, m.rxOutOfOrder,
                  m.rxSequenceGaps + 1,
                  m.secSeqGaps + 1)
    BY <2>1 DEF Engines, Counts
  <2> QED
    BY <1>7, <2>4, <2>5, Zenon DEF Outcome
<1>8. \/ seq = m.rxLastSequence + 1 \/ seq = m.rxLastSequence
      \/ seq < m.rxLastSequence \/ seq > m.rxLastSequence + 1
  BY <1>1
<1> QED
  BY <1>2, <1>3, <1>4, <1>5, <1>6, <1>7, <1>8, Zenon
-----------------------------------------------------------------------------
(* The numbers missing between those seen. *)

GapsIn(S) == IF S = {} THEN {} ELSE (Min(S) .. Max(S)) \ S

Greatest(S, n) == n \in S /\ \A s \in S : s <= n
Least(S, n) == n \in S /\ \A s \in S : n <= s

(* The gaps of a set are what is missing between its ends. *)
LEMMA GapsBetween ==
    ASSUME NEW S, S \subseteq Nat, NEW lo \in Nat, NEW hi \in Nat,
           Least(S, lo), Greatest(S, hi)
    PROVE  GapsIn(S) = (lo .. hi) \ S /\ IsFiniteSet(GapsIn(S))
<1>1. Min(S) = lo
  <2>1. \A x \in S : (\A y \in S : x <= y) => x = lo
    BY DEF Least
  <2>2. lo \in S /\ \A y \in S : lo <= y
    BY DEF Least
  <2> QED
    BY <2>1, <2>2, Zenon DEF Min
<1>2. Max(S) = hi
  <2>1. \A x \in S : (\A y \in S : x >= y) => x = hi
    BY DEF Greatest
  <2>2. hi \in S /\ \A y \in S : hi >= y
    BY DEF Greatest
  <2> QED
    BY <2>1, <2>2, Zenon DEF Max
<1>3. GapsIn(S) = (lo .. hi) \ S
  BY <1>1, <1>2 DEF GapsIn, Least
<1>4. IsFiniteSet(lo .. hi) /\ (lo .. hi) \ S \in SUBSET (lo .. hi)
  BY FS_Interval
<1> QED
  BY <1>3, <1>4, FS_Subset

(* A set of numbers that is not empty has a least one. *)
LEMMA HasLeast ==
    ASSUME NEW S, S \subseteq Nat, S # {}
    PROVE  \E lo \in Nat : Least(S, lo)
  BY LeastNatural DEF Least

(* The first frame leaves no gap. *)
LEMMA GapsFirst ==
    ASSUME NEW q \in Nat
    PROVE  GapsIn({}) = {} /\ GapsIn({q}) = {}
<1>1. GapsIn({}) = {}
  BY DEF GapsIn
<1>2. Least({q}, q) /\ Greatest({q}, q) /\ {q} \subseteq Nat
  BY DEF Least, Greatest
<1>3. GapsIn({q}) = (q .. q) \ {q}
  BY <1>2, GapsBetween
<1> QED
  BY <1>1, <1>3

(* The frame after the last leaves none either, *)
LEMMA GapsNext ==
    ASSUME NEW S, S \subseteq Nat, NEW last \in Nat, Greatest(S, last)
    PROVE  GapsIn(S \union {last + 1}) = GapsIn(S)
<1>1. PICK lo \in Nat : Least(S, lo)
  BY HasLeast DEF Greatest
<1> DEFINE T == S \union {last + 1}
<1>2. lo <= last
  BY <1>1 DEF Greatest, Least
<1>3. Least(T, lo) /\ Greatest(T, last + 1) /\ T \subseteq Nat
  BY <1>1, <1>2 DEF Greatest, Least
<1>4. GapsIn(S) = (lo .. last) \ S
  BY <1>1, GapsBetween
<1>5. GapsIn(T) = (lo .. last + 1) \ T
  <2>1. last + 1 \in Nat
    OBVIOUS
  <2> HIDE DEF T
  <2> QED
    BY <1>3, <2>1, GapsBetween
<1>6. (lo .. last + 1) \ T = (lo .. last) \ S
  BY <1>2
<1> QED
  BY <1>4, <1>5, <1>6

(* one further on as many as it skips, *)
LEMMA GapsSkipped ==
    ASSUME NEW S, S \subseteq Nat, NEW last \in Nat, Greatest(S, last),
           NEW q \in Nat, q > last + 1
    PROVE  Cardinality(GapsIn(S \union {q}))
             = Cardinality(GapsIn(S)) + (q - (last + 1))
<1>1. PICK lo \in Nat : Least(S, lo)
  BY HasLeast DEF Greatest
<1> DEFINE T == S \union {q}
           skipped == last + 1 .. q - 1
<1>2. lo <= last /\ \A s \in S : s <= last
  BY <1>1 DEF Greatest, Least
<1>3. Least(T, lo) /\ Greatest(T, q) /\ T \subseteq Nat
  BY <1>1, <1>2 DEF Greatest, Least
<1>4. GapsIn(S) = (lo .. last) \ S /\ IsFiniteSet(GapsIn(S))
  BY <1>1, GapsBetween
<1>5. GapsIn(T) = (lo .. q) \ T
  <2> HIDE DEF T
  <2> QED
    BY <1>3, GapsBetween
<1>6. GapsIn(T) = GapsIn(S) \union skipped /\ GapsIn(S) \intersect skipped = {}
  <2>1. \A n : n \in (lo .. q) \ T <=> n \in (lo .. last) \ S \/ n \in skipped
    BY <1>2
  <2>2. \A n : ~ (n \in (lo .. last) \ S /\ n \in skipped)
    OBVIOUS
  <2> QED
    BY <1>4, <1>5, <2>1, <2>2
<1>7. IsFiniteSet(skipped) /\ Cardinality(skipped) = q - (last + 1)
  <2>1. last + 1 \in Int /\ q - 1 \in Int /\ ~ (last + 1 > q - 1)
        /\ (q - 1) - (last + 1) + 1 = q - (last + 1)
    OBVIOUS
  <2> QED
    BY <2>1, FS_Interval
<1> HIDE DEF T, skipped
<1>8. Cardinality(GapsIn(S) \union skipped)
        = Cardinality(GapsIn(S)) + Cardinality(skipped)
          - Cardinality(GapsIn(S) \intersect skipped)
  BY <1>4, <1>7, FS_Union
<1>9. Cardinality(GapsIn(S) \intersect skipped) = 0
  BY <1>6, FS_EmptySet
<1>10. Cardinality(GapsIn(S)) \in Nat
  BY <1>4, FS_CardinalityType
<1>11. Cardinality(GapsIn(T)) = Cardinality(GapsIn(S)) + (q - (last + 1)) - 0
  BY <1>6, <1>7, <1>8, <1>9, Zenon
<1> QED
  BY <1>10, <1>11 DEF T

(* and an older one closes at most one. *)
LEMMA GapsOlder ==
    ASSUME NEW S, S \subseteq Nat, NEW last \in Nat, Greatest(S, last),
           NEW q \in Nat, q < last
    PROVE  /\ Cardinality(GapsIn(S)) \in Nat
           /\ Cardinality(GapsIn(S \union {q})) \in Nat
           /\ Cardinality(GapsIn(S)) <= Cardinality(GapsIn(S \union {q})) + 1
<1>1. PICK lo \in Nat : Least(S, lo)
  BY HasLeast DEF Greatest
<1> DEFINE T == S \union {q}
<1>2. PICK low \in Nat : Least(T, low)
  <2>1. T \subseteq Nat /\ T # {}
    OBVIOUS
  <2> HIDE DEF T
  <2> QED
    BY <2>1, HasLeast
<1>3. low <= lo
  BY <1>1, <1>2 DEF Least
<1>4. Greatest(T, last) /\ T \subseteq Nat
  BY DEF Greatest
<1>5. GapsIn(S) = (lo .. last) \ S /\ IsFiniteSet(GapsIn(S))
  BY <1>1, GapsBetween
<1>6. GapsIn(T) = (low .. last) \ T /\ IsFiniteSet(GapsIn(T))
  <2> HIDE DEF T
  <2> QED
    BY <1>2, <1>4, GapsBetween
<1>7. GapsIn(S) \subseteq GapsIn(T) \union {q}
  <2>1. (lo .. last) \ S \subseteq ((low .. last) \ T) \union {q}
    BY <1>3
  <2> QED
    BY <1>5, <1>6, <2>1, Zenon
<1>8. /\ IsFiniteSet(GapsIn(T) \union {q})
      /\ Cardinality(GapsIn(T) \union {q}) <= Cardinality(GapsIn(T)) + 1
  <2>1. IsFiniteSet(GapsIn(T) \union {q})
        /\ Cardinality(GapsIn(T) \union {q})
             = IF q \in GapsIn(T) THEN Cardinality(GapsIn(T))
               ELSE Cardinality(GapsIn(T)) + 1
    BY <1>6, FS_AddElement
  <2>2. Cardinality(GapsIn(T)) \in Nat
    BY <1>6, FS_CardinalityType
  <2> QED
    BY <2>1, <2>2
<1>9. Cardinality(GapsIn(S)) <= Cardinality(GapsIn(T) \union {q})
  <2>1. GapsIn(S) \in SUBSET (GapsIn(T) \union {q})
    BY <1>7
  <2> QED
    BY <1>8, <2>1, FS_Subset
<1>10. /\ Cardinality(GapsIn(S)) \in Nat /\ Cardinality(GapsIn(T)) \in Nat
       /\ Cardinality(GapsIn(T) \union {q}) \in Nat
  BY <1>5, <1>6, <1>8, FS_CardinalityType
<1>11. Cardinality(GapsIn(S)) <= Cardinality(GapsIn(T)) + 1
  <2> HIDE DEF T
  <2> QED
    BY <1>8, <1>9, <1>10
<1> QED
  BY <1>10, <1>11
-----------------------------------------------------------------------------
(* The metrics, step by step. *)

(* What is lost is the gaps in what has been received. *)
LEMMA LostIsGaps == Lost = GapsIn(Seen) /\ Lost' = GapsIn(Seen')
<1>1. Lost = GapsIn(Seen)
  BY DEF Lost, GapsIn
<1>2. Lost' = GapsIn(Seen')
  BY DEF Lost, GapsIn
<1> QED
  BY <1>1, <1>2

(* What has been received and is on the bus again is finite. *)
LEMMA OnBusTyped ==
    ASSUME SetTypes, ThreadTypes
    PROVE  /\ OnBus \subseteq Seen /\ IsFiniteSet(OnBus)
           /\ Cardinality(OnBus) \in Nat
<1>1. OnBus \in SUBSET Seen
  BY DEF OnBus
<1> QED
  BY <1>1, SeenTyped, FS_Subset, FS_CardinalityType

(* Steps that count nothing and take no new frame. *)
LEMMA QuietMetrics ==
    ASSUME WindowInv, MetricInv,
           UNCHANGED <<engine, framesSent, drained, head_seq_>>,
           Seen' = Seen, dups' \in Nat, dups <= dups',
           OnBus' \subseteq OnBus, BusInv', OrderInv'
    PROVE  MetricInv' /\ (GapsAreLosses => GapsAreLosses')
<1>1. MetricTypes' /\ DrainedOnce' /\ LastInv'
  BY DEF MetricInv, MetricTypes, DrainedOnce, LastInv
<1>2. TrafficInv'
  <2>1. /\ IsFiniteSet(OnBus) /\ Cardinality(OnBus) \in Nat
        /\ Cardinality(Seen) \in Nat
    BY OnBusTyped, SeenTyped DEF WindowInv
  <2>2. Cardinality(OnBus') <= Cardinality(OnBus) /\ IsFiniteSet(OnBus')
    <3>1. OnBus' \in SUBSET OnBus
      OBVIOUS
    <3> QED
      BY <2>1, <3>1, FS_Subset
  <2>3. Cardinality(OnBus') \in Nat
    BY <2>2, FS_CardinalityType
  <2>4. engine.messagesReceived + Cardinality(OnBus) <= Cardinality(Seen) + dups
    BY DEF MetricInv, TrafficInv
  <2>5. engine.messagesReceived \in Nat /\ dups \in Nat
    BY DEF MetricInv, MetricTypes, Engines, WindowInv, ThreadTypes
  <2>6. engine.messagesReceived + Cardinality(OnBus') <= Cardinality(Seen) + dups'
    BY <2>1, <2>2, <2>3, <2>4, <2>5
  <2>7. /\ engine.messagesSent + framesSent = head_seq_
        /\ Cardinality(Seen) + engine.rxDuplicates <= engine.messagesReceived
    BY DEF MetricInv, TrafficInv
  <2> QED
    BY <2>6, <2>7 DEF TrafficInv
<1>3. ASSUME GapsAreLosses PROVE GapsAreLosses'
  <2>1. Lost' = Lost
    BY LostIsGaps
  <2> QED
    BY <1>3, <2>1 DEF GapsAreLosses
<1> QED
  BY <1>1, <1>2, <1>3 DEF MetricInv

(* Writing keeps the metrics' invariant and gaps the losses, *)
LEMMA WritesKeepsMetrics ==
    ASSUME WindowInv, MetricInv, Writes
    PROVE  MetricInv' /\ (GapsAreLosses => GapsAreLosses')
<1>1. /\ UNCHANGED <<engine, framesSent, drained, head_seq_, dups, acked, rejected,
                     rxPc, rxSeq>>
      /\ bus' = Append(bus, counter) /\ txPc = "write"
  BY DEF Writes, Write
<1>2. Seen' = Seen
  BY <1>1, SeenSteps DEF WindowInv
<1>3. counter \in Nat /\ counter \in Seqs /\ Written = counter
  BY <1>1 DEF WindowInv, CountTypes, Written, Writes, Write
<1>4. /\ \A i \in DOMAIN bus : bus[i] < counter /\ bus[i] \in Nat
      /\ \A s \in Seen : s < counter /\ s \in Nat
  BY <1>3, BusTyped, SeenTyped DEF WindowInv, WrittenInv
<1>5. /\ DOMAIN bus' = 1 .. Len(bus) + 1 /\ Len(bus) \in Nat
      /\ DOMAIN bus = 1 .. Len(bus)
      /\ \A i \in DOMAIN bus : bus'[i] = bus[i]
      /\ bus'[Len(bus) + 1] = counter
  BY <1>1, <1>3 DEF WindowInv, ThreadTypes
<1>6. OnBus' \subseteq OnBus
  <2>1. ASSUME NEW s \in Seen, NEW i \in DOMAIN bus', bus'[i] = s
        PROVE  \E j \in DOMAIN bus : bus[j] = s
    <3>1. i # Len(bus) + 1
      BY <1>4, <1>5, <2>1
    <3>2. i \in DOMAIN bus
      BY <1>5, <3>1
    <3> QED
      BY <1>5, <2>1, <3>2
  <2> QED
    BY <1>2, <2>1 DEF OnBus
<1>7. BusInv'
  <2>1. ASSUME NEW i \in DOMAIN bus', NEW j \in DOMAIN bus', bus'[i] = bus'[j]
        PROVE  i = j
    <3>1. i \in DOMAIN bus \/ i = Len(bus) + 1
      BY <1>5
    <3>2. j \in DOMAIN bus \/ j = Len(bus) + 1
      BY <1>5
    <3>3. CASE i \in DOMAIN bus /\ j \in DOMAIN bus
      BY <1>5, <2>1, <3>3 DEF MetricInv, BusInv
    <3>4. CASE i = Len(bus) + 1 /\ j \in DOMAIN bus
      BY <1>3, <1>4, <1>5, <2>1, <3>4
    <3>5. CASE i \in DOMAIN bus /\ j = Len(bus) + 1
      BY <1>3, <1>4, <1>5, <2>1, <3>5
    <3> QED
      BY <3>1, <3>2, <3>3, <3>4, <3>5
  <2> QED
    BY <2>1 DEF BusInv
<1>8. OrderInv'
  <2>1. ASSUME dups' = 0
        PROVE  /\ \A i, j \in DOMAIN bus' : i < j => bus'[i] < bus'[j]
               /\ \A s \in Seen' : \A i \in DOMAIN bus' : s < bus'[i]
    <3>1. /\ \A i, j \in DOMAIN bus : i < j => bus[i] < bus[j]
          /\ \A s \in Seen : \A i \in DOMAIN bus : s < bus[i]
      BY <1>1, <2>1 DEF MetricInv, OrderInv
    <3>2. ASSUME NEW i \in DOMAIN bus', NEW j \in DOMAIN bus', i < j
          PROVE  bus'[i] < bus'[j]
      <4>1. i \in DOMAIN bus
        BY <1>5, <3>2
      <4>2. j \in DOMAIN bus \/ j = Len(bus) + 1
        BY <1>5
      <4> QED
        BY <1>4, <1>5, <3>1, <3>2, <4>1, <4>2
    <3>3. ASSUME NEW s \in Seen', NEW i \in DOMAIN bus' PROVE s < bus'[i]
      <4>1. i \in DOMAIN bus \/ i = Len(bus) + 1
        BY <1>5
      <4> QED
        BY <1>2, <1>4, <1>5, <3>1, <4>1
    <3> QED
      BY <3>2, <3>3
  <2> QED
    BY <2>1 DEF OrderInv
<1>9. dups' \in Nat /\ dups <= dups'
  BY <1>1 DEF WindowInv, ThreadTypes
<1> QED
  BY <1>1, <1>2, <1>6, <1>7, <1>8, <1>9, QuietMetrics

(* so do a loss on the bus and the receiver's recording, *)
LEMMA DeliversKeepsMetrics ==
    ASSUME WindowInv, MetricInv, Delivers
    PROVE  MetricInv' /\ (GapsAreLosses => GapsAreLosses')
<1>1. UNCHANGED <<engine, framesSent, drained, head_seq_, dups>>
  BY DEF Delivers, Lose, RxCheckHead, RxCheckBase, RxSet
<1>2. Seen' = Seen
  <2>1. Lose => UNCHANGED <<acked, rejected, rxPc, rxSeq>>
    BY DEF Lose
  <2> QED
    BY <2>1, SeenSteps DEF Delivers, WindowInv
<1>3. dups' \in Nat /\ dups <= dups'
  BY <1>1 DEF WindowInv, ThreadTypes
<1>4. CASE ~Lose
  <2>1. bus' = bus
    BY <1>4 DEF Delivers, RxCheckHead, RxCheckBase, RxSet
  <2>2. OnBus' \subseteq OnBus /\ BusInv' /\ OrderInv'
    BY <1>1, <1>2, <2>1 DEF OnBus, MetricInv, BusInv, OrderInv
  <2> QED
    BY <1>1, <1>2, <1>3, <2>2, QuietMetrics
<1>5. CASE Lose
  <2>1. bus # <<>> /\ bus' = Tail(bus)
    BY <1>5 DEF Lose
  <2>2. \A i \in DOMAIN bus' :
          i + 1 \in DOMAIN bus /\ bus'[i] = bus[i + 1] /\ i \in Nat
    BY <2>1, BusTail DEF WindowInv
  <2>3. OnBus' \subseteq OnBus /\ BusInv'
    BY <1>2, <2>2 DEF OnBus, MetricInv, BusInv
  <2>4. OrderInv'
    BY <1>1, <1>2, <2>2 DEF MetricInv, OrderInv
  <2> QED
    BY <1>1, <1>2, <1>3, <2>3, <2>4, QuietMetrics
<1> QED
  BY <1>4, <1>5

(* one message overtaking another, *)
LEMMA OvertakeKeepsMetrics ==
    ASSUME WindowInv, MetricInv, Overtake
    PROVE  MetricInv' /\ (GapsAreLosses => GapsAreLosses')
<1>1. /\ UNCHANGED <<engine, framesSent, drained, head_seq_, acked, rejected,
                     rxPc, rxSeq>>
      /\ dups' = dups + 1
  BY DEF Overtake
<1>2. Seen' = Seen
  BY <1>1, SeenSteps DEF WindowInv
<1>3. dups \in Nat /\ dups' \in Nat /\ dups <= dups' /\ dups' # 0
  BY <1>1 DEF WindowInv, ThreadTypes
<1>4. \A i \in DOMAIN bus' :
        Before(i) \in DOMAIN bus /\ bus'[i] = bus[Before(i)] /\ Before(Before(i)) = i
  BY OvertakePlaces DEF WindowInv
<1>5. OnBus' \subseteq OnBus
  BY <1>2, <1>4 DEF OnBus
<1>6. BusInv'
  BY <1>4 DEF MetricInv, BusInv
<1>7. OrderInv'
  BY <1>3 DEF OrderInv
<1> QED
  BY <1>1, <1>2, <1>3, <1>5, <1>6, <1>7, QuietMetrics

(* reaping, *)
LEMMA ReapsKeepsMetrics ==
    ASSUME WindowInv, MetricInv, Reaps
    PROVE  MetricInv' /\ (GapsAreLosses => GapsAreLosses')
<1>1. UNCHANGED <<engine, framesSent, drained, head_seq_, dups, bus, acked, rejected,
                  rxPc, rxSeq>>
  BY DEF Reaps, Reap, ReapBegin, ReapHarvest, ReapAdvance
<1>2. Seen' = Seen
  BY <1>1, SeenSteps DEF WindowInv
<1>3. dups' \in Nat /\ dups <= dups'
  BY <1>1 DEF WindowInv, ThreadTypes
<1>4. OnBus' \subseteq OnBus /\ BusInv' /\ OrderInv'
  BY <1>1, <1>2 DEF OnBus, MetricInv, BusInv, OrderInv
<1> QED
  BY <1>1, <1>2, <1>3, <1>4, QuietMetrics

(* recording what was sent, *)
LEMMA RecordsKeepsMetrics ==
    ASSUME WindowInv, MetricInv, Records
    PROVE  MetricInv' /\ (GapsAreLosses => GapsAreLosses')
<1>1. /\ UNCHANGED <<drained, dups, bus, acked, rejected, rxPc, rxSeq>>
      /\ head_seq_' = head_seq_ + 1 /\ head_seq_ \in Nat
  BY DEF Records, OnTxSent, WindowInv, CountTypes
<1>2. Seen' = Seen
  BY <1>1, SeenSteps DEF WindowInv
<1>3. OnBus' = OnBus /\ BusInv' /\ OrderInv'
  BY <1>1, <1>2 DEF OnBus, MetricInv, BusInv, OrderInv
<1>4. \/ engine' = engine /\ framesSent' = framesSent + 1
      \/ engine' = AddSent(engine, framesSent + 1) /\ framesSent' = 0
  BY DEF Records
<1>5. engine \in Engines /\ framesSent \in Nat /\ drained \in Nat
      /\ framesSent + 1 \in Nat /\ engine.messagesSent \in Nat
  BY DEF MetricInv, MetricTypes, Engines
<1>6. \A n \in Nat :
        /\ AddSent(engine, n) \in Engines
        /\ AddSent(engine, n).messagesSent = engine.messagesSent + n
        /\ AddSent(engine, n).messagesReceived = engine.messagesReceived
        /\ AddSent(engine, n).rxSequenceGaps = engine.rxSequenceGaps
        /\ AddSent(engine, n).secSeqGaps = engine.secSeqGaps
        /\ AddSent(engine, n).rxOutOfOrder = engine.rxOutOfOrder
        /\ AddSent(engine, n).rxDuplicates = engine.rxDuplicates
        /\ AddSent(engine, n).rxLastSequence = engine.rxLastSequence
  <2>1. ASSUME NEW n \in Nat, NEW a, a = AddSent(engine, n)
        PROVE  /\ a \in Engines
               /\ a.messagesSent = engine.messagesSent + n
               /\ a.messagesReceived = engine.messagesReceived
               /\ a.rxSequenceGaps = engine.rxSequenceGaps
               /\ a.secSeqGaps = engine.secSeqGaps
               /\ a.rxOutOfOrder = engine.rxOutOfOrder
               /\ a.rxDuplicates = engine.rxDuplicates
               /\ a.rxLastSequence = engine.rxLastSequence
    BY <1>5, <2>1 DEF AddSent, Engines
  <2> QED
    BY <2>1
<1>7. /\ engine' \in Engines /\ framesSent' \in Nat
      /\ engine'.messagesReceived = engine.messagesReceived
      /\ engine'.rxSequenceGaps = engine.rxSequenceGaps
      /\ engine'.secSeqGaps = engine.secSeqGaps
      /\ engine'.rxOutOfOrder = engine.rxOutOfOrder
      /\ engine'.rxDuplicates = engine.rxDuplicates
      /\ engine'.rxLastSequence = engine.rxLastSequence
  BY <1>4, <1>5, <1>6
<1>8. engine'.messagesSent + framesSent' = head_seq_'
  <2>1. engine.messagesSent + framesSent = head_seq_
    BY DEF MetricInv, TrafficInv
  <2> QED
    BY <1>1, <1>4, <1>5, <1>6, <2>1
<1>9. MetricTypes' /\ LastInv' /\ DrainedOnce'
  BY <1>1, <1>2, <1>5, <1>7 DEF MetricInv, MetricTypes, LastInv, DrainedOnce
<1>10. TrafficInv'
  BY <1>1, <1>2, <1>3, <1>7, <1>8 DEF MetricInv, TrafficInv
<1>11. GapsAreLosses => GapsAreLosses'
  <2>1. Lost' = Lost
    BY <1>2, LostIsGaps
  <2> QED
    BY <1>7, <2>1 DEF GapsAreLosses
<1> QED
  BY <1>3, <1>9, <1>10, <1>11 DEF MetricInv

(* the drain of the per-second counters, *)
LEMMA DrainKeepsMetrics ==
    ASSUME WindowInv, MetricInv, DrainPerSecondCounters
    PROVE  MetricInv' /\ (GapsAreLosses => GapsAreLosses')
<1>1. /\ UNCHANGED <<dups, bus, acked, rejected, rxPc, rxSeq, head_seq_, framesSent>>
      /\ engine' = [engine EXCEPT !.secSeqGaps = 0]
      /\ drained' = drained + engine.secSeqGaps
  BY DEF DrainPerSecondCounters, vars
<1>2. Seen' = Seen
  BY <1>1, SeenSteps DEF WindowInv
<1>3. OnBus' = OnBus /\ BusInv' /\ OrderInv'
  BY <1>1, <1>2 DEF OnBus, MetricInv, BusInv, OrderInv
<1>4. engine \in Engines /\ framesSent \in Nat /\ drained \in Nat
      /\ engine.secSeqGaps \in Nat /\ engine.rxSequenceGaps \in Nat
  BY DEF MetricInv, MetricTypes, Engines
<1>5. /\ engine' \in Engines
      /\ engine'.messagesSent = engine.messagesSent
      /\ engine'.messagesReceived = engine.messagesReceived
      /\ engine'.rxSequenceGaps = engine.rxSequenceGaps
      /\ engine'.secSeqGaps = 0
      /\ engine'.rxOutOfOrder = engine.rxOutOfOrder
      /\ engine'.rxDuplicates = engine.rxDuplicates
      /\ engine'.rxLastSequence = engine.rxLastSequence
  BY <1>1, <1>4 DEF Engines
<1>6. MetricTypes' /\ LastInv' /\ DrainedOnce'
  BY <1>1, <1>2, <1>4, <1>5 DEF MetricInv, MetricTypes, LastInv, DrainedOnce
<1>7. TrafficInv'
  BY <1>1, <1>2, <1>3, <1>5 DEF MetricInv, TrafficInv
<1>8. GapsAreLosses => GapsAreLosses'
  <2>1. Lost' = Lost
    BY <1>2, LostIsGaps
  <2> QED
    BY <1>5, <2>1 DEF GapsAreLosses
<1> QED
  BY <1>3, <1>6, <1>7, <1>8 DEF MetricInv

(* Nothing sent, received or counted. *)
LEMMA NothingCounted ==
    ASSUME engine = NoMetrics, framesSent = 0, drained = 0, head_seq_ = 0,
           Seen = {}, bus = <<>>, dups \in Nat
    PROVE  MetricInv /\ GapsAreLosses
<1>1. Cardinality({}) = 0
  BY FS_EmptySet
<1>2. OnBus = {} /\ DOMAIN bus = {}
  BY DEF OnBus
<1>3. MetricTypes /\ DrainedOnce /\ LastInv
  BY DEF NoMetrics, Engines, MetricTypes, DrainedOnce, LastInv
<1>4. TrafficInv
  BY <1>1, <1>2 DEF NoMetrics, TrafficInv
<1>5. BusInv /\ OrderInv
  BY <1>2 DEF BusInv, OrderInv
<1>6. GapsAreLosses
  <2>1. Lost = {}
    BY DEF Lost
  <2> QED
    BY <1>1, <2>1 DEF GapsAreLosses, NoMetrics
<1> QED
  BY <1>3, <1>4, <1>5, <1>6 DEF MetricInv

(* and a new test. *)
LEMMA RestartKeepsMetrics ==
    ASSUME WindowInv, Restart
    PROVE  MetricInv' /\ GapsAreLosses'
<1>1. /\ engine' = NoMetrics /\ framesSent' = 0 /\ drained' = 0
      /\ head_seq_' = 0 /\ bus' = <<>> /\ dups' = dups
  BY DEF Restart, StartTest
<1>2. Seen' = {}
  BY RestartKeepsWindow DEF Restart
<1>3. dups' \in Nat
  BY <1>1 DEF WindowInv, ThreadTypes
<1>4. /\ MetricTypes' /\ DrainedOnce' /\ LastInv'
  BY <1>1, <1>2 DEF NoMetrics, Engines, MetricTypes, DrainedOnce, LastInv
<1>5. Cardinality({}) = 0
  BY FS_EmptySet
<1>6. OnBus' = {} /\ DOMAIN bus' = {}
  BY <1>1, <1>2 DEF OnBus
<1>7. TrafficInv'
  BY <1>1, <1>2, <1>3, <1>5, <1>6 DEF NoMetrics, TrafficInv
<1>8. BusInv' /\ OrderInv'
  BY <1>6 DEF BusInv, OrderInv
<1>9. GapsAreLosses'
  <2>1. Lost' = {}
    BY <1>2 DEF Lost
  <2> QED
    BY <1>1, <1>5, <2>1 DEF GapsAreLosses, NoMetrics
<1> QED
  BY <1>4, <1>7, <1>8, <1>9 DEF MetricInv

(* The frame received is seen; it stays on the bus only where it is to come *)
(* again.                                                                   *)
LEMMA ReceivesBus ==
    ASSUME WindowInv, MetricInv, RxTake
    PROVE  /\ rxSeq' \in Seqs /\ rxSeq' = bus[1] /\ 1 \in DOMAIN bus
           /\ Seen' = Seen \union {rxSeq'}
           /\ BusInv'
           /\ \/ dups' = dups /\ OnBus' = OnBus \ {rxSeq'}
              \/ dups' = dups + 1 /\ OnBus' = OnBus \union {rxSeq'}
<1>1. /\ bus # <<>> /\ rxSeq' = Head(bus)
      /\ \/ bus' = Tail(bus) /\ dups' = dups
         \/ bus' = bus /\ dups' = dups + 1
  BY Zenon DEF RxTake
<1>2. /\ Head(bus) = bus[1] /\ 1 \in DOMAIN bus /\ bus[1] \in Seqs
      /\ \A i \in DOMAIN Tail(bus) :
           i + 1 \in DOMAIN bus /\ Tail(bus)[i] = bus[i + 1] /\ i \in Nat
  BY <1>1, BusTail, BusTyped DEF WindowInv
<1>3. Seen' = Seen \union {rxSeq'}
  BY SeenSteps DEF WindowInv
<1>4. \A i, j \in DOMAIN bus : bus[i] = bus[j] => i = j
  BY DEF MetricInv, BusInv
<1>5. CASE bus' = Tail(bus) /\ dups' = dups
  <2>1. /\ DOMAIN Tail(bus) = 1 .. Len(bus) - 1 /\ DOMAIN bus = 1 .. Len(bus)
        /\ Len(bus) \in Nat
    BY <1>1, BusTail, BusTyped DEF WindowInv
  <2>2. BusInv'
    BY <1>2, <1>4, <1>5 DEF BusInv
  <2>3. \A i \in DOMAIN bus' : bus'[i] # bus[1]
    <3>1. \A i \in DOMAIN bus' :
            i + 1 \in DOMAIN bus /\ bus'[i] = bus[i + 1] /\ i + 1 # 1
      BY <1>2, <1>5
    <3> QED
      BY <1>2, <1>4, <3>1
  <2>4. \A i \in DOMAIN bus : i # 1 => /\ i - 1 \in DOMAIN bus'
                                       /\ bus'[i - 1] = bus[i]
    <3>1. ASSUME NEW i \in DOMAIN bus, i # 1
          PROVE  i - 1 \in DOMAIN bus' /\ bus'[i - 1] = bus[i]
      <4>1. i - 1 \in DOMAIN Tail(bus) /\ (i - 1) + 1 = i
        BY <2>1, <3>1
      <4> QED
        BY <1>2, <1>5, <4>1
    <3> QED
      BY <3>1
  <2>5. \A s : s # bus[1] => ((\E i \in DOMAIN bus' : bus'[i] = s)
                              <=> (\E i \in DOMAIN bus : bus[i] = s))
    <3>1. ASSUME NEW s, s # bus[1], NEW i \in DOMAIN bus', bus'[i] = s
          PROVE  \E j \in DOMAIN bus : bus[j] = s
      BY <1>2, <1>5, <3>1
    <3>2. ASSUME NEW s, s # bus[1], NEW i \in DOMAIN bus, bus[i] = s
          PROVE  \E j \in DOMAIN bus' : bus'[j] = s
      BY <2>4, <3>2
    <3> QED
      BY <3>1, <3>2
  <2>6. OnBus' = OnBus \ {bus[1]}
    BY <1>1, <1>2, <1>3, <2>3, <2>5 DEF OnBus
  <2> QED
    BY <1>1, <1>2, <1>3, <1>5, <2>2, <2>6
<1>6. CASE bus' = bus /\ dups' = dups + 1
  <2>1. OnBus' = OnBus \union {bus[1]}
    BY <1>1, <1>2, <1>3, <1>6 DEF OnBus
  <2>2. BusInv'
    BY <1>4, <1>6 DEF BusInv
  <2> QED
    BY <1>1, <1>2, <1>3, <1>6, <2>1, <2>2
<1> QED
  BY <1>1, <1>5, <1>6

(* Receiving keeps the counts of traffic. *)
LEMMA ReceivesKeepsTraffic ==
    ASSUME WindowInv, MetricInv, Receives
    PROVE  MetricTypes' /\ LastInv' /\ TrafficInv' /\ DrainedOnce'
<1> DEFINE q == rxSeq'
<1>1. /\ UNCHANGED <<framesSent, drained, head_seq_>>
      /\ engine' = AddReceived(engine, q) /\ RxTake
  BY DEF Receives, RxTake, windowVars
<1>2. /\ q \in Nat /\ q \in Seqs /\ Seen' = Seen \union {q}
      /\ \/ dups' = dups /\ OnBus' = OnBus \ {q}
         \/ dups' = dups + 1 /\ OnBus' = OnBus \union {q}
  BY <1>1, ReceivesBus
<1>3. /\ engine \in Engines /\ framesSent \in Nat /\ drained \in Nat
      /\ engine.messagesReceived \in Nat /\ engine.rxLastSequence \in Nat
      /\ engine.rxSequenceGaps \in Nat /\ engine.secSeqGaps \in Nat
      /\ engine.rxDuplicates \in Nat /\ engine.messagesSent \in Nat
  BY DEF MetricInv, MetricTypes, Engines
<1> HIDE DEF q
<1>4. /\ engine' \in Engines
      /\ engine'.messagesSent = engine.messagesSent
      /\ engine'.messagesReceived = engine.messagesReceived + 1
  BY <1>1, <1>2, <1>3, ReceivedCounts
<1>0. Outcome(engine', engine, q)
  BY <1>1, <1>2, <1>3, ReceivedCounts
<1>5. \/ /\ engine.messagesReceived = 0 \/ q > engine.rxLastSequence
         /\ engine'.rxLastSequence = q /\ engine'.rxDuplicates = engine.rxDuplicates
      \/ /\ engine.messagesReceived # 0 /\ q = engine.rxLastSequence
         /\ engine'.rxLastSequence = engine.rxLastSequence
         /\ engine'.rxDuplicates = engine.rxDuplicates + 1
      \/ /\ engine.messagesReceived # 0 /\ q < engine.rxLastSequence
         /\ engine'.rxLastSequence = engine.rxLastSequence
         /\ engine'.rxDuplicates = engine.rxDuplicates
  BY <1>2, <1>3, <1>0 DEF Outcome, Counts
<1>6. engine'.rxSequenceGaps - engine.rxSequenceGaps
        = engine'.secSeqGaps - engine.secSeqGaps
  BY <1>2, <1>3, <1>0 DEF Outcome, Counts
<1>7. Seen \subseteq Nat /\ IsFiniteSet(Seen) /\ Cardinality(Seen) \in Nat
  BY SeenTyped DEF WindowInv
<1>8. /\ OnBus \subseteq Seen /\ IsFiniteSet(OnBus) /\ Cardinality(OnBus) \in Nat
  BY OnBusTyped DEF WindowInv
<1>9. MetricTypes' /\ DrainedOnce'
  <2>1. engine'.rxSequenceGaps \in Nat /\ engine'.secSeqGaps \in Nat
    BY <1>4 DEF Engines
  <2>2. engine.rxSequenceGaps = drained + engine.secSeqGaps
    BY DEF MetricInv, DrainedOnce
  <2>3. engine'.rxSequenceGaps = drained + engine'.secSeqGaps
    BY <1>3, <1>6, <2>1, <2>2
  <2>4. DrainedOnce'
    BY <1>1, <2>3, Zenon DEF DrainedOnce
  <2> QED
    BY <1>1, <1>3, <1>4, <2>4 DEF MetricTypes
<1>10. LastInv'
  <2>1. engine'.messagesReceived # 0 /\ Seen' # {}
    BY <1>2, <1>3, <1>4
  <2>2. /\ engine.messagesReceived = 0 <=> Seen = {}
        /\ Seen # {} => /\ engine.rxLastSequence \in Seen
                        /\ \A s \in Seen : s <= engine.rxLastSequence
    BY DEF MetricInv, LastInv
  <2>3. engine'.rxLastSequence \in Seen' /\ \A s \in Seen' : s <= engine'.rxLastSequence
    <3>1. CASE /\ engine.messagesReceived = 0 \/ q > engine.rxLastSequence
               /\ engine'.rxLastSequence = q
      <4>1. \A s \in Seen : s <= q
        BY <1>2, <1>3, <1>7, <2>2, <3>1
      <4> QED
        BY <1>2, <3>1, <4>1
    <3>2. CASE /\ engine.messagesReceived # 0
               /\ q <= engine.rxLastSequence
               /\ engine'.rxLastSequence = engine.rxLastSequence
      BY <1>2, <2>2, <3>2
    <3> QED
      BY <1>2, <1>3, <1>5, <3>1, <3>2
  <2> QED
    BY <2>1, <2>3 DEF LastInv
<1>11. TrafficInv'
  <2>1. engine.messagesSent + framesSent = head_seq_
        /\ Cardinality(Seen) + engine.rxDuplicates <= engine.messagesReceived
        /\ engine.messagesReceived + Cardinality(OnBus) <= Cardinality(Seen) + dups
    BY DEF MetricInv, TrafficInv
  <2>2. dups \in Nat
    BY DEF WindowInv, ThreadTypes
  <2>3. CASE q \in Seen
    <3>1. Seen' = Seen
      BY <1>2, <2>3
    <3>2. Cardinality(Seen) + engine'.rxDuplicates <= engine.messagesReceived + 1
      BY <1>3, <1>5, <1>7, <2>1
    <3>3. engine.messagesReceived + 1 + Cardinality(OnBus') <= Cardinality(Seen) + dups'
      <4>1. CASE dups' = dups /\ OnBus' = OnBus \ {q} /\ q \in OnBus
        <5>1. Cardinality(OnBus') = Cardinality(OnBus) - 1
          BY <1>8, <4>1, FS_RemoveElement
        <5> QED
          BY <1>3, <1>7, <1>8, <2>1, <2>2, <4>1, <5>1
      <4>2. CASE dups' = dups + 1 /\ OnBus' = OnBus \union {q} /\ q \in OnBus
        <5>1. Cardinality(OnBus') = Cardinality(OnBus)
          <6>1. OnBus' = OnBus
            BY <4>2
          <6> QED
            BY <6>1, Zenon
        <5>2. /\ engine.messagesReceived \in Nat /\ Cardinality(Seen) \in Nat
              /\ Cardinality(OnBus) \in Nat
          BY <1>3, <1>7, <1>8
        <5> QED
          BY <2>1, <2>2, <4>2, <5>1, <5>2
      <4>3. q \in OnBus
        <5>1. \E i \in DOMAIN bus : bus[i] = q
          BY <1>1, ReceivesBus DEF q
        <5> QED
          BY <2>3, <5>1 DEF OnBus
      <4> QED
        BY <1>2, <4>1, <4>2, <4>3
    <3> QED
      BY <1>1, <1>4, <2>1, <3>1, <3>2, <3>3 DEF TrafficInv
  <2>4. CASE q \notin Seen
    <3>1. Cardinality(Seen') = Cardinality(Seen) + 1
      BY <1>2, <1>7, <2>4, FS_AddElement
    <3>2. engine'.rxDuplicates = engine.rxDuplicates
      <4>1. engine.messagesReceived # 0 => engine.rxLastSequence \in Seen
        BY DEF MetricInv, LastInv
      <4> QED
        BY <1>5, <2>4, <4>1
    <3>3. Cardinality(Seen') + engine'.rxDuplicates <= engine.messagesReceived + 1
      BY <1>3, <1>7, <2>1, <3>1, <3>2
    <3>4. engine.messagesReceived + 1 + Cardinality(OnBus') <= Cardinality(Seen') + dups'
      <4>1. q \notin OnBus
        BY <1>8, <2>4
      <4>2. CASE dups' = dups /\ OnBus' = OnBus \ {q}
        <5>1. Cardinality(OnBus') = Cardinality(OnBus)
          <6>1. OnBus' = OnBus
            BY <4>1, <4>2
          <6> QED
            BY <6>1, Zenon
        <5> QED
          BY <1>3, <1>7, <1>8, <2>1, <2>2, <3>1, <4>2, <5>1
      <4>3. CASE dups' = dups + 1 /\ OnBus' = OnBus \union {q}
        <5>1. Cardinality(OnBus') = Cardinality(OnBus) + 1
          BY <1>8, <4>1, <4>3, FS_AddElement
        <5> QED
          BY <1>3, <1>7, <1>8, <2>1, <2>2, <3>1, <4>3, <5>1
      <4> QED
        BY <1>2, <4>2, <4>3
    <3> QED
      BY <1>1, <1>4, <2>1, <3>3, <3>4 DEF TrafficInv
  <2> QED
    BY <2>3, <2>4
<1> QED
  BY <1>9, <1>10, <1>11

(* Receiving keeps duplicates, reordered and gaps apart. *)
LEMMA ReceivesKeepsOrder ==
    ASSUME WindowInv, MetricInv, RxTake
    PROVE  OrderInv'
<1>1. /\ bus # <<>> /\ rxSeq' = Head(bus)
      /\ \/ bus' = Tail(bus) /\ dups' = dups
         \/ bus' = bus /\ dups' = dups + 1
  BY Zenon DEF RxTake
<1>2. dups \in Nat
  BY DEF WindowInv, ThreadTypes
<1>3. ASSUME dups' = 0
      PROVE  /\ \A i, j \in DOMAIN bus' : i < j => bus'[i] < bus'[j]
             /\ \A s \in Seen' : \A i \in DOMAIN bus' : s < bus'[i]
  <2>1. bus' = Tail(bus) /\ dups = 0
    BY <1>1, <1>2, <1>3
  <2>2. /\ Head(bus) = bus[1] /\ 1 \in DOMAIN bus
        /\ \A i \in DOMAIN bus' :
             i + 1 \in DOMAIN bus /\ bus'[i] = bus[i + 1] /\ i \in Nat /\ 1 < i + 1
    <3>1. /\ Head(bus) = bus[1] /\ 1 \in DOMAIN bus
          /\ DOMAIN bus' = 1 .. Len(bus) - 1
          /\ \A i \in DOMAIN bus' : i + 1 \in DOMAIN bus /\ bus'[i] = bus[i + 1]
      BY <1>1, <2>1, BusTail DEF WindowInv
    <3>2. \A i \in DOMAIN bus' : i \in Nat /\ 1 < i + 1
      BY <3>1
    <3> QED
      BY <3>1, <3>2
  <2>3. /\ \A i, j \in DOMAIN bus : i < j => bus[i] < bus[j]
        /\ \A s \in Seen : \A i \in DOMAIN bus : s < bus[i]
    BY <2>1 DEF MetricInv, OrderInv
  <2>4. Seen' = Seen \union {bus[1]}
    BY <1>1, <2>2, SeenSteps DEF WindowInv
  <2>5. \A i, j \in DOMAIN bus' : i < j => bus'[i] < bus'[j]
    BY <2>2, <2>3
  <2>6. \A s \in Seen' : \A i \in DOMAIN bus' : s < bus'[i]
    BY <2>2, <2>3, <2>4
  <2> QED
    BY <2>5, <2>6
<1> QED
  BY <1>3 DEF OrderInv

(* Without a duplicate a frame is newer than all seen; and the window for  *)
(* frames out of order is not left where it is as long as the test.        *)
LEMMA ReceivesKeepsGaps ==
    ASSUME WindowInv, MetricInv, Receives, InWindow, GapsAreLosses, InWindow'
    PROVE  GapsAreLosses'
<1> DEFINE q == rxSeq'
           last == engine.rxLastSequence
<1>1. engine' = AddReceived(engine, q) /\ RxTake
  BY DEF Receives
<1>2. /\ q \in Nat /\ q < MaxSeq /\ Seen' = Seen \union {q}
      /\ q = bus[1] /\ 1 \in DOMAIN bus
  BY <1>1, ReceivesBus
<1>3. /\ engine \in Engines /\ last \in Nat
      /\ engine.rxSequenceGaps \in Nat /\ engine.rxOutOfOrder \in Nat
  BY DEF MetricInv, MetricTypes, Engines
<1>4. Seen \subseteq Seqs /\ Seen \subseteq Nat
  BY SeenTyped DEF WindowInv
<1>5. /\ engine.messagesReceived = 0 <=> Seen = {}
      /\ engine.messagesReceived # 0 => Greatest(Seen, last)
  BY DEF MetricInv, LastInv, Greatest
<1>6. Lost = GapsIn(Seen) /\ Lost' = GapsIn(Seen \union {q})
  BY <1>2, LostIsGaps
<1>7. /\ engine.rxOutOfOrder = 0 => engine.rxSequenceGaps = Cardinality(GapsIn(Seen))
      /\ engine.rxSequenceGaps <= Cardinality(GapsIn(Seen)) + engine.rxOutOfOrder
  BY <1>6 DEF GapsAreLosses
<1> HIDE DEF q, last
<1>8. \/ engine.messagesReceived = 0
         /\ Counts(engine', q, engine.rxDuplicates, engine.rxOutOfOrder,
                   engine.rxSequenceGaps, engine.secSeqGaps)
      \/ engine.messagesReceived # 0 /\ q = last + 1
         /\ Counts(engine', q, engine.rxDuplicates, engine.rxOutOfOrder,
                   engine.rxSequenceGaps, engine.secSeqGaps)
      \/ engine.messagesReceived # 0 /\ q = last
         /\ engine'.rxOutOfOrder = engine.rxOutOfOrder
         /\ engine'.rxSequenceGaps = engine.rxSequenceGaps
      \/ engine.messagesReceived # 0 /\ q < last
         /\ engine'.rxOutOfOrder = engine.rxOutOfOrder + 1
         /\ engine'.rxSequenceGaps = engine.rxSequenceGaps
      \/ engine.messagesReceived # 0 /\ q > last + 1
         /\ engine'.rxOutOfOrder = engine.rxOutOfOrder
         /\ engine'.rxSequenceGaps = engine.rxSequenceGaps + (q - (last + 1))
      \/ engine.messagesReceived # 0 /\ q < last /\ ~ (last - q < OrderWindow)
  <2>1. Outcome(engine', engine, q)
    BY <1>1, <1>2, <1>3, ReceivedCounts DEF q
  <2> QED
    BY <2>1, Zenon DEF Outcome, Counts, last
<1>9. CASE engine.messagesReceived = 0
  <2>1. engine'.rxOutOfOrder = engine.rxOutOfOrder
        /\ engine'.rxSequenceGaps = engine.rxSequenceGaps
    BY <1>8, <1>9 DEF Counts
  <2>2. GapsIn(Seen \union {q}) = GapsIn(Seen)
    <3>1. Seen = {} /\ Seen \union {q} = {q}
      BY <1>5, <1>9
    <3> QED
      BY <1>2, <3>1, GapsFirst
  <2> QED
    BY <1>6, <1>7, <2>1, <2>2 DEF GapsAreLosses
<1>10. CASE engine.messagesReceived # 0 /\ (q = last \/ q = last + 1)
  <2>1. engine'.rxOutOfOrder = engine.rxOutOfOrder
        /\ engine'.rxSequenceGaps = engine.rxSequenceGaps
    BY <1>2, <1>3, <1>8, <1>10 DEF Counts
  <2>2. GapsIn(Seen \union {q}) = GapsIn(Seen)
    <3>1. CASE q = last
      BY <1>5, <1>10, <3>1 DEF Greatest
    <3>2. CASE q = last + 1
      BY <1>3, <1>4, <1>5, <1>10, <3>2, GapsNext
    <3> QED
      BY <1>10, <3>1, <3>2
  <2> QED
    BY <1>6, <1>7, <2>1, <2>2 DEF GapsAreLosses
<1>11. CASE engine.messagesReceived # 0 /\ q > last + 1
  <2>1. engine'.rxOutOfOrder = engine.rxOutOfOrder
        /\ engine'.rxSequenceGaps = engine.rxSequenceGaps + (q - (last + 1))
    BY <1>2, <1>3, <1>8, <1>11
  <2>2. Cardinality(GapsIn(Seen \union {q}))
          = Cardinality(GapsIn(Seen)) + (q - (last + 1))
    <3>1. Greatest(Seen, last)
      BY <1>5, <1>11
    <3>2. last \in Nat /\ q \in Nat /\ q > last + 1 /\ Seen \subseteq Nat
      BY <1>2, <1>3, <1>4, <1>11
    <3> QED
      BY <3>1, <3>2, GapsSkipped, ZenonT(30)
  <2>3. Cardinality(GapsIn(Seen)) \in Nat
    <3>1. PICK lo \in Nat : Least(Seen, lo)
      BY <1>4, <1>5, <1>11, HasLeast
    <3>2. IsFiniteSet(GapsIn(Seen))
      BY <1>3, <1>4, <1>5, <1>11, <3>1, GapsBetween
    <3> QED
      BY <3>2, FS_CardinalityType
  <2> QED
    BY <1>2, <1>3, <1>6, <1>7, <2>1, <2>2, <2>3 DEF GapsAreLosses
<1>12. CASE engine.messagesReceived # 0 /\ q < last
  <2>1. last - q < OrderWindow
    <3>1. last \in Seen
      BY <1>5, <1>12 DEF Greatest
    <3>2. CASE dups = 0
      <4>1. last < q
        BY <1>2, <3>1, <3>2 DEF MetricInv, OrderInv
      <4> QED
        BY <1>2, <1>3, <1>12, <4>1
    <3>3. CASE MaxSeq <= OrderWindow
      <4>1. last < MaxSeq
        BY <1>4, <3>1
      <4> QED
        BY <1>2, <1>3, <3>3, <4>1
    <3> QED
      BY <3>2, <3>3 DEF InWindow
  <2>2. engine'.rxOutOfOrder = engine.rxOutOfOrder + 1
        /\ engine'.rxSequenceGaps = engine.rxSequenceGaps
    BY <1>2, <1>3, <1>8, <1>12, <2>1
  <2>3. /\ Cardinality(GapsIn(Seen)) \in Nat
        /\ Cardinality(GapsIn(Seen \union {q})) \in Nat
        /\ Cardinality(GapsIn(Seen)) <= Cardinality(GapsIn(Seen \union {q})) + 1
    BY <1>2, <1>3, <1>4, <1>5, <1>12, GapsOlder
  <2> QED
    BY <1>3, <1>6, <1>7, <2>2, <2>3 DEF GapsAreLosses
<1> QED
  BY <1>2, <1>3, <1>9, <1>10, <1>11, <1>12
-----------------------------------------------------------------------------
(* The invariant. *)

(* The invariant holds at the start; *)
LEMMA InitInv ==
    ASSUME BidirInit
    PROVE  IInv
<1> USE DEF BidirInit, Init
<1>1. Seen = {} /\ Written = 0 /\ OnBus = {}
  BY DEF Seen, Written, OnBus
<1>2. CountTypes /\ SetTypes /\ ThreadTypes /\ ReapInv /\ RejectedOnlyLate
  BY DEF CountTypes, SetTypes, ThreadTypes, ReapInv, RejectedOnlyLate
<1>3. WrittenInv
  BY <1>1, CapacityFacts DEF WrittenInv
<1>4. GraceInv /\ BitsInv
  <2>1. Recorded(0, base_seq_) = {} /\ Recorded(Unharvested, MaxSeq) = {}
    BY DEF Recorded
  <2>2. Cardinality({}) = 0
    BY FS_EmptySet
  <2> QED
    BY <2>1, <2>2 DEF GraceInv, BitsInv
<1>5. MetricInv /\ GapsAreLosses
  BY <1>1, NothingCounted
<1> QED
  BY <1>2, <1>3, <1>4, <1>5 DEF IInv, WindowInv

(* every step keeps the window's part, *)
LEMMA StepKeepsWindow ==
    ASSUME WindowInv, [BidirNext]_allVars
    PROVE  WindowInv'
<1>1. CASE Tx
  BY <1>1, TxKeepsWindow
<1>2. CASE Rx
  BY <1>2, RxKeepsWindow
<1>3. CASE Reap
  BY <1>3, ReapKeepsWindow
<1>4. CASE Overtake
  BY <1>4, OvertakeKeepsWindow
<1>5. CASE StartTest
  BY <1>5, RestartKeepsWindow
<1>6. CASE UNCHANGED vars
  <2>1. Seen' = Seen /\ Written' = Written
    BY <1>6 DEF vars, Seen, Written
  <2> QED
    BY <1>6, <2>1 DEF vars, WindowInv, CountTypes, SetTypes, ThreadTypes,
                      ReapInv, WrittenInv, RejectedOnlyLate, Late
<1> QED
  BY <1>1, <1>2, <1>3, <1>4, <1>5, <1>6
     DEF BidirNext, Writes, Records, Receives, Delivers, Reaps, Restart, Tx, Rx,
         DrainPerSecondCounters, allVars

(* the metrics' part, *)
LEMMA StepKeepsMetrics ==
    ASSUME WindowInv, MetricInv, [BidirNext]_allVars
    PROVE  MetricInv' /\ (InWindow /\ GapsAreLosses /\ InWindow' => GapsAreLosses')
<1>1. CASE Writes
  BY <1>1, WritesKeepsMetrics
<1>2. CASE Records
  BY <1>2, RecordsKeepsMetrics
<1>3. CASE Receives
  <2>1. MetricTypes' /\ LastInv' /\ TrafficInv' /\ DrainedOnce'
    BY <1>3, ReceivesKeepsTraffic
  <2>2. BusInv' /\ OrderInv'
    BY <1>3, ReceivesBus, ReceivesKeepsOrder DEF Receives
  <2>3. InWindow /\ GapsAreLosses /\ InWindow' => GapsAreLosses'
    BY <1>3, ReceivesKeepsGaps
  <2> QED
    BY <2>1, <2>2, <2>3 DEF MetricInv
<1>4. CASE Delivers
  BY <1>4, DeliversKeepsMetrics
<1>5. CASE Overtake
  BY <1>5, OvertakeKeepsMetrics
<1>6. CASE Reaps
  BY <1>6, ReapsKeepsMetrics
<1>7. CASE DrainPerSecondCounters
  BY <1>7, DrainKeepsMetrics
<1>8. CASE Restart
  BY <1>8, RestartKeepsMetrics
<1>9. CASE UNCHANGED allVars
  <2>1. UNCHANGED <<engine, framesSent, drained, head_seq_, dups, bus, acked,
                    rejected, rxPc, rxSeq>>
    BY <1>9 DEF allVars, vars
  <2>2. Seen' = Seen
    BY <2>1, SeenSteps DEF WindowInv
  <2>3. dups' \in Nat /\ dups <= dups'
    BY <2>1 DEF WindowInv, ThreadTypes
  <2>4. OnBus' \subseteq OnBus /\ BusInv' /\ OrderInv'
    BY <2>1, <2>2 DEF OnBus, MetricInv, BusInv, OrderInv
  <2> QED
    BY <2>1, <2>2, <2>3, <2>4, QuietMetrics
<1> QED
  BY <1>1, <1>2, <1>3, <1>4, <1>5, <1>6, <1>7, <1>8, <1>9 DEF BidirNext

(* The duplicates so far only grow. *)
LEMMA WindowOnlyLeft ==
    ASSUME WindowInv, [BidirNext]_allVars, InWindow'
    PROVE  InWindow
<1>1. dups \in Nat
  BY DEF WindowInv, ThreadTypes
<1>2. dups' = dups \/ dups' = dups + 1
  BY DEF BidirNext, Writes, Write, Records, OnTxSent, Receives, RxTake, Delivers,
         Lose, RxCheckHead, RxCheckBase, RxSet, Overtake, Reaps, Reap, ReapBegin,
         ReapHarvest, ReapAdvance, DrainPerSecondCounters, Restart, StartTest,
         allVars, vars
<1> QED
  BY <1>1, <1>2 DEF InWindow

(* and all of it. *)
LEMMA NextInv ==
    ASSUME IInv, [BidirNext]_allVars
    PROVE  IInv'
<1>1. WindowInv'
  BY StepKeepsWindow DEF IInv
<1>2. MetricInv' /\ (InWindow' => GapsAreLosses')
  BY StepKeepsMetrics, WindowOnlyLeft DEF IInv
<1>3. ~LateOverlaps => GraceInv' /\ BitsInv'
  BY StepKeepsBits DEF IInv
<1> QED
  BY <1>1, <1>2, <1>3 DEF IInv

(* The invariant holds of every reachable state.                           *)
THEOREM Invariance == BidirSpec => []IInv
<1>1. BidirInit => IInv
  BY InitInv
<1>2. IInv /\ [BidirNext]_allVars => IInv'
  BY NextInv
<1> QED
  BY <1>1, <1>2, PTL DEF BidirSpec

-----------------------------------------------------------------------------
(* What it gives. *)

(* The window's invariant types every variable. *)
LEMMA Typed ==
    ASSUME WindowInv
    PROVE  TypeOK
<1>1. base_seq_ \in 0 .. MaxSeq
  BY DEF WindowInv, CountTypes, ReapInv
<1> QED
  BY <1>1 DEF WindowInv, CountTypes, SetTypes, ThreadTypes, TypeOK

(* A frame received is left out of the delivery count only where more than *)
(* the grace period has been sent since (FlightWindow::onRxReceived and    *)
(* its two guards).                                                        *)
THEOREM RejectedLateOnly == BidirSpec => []RejectedOnlyLate
<1>1. IInv => RejectedOnlyLate
  BY DEF IInv, WindowInv
<1> QED
  BY <1>1, Invariance, PTL

(* The delivery rate is exact (FlightWindow::reap): no bit is counted for  *)
(* a frame of another round, twice, or lost, provided no frame later than  *)
(* the grace period is recorded while a reap runs.                         *)
THEOREM DeliveryExact == BidirSpec => [](~LateOverlaps => ConfirmedExact)
<1>1. IInv => (~LateOverlaps => ConfirmedExact)
  <2> SUFFICES ASSUME IInv, ~LateOverlaps PROVE ConfirmedExact
    OBVIOUS
  <2>1. TypeOK
    BY Typed DEF IInv
  <2>2. totalConfirmed_ = Cardinality(Recorded(0, base_seq_))
    BY DEF IInv, BitsInv
  <2>3. Recorded(0, base_seq_) = {s \in acked : s < base_seq_}
    <3>1. \A s \in acked : 0 <= s
      BY DEF IInv, WindowInv, SetTypes
    <3> QED
      BY <3>1 DEF Recorded
  <2> QED
    BY <2>1, <2>2, <2>3 DEF ConfirmedExact
<1> QED
  BY <1>1, Invariance, PTL

(* What the test shows adds up: frames sent, tracked, received and drained *)
(* (MetricsEngineImpl::addSent, addReceived and drainPerSecondCounters).   *)
THEOREM CountersAddUp == BidirSpec => []CountersAgree
<1>1. IInv => CountersAgree
  <2> SUFFICES ASSUME IInv PROVE CountersAgree
    OBVIOUS
  <2>1. /\ engine \in Engines /\ engine.messagesReceived \in Nat
        /\ engine.rxDuplicates \in Nat
    BY DEF IInv, MetricInv, MetricTypes, Engines
  <2>2. /\ Cardinality(Seen) \in Nat /\ Cardinality(OnBus) \in Nat /\ dups \in Nat
    BY SeenTyped, OnBusTyped DEF IInv, WindowInv, ThreadTypes
  <2>3. /\ engine.messagesSent + framesSent = head_seq_
        /\ Cardinality(Seen) + engine.rxDuplicates <= engine.messagesReceived
        /\ engine.messagesReceived + Cardinality(OnBus) <= Cardinality(Seen) + dups
        /\ DrainedOnce
    BY DEF IInv, MetricInv, TrafficInv
  <2>4. /\ engine.messagesReceived - engine.rxDuplicates >= Cardinality(Seen)
        /\ engine.messagesReceived <= Cardinality(Seen) + dups
    BY <2>1, <2>2, <2>3
  <2> QED
    BY <2>3, <2>4 DEF CountersAgree, SameTraffic
<1> QED
  BY <1>1, Invariance, PTL

(* The sequence gaps shown are the frames lost (addReceived), as long as   *)
(* no frame comes later than the window for frames out of order.           *)
THEOREM GapsAreTheLosses == BidirSpec => [](InWindow => GapsAreLosses)
<1>1. IInv => (InWindow => GapsAreLosses)
  BY DEF IInv
<1> QED
  BY <1>1, Invariance, PTL
=============================================================================
