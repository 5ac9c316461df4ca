------------------------------ MODULE BidirTest ------------------------------
(***************************************************************************)
(* One direction of the bidirectional test (TestEngines.cpp): the delivery *)
(* tracker, and the MetricsEngine (MetricsEngine.cpp) the same TX and RX   *)
(* threads feed.  What one call of addSent or addReceived does to counters *)
(* only its thread writes is one step; the UI thread takes the per-second  *)
(* counters between any two.                                               *)
(***************************************************************************)
EXTENDS FlightWindow, FiniteSetsExt

CONSTANTS BurstSize,      \* frames written before addSent counts them
          OrderWindow     \* a frame this much older is out of order, 1000

ASSUME BurstAssumption == BurstSize \in Nat \ {0} /\ OrderWindow \in Nat

VARIABLES engine,     \* MetricsEngineImpl: counters of frames
          framesSent, \* bidirTxThread's, of its burst
          drained     \* history: sequence gaps the UI thread has taken

metricsVars == <<engine, framesSent, drained>>
allVars == <<vars, metricsVars>>

NoMetrics == [messagesSent |-> 0, messagesReceived |-> 0, rxSequenceGaps |-> 0, secSeqGaps |-> 0,
              rxOutOfOrder |-> 0, rxDuplicates |-> 0, rxLastSequence |-> 0]

BidirInit == Init /\ engine = NoMetrics /\ framesSent = 0 /\ drained = 0

AddSent(m, n) == [m EXCEPT !.messagesSent = @ + n]

\* Mutant: the gap counts the frame that came, too.
MissedInclusive(last, seq) == IF seq > last THEN seq - last ELSE 1
\* Frames between the last one and seq.
Missed(last, seq) == IF seq > last + 1 THEN seq - (last + 1) ELSE 1
AddReceived(m, seq) ==
    LET last == m.rxLastSequence
        r == [m EXCEPT !.messagesReceived = @ + 1]
        c == CASE seq = last + 1 -> r
               [] seq = last -> [r EXCEPT !.rxDuplicates = @ + 1]
               [] seq < last /\ last - seq < OrderWindow -> [r EXCEPT !.rxOutOfOrder = @ + 1]
               [] OTHER -> [r EXCEPT !.rxSequenceGaps = @ + Missed(last, seq),
                                     !.secSeqGaps = @ + Missed(last, seq)]
    IN  IF r.messagesReceived = 1 THEN [r EXCEPT !.rxLastSequence = seq]
        ELSE [c EXCEPT !.rxLastSequence = IF seq > last THEN seq ELSE @]
-----------------------------------------------------------------------------
Writes == Write /\ UNCHANGED metricsVars

\* The burst ends with its last frame, or early where a write failed.
Records ==
    /\ OnTxSent
    /\ \/ /\ framesSent + 1 < BurstSize
          /\ framesSent' = framesSent + 1
          /\ UNCHANGED engine
       \/ /\ framesSent' = 0
          /\ engine' = AddSent(engine, framesSent + 1)
    /\ UNCHANGED drained

\* addReceived, then onRxReceived
Receives == RxTake /\ engine' = AddReceived(engine, rxSeq') /\ UNCHANGED <<framesSent, drained>>
Delivers == (Lose \/ RxCheckHead \/ RxCheckBase \/ RxSet) /\ UNCHANGED metricsVars

\* Two frames change places on the way.
Overtake ==
    /\ Len(bus) >= 2 /\ dups < MaxDups
    /\ dups' = dups + 1
    /\ bus' = <<bus[2], bus[1]>> \o SubSeq(bus, 3, Len(bus))
    /\ UNCHANGED <<windowVars, txVars, rxVars, reapVars, acked, rejected, tests, metricsVars>>

Reaps == Reap /\ UNCHANGED metricsVars
\* Mutant: read and cleared in two, a gap counted between is lost.
DrainTorn ==
    /\ engine.secSeqGaps > 0
    /\ \E n \in 0 .. engine.secSeqGaps : drained' = drained + n
    /\ engine' = [engine EXCEPT !.secSeqGaps = 0]
    /\ UNCHANGED <<vars, framesSent>>
DrainPerSecondCounters ==
    /\ engine.secSeqGaps > 0
    /\ engine' = [engine EXCEPT !.secSeqGaps = 0]
    /\ drained' = drained + engine.secSeqGaps
    /\ UNCHANGED <<vars, framesSent>>

\* stopTest lets a burst end; startTest resets the engine.
Restart == /\ StartTest
           /\ framesSent = 0
           /\ engine' = NoMetrics
           /\ drained' = 0
           /\ UNCHANGED framesSent

BidirNext == \/ Writes \/ Records \/ Receives \/ Delivers \/ Overtake
             \/ Reaps \/ DrainPerSecondCounters \/ Restart

BidirSpec == BidirInit /\ [][BidirNext]_allVars
-----------------------------------------------------------------------------
Seen == acked \union rejected \union (IF rxPc = "idle" THEN {} ELSE {rxSeq})
Lost == IF Seen = {} THEN {} ELSE (Min(Seen) .. Max(Seen)) \ Seen

\* rxSequenceGaps are the frames lost between those received: all of them and
\* no other, or, where frames came out of order, at most as many more.
GapsAreLosses ==
    /\ engine.rxOutOfOrder = 0 => engine.rxSequenceGaps = Cardinality(Lost)
    /\ engine.rxSequenceGaps <= Cardinality(Lost) + engine.rxOutOfOrder

\* The metrics and the delivery tracker see the same traffic: every frame the
\* tracker was given, and no other, is counted once, but for duplicates.
SameTraffic ==
    /\ engine.messagesReceived - engine.rxDuplicates >= Cardinality(Seen)
    /\ engine.messagesReceived <= Cardinality(Seen) + dups
    /\ engine.messagesSent + framesSent = head_seq_

\* No gap is lost or shown twice by draining the per-second counters.
DrainedOnce == engine.rxSequenceGaps = drained + engine.secSeqGaps

\* What the test shows adds up with what was sent, tracked and drained.
CountersAgree == SameTraffic /\ DrainedOnce
=============================================================================
