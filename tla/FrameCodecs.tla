---------------------------- MODULE FrameCodecs ----------------------------
(***************************************************************************)
(* The three wire formats of the driver's codecs and the search for a bit  *)
(* timing, as operators.  A frame (canfd_frame) is a record                *)
(*   id, bits \subseteq {"eff", "rtr"}, flags \subseteq {"fdf", "brs",     *)
(*   "esi"}, ch (the channel in __res0), data (its first len bytes).       *)
(* SLCAN lines are sequences of ASCII codes, since the format lets a digit *)
(* stand where a command may; gs_usb and PCAN messages are records of      *)
(* their fields.                                                           *)
(***************************************************************************)
EXTENDS Integers, SequencesExt

CONSTANT kLineBuffer   \* sizeof(buf_) of the SLCAN line accumulator

ASSUME CodecAssumption == kLineBuffer \in Nat \ {0}

Dlc2Len(dlc) == <<0,1,2,3,4,5,6,7,8,12,16,20,24,32,48,64>>[dlc + 1]
\* Mutant: a length between two steps is rounded down.
Len2DlcDown(n) == Max({d \in 0 .. 15 : Dlc2Len(d) <= n})
Len2Dlc(n) == Min({15} \cup {d \in 0 .. 15 : n <= Dlc2Len(d)})

IsFd(f)     == "fdf" \in f.flags
Padded(d, n) == [i \in 1 .. n |-> IF i <= Len(d) THEN d[i] ELSE 0]
Masked(f)   == f.id % (IF "eff" \in f.bits THEN 2^29 ELSE 2^11)
Align4(n)   == 4 * ((n + 3) \div 4)

-----------------------------------------------------------------------------
(* SLCAN *)
CR == 13  LF == 10  Bell == 7
HexNibble(v) == IF v < 10 THEN 48 + v ELSE 55 + v
HexVal(c) == CASE c \in 48 .. 57  -> c - 48
               [] c \in 97 .. 102 -> c - 87
               [] c \in 65 .. 70  -> c - 55
               [] OTHER           -> -1
IsHex(s) == \A i \in DOMAIN s : HexVal(s[i]) >= 0
Hex(n, digits) ==
    [i \in 1 .. digits |-> HexNibble((n \div 16^(digits - i)) % 16)]
Number(s) == FoldLeft(LAMBDA n, c : 16 * n + HexVal(c), 0, s)

\* The frame type characters t, T, d and D.
Heads == {116, 84, 100, 68}
HeadOf(f) == IF IsFd(f) THEN IF "eff" \in f.bits THEN 68 ELSE 100
                        ELSE IF "eff" \in f.bits THEN 84 ELSE 116

SlcanEncode(f) ==
    LET n == IF IsFd(f) THEN Len(f.data) ELSE Min({Len(f.data), 8})
    IN  <<HeadOf(f)>>
        \o Hex(Masked(f), IF "eff" \in f.bits THEN 8 ELSE 3)
        \o Hex(IF IsFd(f) THEN Len2Dlc(Len(f.data)) ELSE Len(f.data), 1)
        \o FlattenSeq([i \in 1 .. n |-> Hex(f.data[i], 2)])
        \o <<CR>>

IdDigits(s)  == IF s[1] \in {84, 68} THEN 8 ELSE 3
LineIsFd(s)  == s[1] \in {100, 68}
DataLen(s) ==
    LET dlc == HexVal(s[IdDigits(s) + 2])
    IN  IF LineIsFd(s) THEN Dlc2Len(dlc) ELSE dlc

\* decode returns true: characters beyond the data are not looked at.
Decodable(s) ==
    /\ Len(s) >= 5
    /\ s[1] \in Heads
    /\ Len(s) >= IdDigits(s) + 2
    /\ IsHex(SubSeq(s, 2, IdDigits(s) + 2))
    /\ LineIsFd(s) \/ DataLen(s) <= 8
    /\ Len(s) >= IdDigits(s) + 2 + 2 * DataLen(s)
    /\ IsHex(SubSeq(s, IdDigits(s) + 3, IdDigits(s) + 2 + 2 * DataLen(s)))

SlcanDecode(s) ==
    LET d == IdDigits(s)
    IN  [id    |-> Number(SubSeq(s, 2, d + 1)),
         bits  |-> IF d = 8 THEN {"eff"} ELSE {},
         flags |-> IF LineIsFd(s) THEN {"fdf"} ELSE {},
         ch    |-> 0,
         data  |-> [i \in 1 .. DataLen(s) |->
                       16 * HexVal(s[d + 1 + 2 * i]) + HexVal(s[d + 2 + 2 * i])]]

\* One character of processBytes: the line so far and the frames emitted.
Accumulate(acc, c) ==
    CASE c = CR -> [line |-> <<>>,
                    out  |-> IF Decodable(acc.line)
                             THEN Append(acc.out, SlcanDecode(acc.line))
                             ELSE acc.out]
      [] c \notin {CR, LF} /\ Len(acc.line) < kLineBuffer - 1 ->
             [acc EXCEPT !.line = Append(@, c)]
      [] OTHER -> acc

-----------------------------------------------------------------------------
(* gs_usb: gs_host_frame; echo is an echo_id other than 0xFFFFFFFF. *)
GsEncode(f) ==
    [echo |-> TRUE, id |-> f.id, bits |-> f.bits,
     dlc     |-> IF IsFd(f) THEN Len2Dlc(Len(f.data)) ELSE Len(f.data),
     flags   |-> IF IsFd(f) THEN f.flags ELSE {},
     payload |-> Padded(f.data, IF IsFd(f) THEN 64 ELSE 8)]

GsDecode(h) ==
    LET n == IF IsFd(h) THEN Dlc2Len(h.dlc) ELSE Min({h.dlc, 8})
    IN  [id |-> h.id, bits |-> h.bits, flags |-> h.flags, ch |-> 0,
         data |-> SubSeq(h.payload, 1, n)]

-----------------------------------------------------------------------------
(* PCAN: pucan_tx_msg and pucan_rx_msg; tag is TX_ECHO_TAG. *)
kTxHeader == 20
kRxHeader == 28
kMsgHeader == 12

PcanBits(f) == IF IsFd(f) THEN f.bits \ {"rtr"} ELSE f.bits

PcanEncode(f) ==
    LET n == Min({Len(f.data), IF IsFd(f) THEN 64 ELSE 8})
    IN  [type |-> "tx", tag |-> TRUE, size |-> Align4(kTxHeader + n),
         ch |-> f.ch, dlc |-> IF IsFd(f) THEN Len2Dlc(n) ELSE n,
         bits |-> PcanBits(f), flags |-> IF IsFd(f) THEN f.flags ELSE {},
         id |-> Masked(f), payload |-> Padded(f.data, Align4(n))]

PcanDecode(m) ==
    LET n == IF IsFd(m) THEN Dlc2Len(m.dlc) ELSE Min({m.dlc, 8})
        copied == IF "rtr" \in m.bits THEN 0 ELSE Min({n, m.size - kRxHeader})
    IN  [id |-> m.id, bits |-> m.bits, flags |-> m.flags, ch |-> m.ch,
         data |-> Padded(SubSeq(m.payload, 1, copied), n)]

\* The messages processRxData handles in a transfer of size bytes: those
\* before the first it stops at.
Offset(msgs, i) == FoldLeft(LAMBDA n, m : n + m.size, 0, SubSeq(msgs, 1, i - 1))
\* Mutant: an empty message is skipped, not the end of the list.
StopsAtTruncated(msgs, i, size) ==
    \/ Offset(msgs, i) + kMsgHeader > size
    \/ Offset(msgs, i) + msgs[i].size > size
StopsAt(msgs, i, size) ==
    \/ Offset(msgs, i) + kMsgHeader > size
    \/ msgs[i].size = 0
    \/ Offset(msgs, i) + msgs[i].size > size
Handled(msgs, size) ==
    SubSeq(msgs, 1, Min({Len(msgs) + 1}
                        \cup {i \in DOMAIN msgs : StopsAt(msgs, i, size)}) - 1)

Emits(m) == m.type = "rx" /\ m.size >= kRxHeader /\ ~m.tag
PcanProcess(msgs, size) ==
    LET rx == SelectSeq(Handled(msgs, size), Emits)
    IN  [i \in DOMAIN rx |-> PcanDecode(rx[i])]

-----------------------------------------------------------------------------
(* Bit timing.  A clock is the hertz and the register ranges of a device's *)
(* controller; the result is the first timing either search accepts.       *)
SlcanBitrates == {10000, 20000, 50000, 100000, 125000, 250000, 500000,
                  800000, 1000000}
PcanClock == [hz |-> 80000000, tseg1 |-> 1 .. 256, tseg2 |-> 1 .. 128,
              brp |-> 1 .. 1024, maxTq |-> 385]

\* bitrate * brp wraps at 2^32 from prescaler 859 on for the largest rate the
\* app offers; a rate found there would be far below any it asks for.
Quanta(clock, bitrate, brp) == (clock.hz \div brp) \div bitrate
Clamped(n, range) == Max({Min(range), Min({n, Max(range)})})

\* PCAN refuses a tseg1 out of range where gs_usb clamps it.
Segments(codec, clock, tq) ==
    LET t1 == ((tq - 1) * 3) \div 4
    IN  IF codec = "gs_usb"
        THEN [tseg1 |-> Clamped(t1, clock.tseg1),
              tseg2 |-> tq - 1 - Clamped(t1, clock.tseg1)]
        ELSE [tseg1 |-> t1, tseg2 |-> tq - 1 - t1]

RateOf(clock, brp, tseg1, tseg2) == clock.hz \div (brp * (1 + tseg1 + tseg2))

\* Mutant: the rate of the timing found is not compared with the one asked.
AcceptsUnchecked(codec, clock, bitrate, brp) ==
    LET tq == Quanta(clock, bitrate, brp)
        s  == Segments(codec, clock, tq)
    IN  /\ tq \in 3 .. clock.maxTq
        /\ s.tseg1 \in clock.tseg1 /\ s.tseg2 \in clock.tseg2
Accepts(codec, clock, bitrate, brp) ==
    LET tq == Quanta(clock, bitrate, brp)
        s  == Segments(codec, clock, tq)
    IN  /\ tq \in 3 .. clock.maxTq
        /\ s.tseg1 \in clock.tseg1 /\ s.tseg2 \in clock.tseg2
        /\ RateOf(clock, brp, s.tseg1, s.tseg2) = bitrate

Prescalers(codec, clock, bitrate) ==
    {brp \in clock.brp : Accepts(codec, clock, bitrate, brp)}
\* The timing the device is given, at the first prescaler accepted.
Timing(codec, clock, bitrate) ==
    LET brp == Min(Prescalers(codec, clock, bitrate))
        s   == Segments(codec, clock, Quanta(clock, bitrate, brp))
    IN  [brp |-> brp, tseg1 |-> s.tseg1, tseg2 |-> s.tseg2]
\* pucan_timing_slow holds each value less one, in the field's width.
PcanTimingFields(t) ==
    [brp   |-> (t.brp - 1) % 2^10,
     tseg1 |-> (t.tseg1 - 1) % 2^8,
     tseg2 |-> (t.tseg2 - 1) % 2^7]
=============================================================================
