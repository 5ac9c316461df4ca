------------------------------ MODULE CanWire ------------------------------
(***************************************************************************)
(* Two adapters on one CAN bus, as the test engine of the app uses them:   *)
(* what one host writes is encoded by the codec of its adapter, put on the *)
(* bus by that device, heard by the other device, sent in USB transfers    *)
(* and decoded by the other host's codec.  SLCAN's transfers end at any    *)
(* byte, those of gs_usb and PCAN hold whole messages.  The devices and    *)
(* the bus are external; the codecs are those of FrameCodecs.              *)
(* BlockingRead and TxPath model how bytes get to and from the codecs.     *)
(***************************************************************************)
EXTENDS FrameCodecs

CONSTANTS
    Routes,        \* pairs <<codec of the writer, codec of the reader>>
    Frames,        \* per route, the frames the app writes
    Bitrates,      \* the bit rates a channel is opened with
    BusRate,       \* the bit rate of the bus
    GsClock,       \* what a gs_usb device answers to BT_CONST
    TransferSize,  \* bytes of a USB transfer of PCAN messages
    Unsent,        \* a byte: what a PCAN device finds behind a message too short
    MaxFrames, MaxNoise, MaxStops, MaxOpens,
    none

ASSUME WireAssumption ==
    /\ {MaxFrames, MaxNoise, MaxStops, MaxOpens, TransferSize} \subseteq Nat
    /\ Unsent \in 0 .. 255
    /\ \A r \in Routes : {r[1], r[2]} \subseteq {"slcan", "gs_usb", "pcan"}
    /\ DOMAIN Frames = Routes

VARIABLES
    route,      \* the codecs of the two adapters
    channel,    \* per adapter: what the host believes and what the device does
    written,    \* the frames written, each with what went onto the bus
    stream,     \* the reading device's bytes not transferred yet; each unit
                \* with the frame it completes
    line,       \* SLCAN: the line accumulator
    boundary,   \* history: what was lost of the line being read
    previous,   \* PCAN: the messages of the last transfer, in the device's buffer
    delivered,  \* the frames the reading codec emitted
    phantoms,   \* history: those it emitted for a line whose start was lost
    due,        \* history: the frames that were transferred whole
    noise, stops, opens

linkVars == <<route, channel, opens>>
rxVars   == <<line, boundary, previous, delivered, phantoms, due>>
vars == <<linkVars, rxVars, written, stream, noise, stops>>

Adapters == {1, 2}    \* the writer and the reader
Codec(a) == route[a]

Init ==
    /\ route \in Routes
    /\ channel = [a \in Adapters |->
                     [open |-> FALSE, asked |-> 0, onBus |-> FALSE, rate |-> 0]]
    /\ written = <<>> /\ stream = <<>>
    /\ line = <<>> /\ boundary = "clean" /\ previous = <<>>
    /\ delivered = <<>> /\ phantoms = <<>> /\ due = <<>>
    /\ noise = 0 /\ stops = 0 /\ opens = 0

-----------------------------------------------------------------------------
\* The rate a device runs at once its codec opened a channel with bitrate: the
\* one its registers then hold, or 0 when the codec has no timing to give it.
Codecs == {"slcan", "gs_usb", "pcan"}
Clock == [codec \in Codecs |-> IF codec = "gs_usb" THEN GsClock ELSE PcanClock]
RateFor == [codec \in Codecs, bitrate \in Bitrates |->
    LET clock == Clock[codec]
        t == Timing(codec, clock, bitrate)
        f == PcanTimingFields(t)
    IN  CASE codec = "slcan" -> IF bitrate \in SlcanBitrates THEN bitrate ELSE 0
          [] Prescalers(codec, clock, bitrate) = {} -> 0
          [] codec = "gs_usb" -> RateOf(clock, t.brp, t.tseg1, t.tseg2)
          [] OTHER -> RateOf(clock, f.brp + 1, f.tseg1 + 1, f.tseg2 + 1)]

\* SLCAN and gs_usb refuse a bit rate they have no timing for; PCAN puts a
\* no-op in its place and opens the channel at the rate the device has.
Open(a) ==
    /\ ~channel[a].open /\ opens < MaxOpens
    /\ opens' = opens + 1
    /\ \E bitrate \in Bitrates :
           LET rate == RateFor[Codec(a), bitrate]
           IN  IF rate = 0 /\ Codec(a) # "pcan" THEN UNCHANGED channel
               ELSE channel' = [channel EXCEPT ![a] =
                        [open |-> TRUE, asked |-> bitrate, onBus |-> TRUE,
                         rate |-> IF rate = 0 THEN @.rate ELSE rate]]
    /\ UNCHANGED <<route, rxVars, written, stream, noise, stops>>

Close(a) ==
    /\ channel[a].open
    /\ channel' = [channel EXCEPT ![a].open = FALSE, ![a].onBus = FALSE]
    /\ UNCHANGED <<route, opens, rxVars, written, stream, noise, stops>>

\* onStopIO: only gs_usb takes its device off the bus; SLCAN forgets the line
\* it was reading, and the rest of that line is the start of a later one.
StopIO(a) ==
    /\ stops < MaxStops
    /\ stops' = stops + 1
    /\ channel' = [channel EXCEPT ![a].open = FALSE,
                                  ![a].onBus = @ /\ Codec(a) # "gs_usb"]
    /\ IF a = 2 /\ Codec(2) = "slcan"
       THEN /\ line' = <<>>
            /\ boundary' = CASE boundary = "mid"  -> "torn"
                              [] boundary = "bell" -> "clean"
                              [] OTHER             -> boundary
       ELSE UNCHANGED <<line, boundary>>
    /\ UNCHANGED <<route, opens, previous, delivered, phantoms, due, written,
                   stream, noise>>

-----------------------------------------------------------------------------
\* External: what a device makes of the codec's bytes, and of a bus frame.  A
\* PCAN message ends at a multiple of four bytes, which may be short of the
\* length its DLC says; what the device sends of the rest nobody chose.
OnBus(codec, f) ==
    CASE codec = "slcan" ->
             LET s == Front(SlcanEncode(f))
             IN  IF Decodable(s) THEN SlcanDecode(s) ELSE none
      [] codec = "gs_usb" -> GsDecode(GsEncode(f))
      [] OTHER ->
             LET m == PcanEncode(f)
                 n == IF IsFd(m) THEN Dlc2Len(m.dlc) ELSE m.dlc
             IN  [id |-> m.id, bits |-> m.bits, flags |-> m.flags, ch |-> m.ch,
                  data |-> [i \in 1 .. n |-> IF i <= Len(m.payload) THEN m.payload[i]
                                             ELSE Unsent]]

RxMessage(f, ch) ==
    [type |-> "rx", tag |-> FALSE, size |-> Align4(kRxHeader + Len(f.data)),
     ch |-> ch, dlc |-> Len2Dlc(Len(f.data)), bits |-> f.bits,
     flags |-> f.flags, id |-> f.id, payload |-> Padded(f.data, Align4(Len(f.data)))]

\* A remote frame is a line of type r or R; each unit is a character here.
Line(f) ==
    IF "rtr" \in f.bits
    THEN <<IF "eff" \in f.bits THEN 82 ELSE 114>> \o Tail(SlcanEncode(f))
    ELSE SlcanEncode(f)
Units(f, ch) ==
    CASE Codec(2) = "slcan" ->
             LET s == Line(f)
             IN  [i \in DOMAIN s |->
                     <<s[i], IF i = Len(s) THEN f ELSE none>>]
      [] Codec(2) = "gs_usb" -> << <<[GsEncode(f) EXCEPT !.echo = FALSE], f>> >>
      [] OTHER -> << <<RxMessage(f, ch), [f EXCEPT !.ch = ch]>> >>

\* The app writes f; both adapters must be on the bus at its rate.
Write(f) ==
    /\ Len(written) < MaxFrames
    /\ channel[1].open
    /\ \A a \in Adapters : channel[a].onBus /\ channel[a].rate = BusRate
    /\ LET b == OnBus(Codec(1), f)
       IN  /\ written' = Append(written, <<f, b>>)
           /\ IF b = none THEN UNCHANGED stream
              ELSE \E ch \in IF Codec(2) = "pcan" THEN {0, 1} ELSE {0} :
                       stream' = stream \o Units([b EXCEPT !.ch = 0], ch)
    /\ UNCHANGED <<linkVars, rxVars, noise, stops>>

\* External: what else the reading device sends: replies to commands, echoes
\* of its own host's frames, status messages.
NoiseUnits ==
    CASE Codec(2) = "slcan" -> {<<Bell>>, <<CR>>, <<122, CR>>}
      [] Codec(2) = "gs_usb" ->
             {<<GsEncode(f)>> : f \in {g \in Frames[route] : g.data = <<>>}}
      [] OTHER -> {<<[RxMessage(f, 0) EXCEPT !.tag = TRUE]>> :
                       f \in {g \in Frames[route] : g.data = <<>>}}
                  \cup {<<[type |-> "status", tag |-> FALSE, size |-> 16]>>}
Noise ==
    /\ noise < MaxNoise /\ channel[2].onBus
    /\ noise' = noise + 1
    /\ \E units \in NoiseUnits :
           stream' = stream \o [i \in DOMAIN units |-> <<units[i], none>>]
    /\ UNCHANGED <<linkVars, rxVars, written, stops>>

-----------------------------------------------------------------------------
\* What a host should see of a frame its device heard (a reference: no codec
\* operator is used).  SLCAN has no remote frames and drops the FD flags.
Visible(codec, f) ==
    CASE codec = "slcan" -> IF "rtr" \in f.bits THEN <<>>
                            ELSE <<[f EXCEPT !.flags = @ \cap {"fdf"}]>>
      [] OTHER -> <<f>>

\* SLCAN: the accumulator works by character, so that a transfer cut anywhere
\* is a number of these steps.
SlcanTransfer ==
    LET u    == Head(stream)
        next == Accumulate([line |-> line, out |-> <<>>], u[1])
        lost == boundary \in {"torn", "bell"}
    IN  /\ stream # <<>>
        /\ stream' = Tail(stream)
        /\ line' = next.line
        /\ boundary' = CASE u[1] = CR           -> "clean"
                         [] u[1] = Bell         -> "bell"
                         [] boundary = "clean"  -> "mid"
                         [] boundary = "bell"   -> "torn"
                         [] OTHER               -> boundary
        /\ IF lost THEN phantoms' = phantoms \o next.out /\ UNCHANGED <<delivered, due>>
           ELSE /\ delivered' = delivered \o next.out
                /\ due' = IF u[2] = none THEN due ELSE due \o Visible("slcan", u[2])
                /\ UNCHANGED phantoms
        /\ UNCHANGED previous

VisibleOf(units) == FlattenSeq([i \in DOMAIN units |->
    IF units[i][2] = none THEN <<>> ELSE Visible(Codec(2), units[i][2])])

\* gs_usb: a transfer is one host frame; an echo is not a frame.
GsTransfer ==
    LET h == Head(stream)[1]
    IN  /\ stream # <<>>
        /\ delivered' = IF h.echo THEN delivered
                        ELSE Append(delivered, GsDecode(h))
        /\ due' = due \o VisibleOf(<<Head(stream)>>)
        /\ stream' = Tail(stream)
        /\ UNCHANGED <<line, boundary, previous, phantoms>>

EndMark == [type |-> "end", tag |-> FALSE, size |-> 0]
\* PCAN: the device packs whole messages; when room is left it ends them with
\* an empty one, and what its buffer held behind that is sent as well.
PcanTransfer ==
    \E n \in 1 .. Len(stream) :
        LET fresh == [i \in 1 .. n |-> stream[i][1]]
            used  == Offset(fresh, n + 1)
            msgs  == IF used + 4 > TransferSize THEN fresh
                     ELSE fresh \o <<EndMark>>
                          \o SubSeq(previous, n + 1, Len(previous))
        IN  /\ used <= TransferSize
            /\ delivered' = delivered \o PcanProcess(msgs, TransferSize)
            /\ due' = due \o VisibleOf(SubSeq(stream, 1, n))
            /\ previous' = SelectSeq(msgs, LAMBDA m : m # EndMark)
            /\ stream' = SubSeq(stream, n + 1, Len(stream))
            /\ UNCHANGED <<line, boundary, phantoms>>

Transfer ==
    /\ CASE Codec(2) = "slcan"  -> SlcanTransfer
         [] Codec(2) = "gs_usb" -> GsTransfer
         [] OTHER -> PcanTransfer
    /\ UNCHANGED <<linkVars, written, noise, stops>>

Next ==
    \/ \E a \in Adapters : Open(a) \/ Close(a) \/ StopIO(a)
    \/ \E f \in Frames[route] : Write(f)
    \/ Noise
    \/ Transfer

Spec == Init /\ [][Next]_vars

-----------------------------------------------------------------------------
(* The values each variable takes in every reachable state.                *)
TypeOK ==
    /\ route \in Routes
    /\ \A a \in Adapters : channel[a].open => channel[a].onBus
    /\ boundary \in {"clean", "mid", "bell", "torn"}
    /\ Codec(2) # "slcan" => line = <<>> /\ boundary = "clean"
    /\ Len(line) < kLineBuffer
    /\ Len(written) <= MaxFrames /\ noise <= MaxNoise
    /\ stops <= MaxStops /\ opens <= MaxOpens

Offered == {125000, 250000, 500000, 1000000, 2000000, 5000000}

\* A channel that reports itself open at a rate the app offers runs at that
\* rate, whatever the codec's search and the widths of the timing fields.
OpenAtBitrate ==
    \A a \in Adapters :
        channel[a].open /\ channel[a].asked \in Offered =>
            channel[a].rate = channel[a].asked

FdLengths == {Dlc2Len(d) : d \in 0 .. 15}

\* What goes onto the bus is the frame written: its id, format and data, at the
\* next length CAN FD has.  The bytes added are zeros where the codec sends
\* them: PCAN's message carries a multiple of four, so of 25 bytes written 28
\* go out under a DLC of 32 and the codec says nothing of the last four.  SLCAN
\* sends a remote frame as a data frame, drops the FD flags, and sends an FD
\* frame of any other length as a line its adapter refuses.
SentAsWritten ==
    \A i \in DOMAIN written :
        LET f == written[i][1]
            b == written[i][2]
            n == Min({l \in FdLengths : l >= Len(f.data)})
            sent == IF Codec(1) = "pcan" THEN Min({n, Align4(Len(f.data))}) ELSE n
            lost == Codec(1) = "slcan" /\ n # Len(f.data)
        IN  /\ lost <=> b = none
            /\ ~lost =>
                 /\ b.id = f.id /\ Len(b.data) = n
                 /\ SubSeq(b.data, 1, sent) = Padded(f.data, sent)
                 /\ b.flags = f.flags \ (IF Codec(1) = "slcan"
                                          THEN {"brs", "esi"} ELSE {})
                 /\ b.bits = f.bits \ (IF Codec(1) = "slcan" THEN {"rtr"} ELSE {})

\* All that is added to a frame is zeros.  gs_usb has it; the messages the PCAN
\* codec sends do not see to it.
ZeroPadded ==
    \A i \in DOMAIN written :
        LET f == written[i][1]
            b == written[i][2]
        IN  b # none => b.data = Padded(f.data, Len(b.data))

\* Wherever SLCAN's transfers cut its lines, however many messages those of the
\* other two hold, and whatever the device sends in between, the frames emitted
\* are those that arrived whole, once, in order: no frame of an echo, of stale
\* bytes behind an end mark or of two lines.  A frame nobody sent can be read
\* only from the rest of a line whose start was dropped with the accumulator
\* when I/O stopped.
EveryFrameOnce ==
    /\ TypeOK
    /\ delivered = due
    /\ phantoms # <<>> => stops > 0
=============================================================================
